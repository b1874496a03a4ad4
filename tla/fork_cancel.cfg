SPECIFICATION SoundSpec
CONSTANTS
    o1 = o1
    o2 = o2
    o3 = o3
    Instances = {i1}
    Operations = {o1, o2}
    Kinds <- AllKinds
    MaxCrashes = 0
INVARIANT NotStranded
CHECK_DEADLOCK FALSE
