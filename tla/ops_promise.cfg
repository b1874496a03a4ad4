SPECIFICATION OrderedSpec
CONSTANTS
    o1 = o1
    o2 = o2
    o3 = o3
    Instances = {i1}
    Operations = {o1, o2, o3}
    Kinds <- TableKinds
    MaxCrashes = 2
INVARIANT NotStranded
PROPERTIES
    KeepsPromise
    EverySettles
    ClaimReleases
CHECK_DEADLOCK FALSE
