SPECIFICATION SuiteSpec
CONSTANTS
    a = a
    b = b
    i1 = i1
    o1 = o1
    o2 = o2
    o3 = o3
    Instances = {i1}
    Operations = {o1, o2, o3}
    Kinds <- AllKinds
    MaxCrashes = 1
    Nodes = {a, b}
    InstanceIds = {i1}
    Clocks = {1, 2}
    Ttl = 1
    RunStates = {"running"}
    UniqueTags = FALSE
    LostAnswers = TRUE
    MaxEpoch = 2
    MaxVersion = 0
    MaxHeld = 1
SYMMETRY Renaming
INVARIANTS
    OneExecutor JournalHonest OneOwnerPerEpoch FleetHonest
PROPERTIES
    IsRegister
CHECK_DEADLOCK FALSE
