SPECIFICATION FairFleetSpec
CONSTANTS
    a = a
    b = b
    i1 = i1
    Nodes = {a, b}
    InstanceIds = {i1}
    RecordIds = {i1}
    RunStates = {"running", "paused"}
    Clocks = {1, 2}
    Ttl = 1
    UniqueTags = FALSE
    LostAnswers = FALSE
    MaxEpoch = 2
    MaxVersion = 0
    MaxHeld = 2
    Policies = {"coldboot"}
    ClientKinds = {}
    OpsFail = FALSE
    Unreachable = FALSE
    MaxCrashes = 0
    MaxWrites = 1
PROPERTIES
    FenceRetried
CHECK_DEADLOCK FALSE
