SPECIFICATION FairSuiteSpec
CONSTANTS
    a = a
    b = b
    i1 = i1
    i2 = i2
    Nodes = {a, b}
    InstanceIds = {i1, i2}
    RecordIds = {i1}
    RunStates = {"running", "paused"}
    Clocks = {1, 2}
    Ttl = 1
    UniqueTags = FALSE
    LostAnswers = FALSE
    MaxEpoch = 2
    MaxVersion = 0
    MaxHeld = 2
    Policies = {"coldboot"}
    ClientKinds = {}
    OpsFail = FALSE
    Unreachable = FALSE
    MaxCrashes = 1
    MaxWrites = 1
PROPERTIES
    Realised
    IsLease
CHECK_DEADLOCK FALSE
