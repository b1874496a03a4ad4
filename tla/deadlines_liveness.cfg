SPECIFICATION FairSpec
CONSTANTS
    Ttl = 1
    TtlAction = "PAUSE"
    IdleAction = "none"
    MemorySnapshot = TRUE
    CallsArePrompt = TRUE
    MaxTime = 3
    MaxVerbs = 1
    MaxCrashes = 1
INVARIANTS RunningIsLeased FreshKeys
PROPERTIES
    LeaseHonoured
    LeaseEnds
    AlarmAnswered
