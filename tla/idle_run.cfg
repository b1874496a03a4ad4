SPECIFICATION Spec
CONSTANTS
    Ttl = 0
    TtlAction = "PAUSE"
    IdleAction = "PAUSE"
    MemorySnapshot = TRUE
    CallsArePrompt = TRUE
    MaxTime = 3
    MaxVerbs = 3
    MaxCrashes = 0
PROPERTY IdleOfThisRun
