SPECIFICATION FairSpec
CONSTANTS
    MaxOps = 4
    MaxFaults = 2
    Tries = 1
    MaxMoves = 1
INVARIANTS
    HonestResume KeyFirst Pinned ExitIsWorkloads GuestHonest
PROPERTIES
    EveryoneAnswered
CHECK_DEADLOCK FALSE
