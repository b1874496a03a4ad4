SPECIFICATION FairSuiteSpec
CONSTANTS
    Emitters = {"exec", "loop"}
    Watchers = {"w"}
    Follower = "w"
    Instances = {"i"}
    Cap = 1
    Page = 1
    Chunk = 1
    MaxEvents = 3
    MaxSweeps = 1
    MaxFaults = 1
INVARIANTS
    NoHole ReadersHonest CalendarRight
PROPERTIES
    FollowerReturns
CHECK_DEADLOCK FALSE
