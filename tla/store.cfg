SPECIFICATION SuiteSpec
CONSTANTS
    a = a
    b = b
    p1 = p1
    p2 = p2
    Names = {"a"}
    Bundles = {"b1", "b2"}
    DiskOnly = TRUE
    MaxSnaps = 2
    MaxVerbs = 4
    MaxCrashes = 1
    MaxFaults = 1
SYMMETRY Renaming
INVARIANTS
    ServesWhatItNames StrictNeverCold NamesUnique Portability ContainersHonest
    NeverStuck
PROPERTIES
    KeptUntilAsked CapsulesHonest SandboxHonest
CHECK_DEADLOCK FALSE
