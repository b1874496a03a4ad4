SPECIFICATION FairSpec
CONSTANTS
  Source = "s"
  Target = "t"
  THRESHOLD = 2
  MaxBoxes = 6
  MaxVerbs = 2
  MaxMishaps = 1
PROPERTIES SparesWorkload ZeroOrphans
CHECK_DEADLOCK FALSE
