SPECIFICATION FairSpec
CONSTANTS
  Collections <- OneCall
  MaxPorts = 3
  Jobs = 2
  Overlap = FALSE
  SkipRoot = TRUE
  MaxWorld = 1
PROPERTIES Ends Implements
CHECK_DEADLOCK FALSE
