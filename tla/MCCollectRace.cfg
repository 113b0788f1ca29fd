SPECIFICATION FairSpec
CONSTANTS
  Collections <- TwoCalls
  MaxPorts = 1
  Jobs = 2
  Overlap = TRUE
  SkipRoot = FALSE
  MaxWorld = 1
PROPERTIES CacheReadOnly
CHECK_DEADLOCK FALSE
