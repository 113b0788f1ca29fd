SPECIFICATION Spec
CONSTANTS
  Collections <- TwoCalls
  MaxPorts = 2
  Jobs = 2
  Overlap = FALSE
  SkipRoot = FALSE
  MaxWorld = 1
INVARIANTS TypeOK JobsOnlyHit StillAbsent NoStrayJob WholeReport
PROPERTIES CacheReadOnly
CHECK_DEADLOCK FALSE
