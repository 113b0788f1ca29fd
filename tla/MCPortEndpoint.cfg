SPECIFICATION MCSpec
CONSTANTS
  Machines <- MCMachines
  reading = reading
  off = off
  all = all
  Addresses = {a1, a2}
  None = None
  Readings = {reading}
  NoReading = NoReading
  Cases <- MCCases
  Tokens = {off, all}
  NoList = NoList
INVARIANTS AloneNotRefused
CHECK_DEADLOCK FALSE
