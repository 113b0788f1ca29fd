SPECIFICATION MCSpec
CONSTANTS
  Machines <- MCMachines
  reading = reading
  off = off
  all = all
  Addresses = {a1, a2}
  None = None
  Readings = {reading}
  NoReading = NoReading
  Cases <- MCCases
  Tokens = {off, all}
  NoList = NoList
INVARIANTS TypeOK NeverGuesses ChainVerdict OffReason UnknownSaysWhy DraftsFollowRows ScreensHonest LspciParsed StampListsApart
CHECK_DEADLOCK FALSE
