SPECIFICATION Spec
CONSTANTS
  v = v
  Values = {v}
  Failed = Failed
  Missing = Missing
  NotAsked = NotAsked
  None = None
  Torn = Torn
  MaxPort = 2
  Clock <- OneClock
  Suspect = {1}
  RecordFlags <- MCRecord
  ReplayFlags <- MCReplay
INVARIANTS TypeOK ReplayFaithful ReplayReal NothingMissing WholeRecording
