SPECIFICATION Spec
CONSTANTS
  c1 = c1
  c2 = c2
  eth0 = eth0
  eth1 = eth1
  eth2 = eth2
  gnss = gnss
  none = none
  Cards = {c1, c2}
  Names = {eth0, eth1, eth2}
  Texts = {gnss}
  NoLabel = none
  None = None
  NotSet = NotSet
  Calls <- MCCalls
  Slots <- MCSlots
  Verdicts = {"unknown", "fail"}
  MaxChanges = 2
  MaxCalls = 2
INVARIANTS TypeOK DiffHonest DiffOfUnknown LabelsAllOrNothing RecordWritten
CHECK_DEADLOCK FALSE
