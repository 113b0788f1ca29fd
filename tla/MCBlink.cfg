SPECIFICATION FairSpec
CONSTANTS
  eth0 = eth0
  eth1 = eth1
  eth2 = eth2
  None = None
  PortNames = {eth0, eth1, eth2}
  Reports <- MCReports
  Seconds = 2
  Delay = 1
  MaxApplied = 2
  MaxKeys = 3
INVARIANTS TypeOK InTurn InTurnButForStartUp
PROPERTIES FinishedSoonDark Drains
CHECK_DEADLOCK FALSE
