SPECIFICATION Spec
CONSTANTS
  p1 = p1
  p2 = p2
  k1 = k1
  k2 = k2
  gnss = gnss
  pps = pps
  none = none
  NoInode = NoInode
  Torn = Torn
  Foreign = Foreign
  Nothing = Nothing
  Unread = Unread
  Unpromised = Unpromised
  Processes = {p1, p2}
  Keys <- MCKeys
  Texts <- MCTexts
  NoLabel = none
  Inodes = {1, 2}
  Concurrent = FALSE
  ReadFails = TRUE
  FirstFile <- AnyFirst
INVARIANTS TypeOK NeverTorn Kept
PROPERTIES ImplementsAtomic
