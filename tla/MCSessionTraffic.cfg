CONSTANTS
  Sess = {s1, s2}
  Room = {r1}
  Broadcast = {b1, b2}
  None = None
  MaxSeqNum = 3
SPECIFICATION FairSpec
INVARIANTS
  TypeOK
  SequenceIntact
  SameOrder
  NoStaleTarget
PROPERTIES
  SilentOnceDisconnected
  SendReturns
  EndIsAnnounced
CHECK_DEADLOCK FALSE
