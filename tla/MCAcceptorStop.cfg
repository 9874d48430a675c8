CONSTANTS
  Conn = {c1, c2, c3}
  SessionId = {i1, i2}
  Sess = {s1, s2, s3}
  Room = {}
  None = None
  MaxSessions = 0
  RejectionIsFatal = FALSE
  Irregular = {"takeover", "stop"}
SPECIFICATION FairSpec
INVARIANTS
  StopSucceeds
PROPERTIES
  StopCompletes
CHECK_DEADLOCK FALSE
