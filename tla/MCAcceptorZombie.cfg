CONSTANTS
  Conn = {c1}
  SessionId = {i1}
  Sess = {s1, s2, s3}
  Room = {}
  None = None
  MaxSessions = 0
  RejectionIsFatal = TRUE
  Irregular = {"drop"}
SPECIFICATION Spec
INVARIANTS
  ActiveSessionsOnly
CHECK_DEADLOCK FALSE
