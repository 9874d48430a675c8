CONSTANTS
  Conn = {c1, c2}
  SessionId = {i1}
  Sess = {s1, s2, s3}
  Room = {r1}
  None = None
  MaxSessions = 0
  RejectionIsFatal = TRUE
  Irregular = {"takeover"}
SPECIFICATION Spec
INVARIANTS
  JoinedStaysJoined
CHECK_DEADLOCK FALSE
