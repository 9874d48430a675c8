CONSTANTS
  Conn = {c1, c2, c3}
  SessionId = {i1, i2}
  Sess = {s1, s2, s3}
  Room = {r1, r2}
  None = None
  MaxSessions = 0
  RejectionIsFatal = TRUE
  Irregular = {}
SPECIFICATION Spec
SYMMETRY Symmetry
INVARIANTS
  TypeOK
  RoomsFollowSessions
CHECK_DEADLOCK FALSE
