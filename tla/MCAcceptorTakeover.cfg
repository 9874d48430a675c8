CONSTANTS
  Conn = {c1, c2, c3}
  SessionId = {i1, i2}
  Sess = {s1, s2, s3}
  Room = {}
  None = None
  MaxSessions = 2
  RejectionIsFatal = FALSE
  Irregular = {"takeover"}
SPECIFICATION FairSpec
INVARIANTS
  ActiveSessionsOnly
  LoggedOnIsRegistered
PROPERTIES
  ImplementsDirectory
  TakeoverCompletes
  DeadSocketsAreSwept
CHECK_DEADLOCK FALSE
