CONSTANTS
  Conn = {c1, c2}
  SessionId = {i1, i2}
  Sess = {s1, s2, s3}
  Room = {}
  None = None
  MaxSessions = 1
  RejectionIsFatal = FALSE
  Irregular = {"takeover", "hasty", "relogon", "foreign", "drop"}
SPECIFICATION Spec
SYMMETRY Symmetry
INVARIANTS
  RegistryBounded
  CleanupArmed
  TimerFollowsState
  LogoutQuietensInterval
CHECK_DEADLOCK FALSE
