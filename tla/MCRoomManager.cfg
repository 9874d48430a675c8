CONSTANTS
  Room = {r1, r2, r3}
  SessionId = {s1, s2, s3}
SPECIFICATION Spec
INVARIANTS
  TypeOK
  IndexesAgree
  NoEmptyEntry
PROPERTY ImplementsMembership
