CONSTANTS
  Messages = 3
  MaxChunks = 3
SPECIFICATION FairSpec
INVARIANTS
  TypeOK
  AtMostOnce
  LogonCoversItsChunk
PROPERTIES
  UncutReachHandler
CHECK_DEADLOCK FALSE
