CONSTANTS
  MaxAttempts = 3
  MaxStarts = 3
SPECIFICATION FairSpec
INVARIANTS
  TypeOK
  OneChainPerStart
  AttemptsBounded
  StopIsFinal
PROPERTIES
  ComesToRest
