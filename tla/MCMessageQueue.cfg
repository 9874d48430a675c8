CONSTANTS
  Msg = {m1, m2, m3}
  Invalid = {m3}
  Priority = {1, 2}
  MaxBatchSize = 2
  MaxRetries = 1
SPECIFICATION FairSpec
INVARIANTS
  TypeOK
  OnePlace
  NothingLost
PROPERTIES
  TakenInOrder
  ImplementsDelivery
  Settles
  ShutdownReturns
