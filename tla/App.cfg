SPECIFICATION FairSpec
CONSTANTS
  SCHED_QUEUE_SIZE = 2
  RunLength = 3
  MaxKeys = 5
  MaxPowerLoss = 2
INVARIANTS
  TypeOK
  NeverStranded
  EachRequestRunsOnce
PROPERTIES
  ResetForgets
  RequestsAreServed
  ResetOpensProvisioning
