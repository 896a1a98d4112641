SPECIFICATION FairSentinelSpec
CONSTANTS
  j1 = j1
  w1 = w1
  w2 = w2
  w3 = w3
  NoWorker = NoWorker
  Jobs <- OneJob
  Workers <- TwoWorkers
  LeaseTTL = 0
  MaxDelay = 0
  LeaseBound = 3
  ExecutionBound = 3
  MaxAttempts = 2
  Environments <- Lively
  Reconciles = 1
PROPERTIES
  JobFinishes
  StoreUsedAsSpecified
CHECK_DEADLOCK FALSE
