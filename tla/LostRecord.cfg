SPECIFICATION SentinelSpec
CONSTANTS
  j1 = j1
  w1 = w1
  w2 = w2
  w3 = w3
  NoWorker = NoWorker
  Jobs <- OneJob
  Workers <- TwoWorkers
  LeaseTTL = 0
  MaxDelay = 1
  LeaseBound = 3
  ExecutionBound = 3
  MaxAttempts = 2
  Environments <- Crashing
  Reconciles = 1
INVARIANT CompletedHasRecord
CHECK_DEADLOCK FALSE
