SPECIFICATION StoreSpec
CONSTANTS
  j1 = j1
  j2 = j2
  w1 = w1
  w2 = w2
  NoWorker = NoWorker
  Jobs <- MCJobs
  Workers <- MCWorkers
  LeaseTTL = 0
  MaxDelay = 1
  LeaseBound = 3
  ExecutionBound = 2
SYMMETRY MCSymmetry
INVARIANT StoreTypeOK
INVARIANT OneVerdictPerLease
INVARIANT ReplacedWasReported
PROPERTY FinishedStaysFinished
