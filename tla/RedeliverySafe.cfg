SPECIFICATION LoopSpec
CONSTANTS
  j1 = j1
  j2 = j2
  j3 = j3
  a1 = a1
  l1 = l1
  l2 = l2
  NoAttempt = NoAttempt
  Jobs <- MCJobs
  Attempts <- MCAttempts
  Loops <- TwoLoops
  Foreign <- NoJob
  Poison <- NoJob
  Refused <- SecondJob
  Concurrency = 1
  ClaimTTL = 0
  BaseBackoff = 4
  MaxBackoff = 5
  BatchLimit = 2
  FailedCap = 2
  FaultBound = 1
SYMMETRY MCSymmetry
INVARIANTS
  LoopTypeOK
  LedgerTellsTruth
  OneClaimant
CHECK_DEADLOCK FALSE
