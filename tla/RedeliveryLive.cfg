SPECIFICATION FairLoopSpec
CONSTANTS
  j1 = j1
  j2 = j2
  j3 = j3
  a1 = a1
  l1 = l1
  l2 = l2
  NoAttempt = NoAttempt
  Jobs <- ThreeJobs
  Attempts <- MCAttempts
  Loops <- OneLoop
  Foreign <- ThirdJob
  Poison <- SecondJob
  Refused <- NoJob
  Concurrency = 1
  ClaimTTL = 0
  BaseBackoff = 1
  MaxBackoff = 1
  BatchLimit = 1
  FailedCap = 1
  FaultBound = 1
PROPERTIES
  EveryDeliveryResolved
CHECK_DEADLOCK FALSE
