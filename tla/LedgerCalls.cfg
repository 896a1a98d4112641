SPECIFICATION CallsSpec
CONSTANTS
  j1 = j1
  j2 = j2
  a1 = a1
  a2 = a2
  NoAttempt = NoAttempt
  Jobs <- MCJobs
  Attempts <- MCAttempts
  ClaimTTL = 0
  MaxBackoff = 1
  BatchLimit = 1
  FailedCap = 1
  ClaimBound = 3
SYMMETRY MCSymmetry
INVARIANTS
  LedgerTypeOK
  OneOutcomePerClaim
  PayloadIsSlotOwners
PROPERTIES
  LedgerGraph
CHECK_DEADLOCK FALSE
