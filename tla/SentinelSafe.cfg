SPECIFICATION SentinelSpec
CONSTANTS
  j1 = j1
  w1 = w1
  w2 = w2
  w3 = w3
  NoWorker = NoWorker
  Jobs <- OneJob
  Workers <- ThreeWorkers
  LeaseTTL = 0
  MaxDelay = 1
  LeaseBound = 4
  ExecutionBound = 4
  MaxAttempts = 2
  Environments <- AllEnvironments
  Reconciles = 1
INVARIANTS
  SentinelTypeOK
  OneTerminalRecord
  AtMostOneExecution
  ReleasedIsQuiet
  ReportedAsFinished
  SlotIsUsed
CHECK_DEADLOCK FALSE
