SPECIFICATION HistorySpec
CONSTANTS
  MaxAttempts = 5
  LeaseBound = 5
  Causes = {"killed"}
INVARIANT InfraIsRetried
CHECK_DEADLOCK FALSE
