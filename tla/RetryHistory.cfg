SPECIFICATION HistorySpec
CONSTANTS
  MaxAttempts = 7
  LeaseBound = 9
  Causes = {"exit", "oom", "unschedulable", "pull", "evicted", "api", "gone", "mute", "unlisted"}
INVARIANTS
  HistoryTypeOK
  RetriedAsStated
  WaitsBackOff
CHECK_DEADLOCK FALSE
