SPECIFICATION EnqueueSpec
CONSTANTS
  c1 = c1
  c2 = c2
  Nothing = Nothing
  Calls <- TwoCalls
  Ids <- FewIds
  Bodies <- PlainBodies
  Requests <- PlainRequests
  FaultBound = 1
INVARIANTS
  EnqueueTypeOK
  OneJobPerRequest
PROPERTIES
  EnqueuesOnce
  CallerLearns
CHECK_DEADLOCK FALSE
