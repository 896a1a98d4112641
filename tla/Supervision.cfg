SPECIFICATION SupervisionSpec
CONSTANTS
  p1 = p1
  p2 = p2
  Procs <- TwoProcs
  Times <- FewTimes
  Digits = 1
  CrashBound = 1
INVARIANTS
  SupervisionTypeOK
  OpenIsAlone
  RefusedByAWriter
  UsersHaveItOpen
  ServesCurrentFile
  ReadyIsNotLate
PROPERTIES
  OpenedIsServed
  EndsAsAWhole
CHECK_DEADLOCK FALSE
