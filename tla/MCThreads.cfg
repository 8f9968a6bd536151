SPECIFICATION MCSpec
CONSTANTS
  Threads = {t1, t2, t3}
  Clients = {c1, t1}
  Jobs = {j1, j2}
  NULL = NULL
  Signals = {s1, s2}
  Spurious = TRUE
  MaxIndex = 2
  Torn = TRUE
INVARIANTS
  PermitsBackedByJobs
  NoLostWakeup
  NullIsBeingFilled
  SameFunctions
PROPERTIES
  StopReturns
  EveryJobStarted
  GetReturns
CHECK_DEADLOCK FALSE
