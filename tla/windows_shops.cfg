SPECIFICATION Spec
CONSTANTS
  Worker = {w1}
  Floor = 1
  WindowDays = 2
  Lag = 1
  UpdateLag = 1
  Incremental = TRUE
  FirstDay = 3
  MaxDay = 5
  MaxJobs = 4
  MaxRange = 0
  LocksDrop = FALSE
  SomeShops = TRUE
INVARIANTS
  HistoryHasNoGap
CHECK_DEADLOCK FALSE
