SPECIFICATION MCSpec
CONSTANTS
  w1 = w1
  w2 = w2
  Worker = {w1, w2}
  Floor = 1
  WindowDays = 2
  Lag = 1
  UpdateLag = 1
  Incremental = TRUE
  FirstDay = 2
  MaxDay = 5
  MaxJobs = 4
  MaxRange = 3
  LocksDrop = FALSE
  SomeShops = FALSE
SYMMETRY Symmetry
CONSTRAINT InBounds
INVARIANTS
  HistoryHasNoGap
  NothingMissed
  CustomFollowsPreview
  NextIsWaiting
  SuccessIsCovered
PROPERTIES
  CheckpointsOnlyAdvance
CHECK_DEADLOCK FALSE
