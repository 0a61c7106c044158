SPECIFICATION Spec
CONSTANTS
  a1 = a1
  w1 = w1
  w2 = w2
  global = global
  Target = {a1}
  PagedTarget = {a1}
  Lock <- GlobalLock
  LockOf <- GlobalLockOf
  Worker = {w1, w2}
  Session = {s1}
  NoWorker = NoWorker
  Cli = Cli
  MaxJobs = 2
  MaxAttempts = 2
  SnapshotReads = FALSE
  CliRuns = TRUE
  LocksDrop = TRUE
SYMMETRY WorkerSymmetry
INVARIANTS
  TypeOK
  SuccessIsBacked
PROPERTIES
  FinalRowsFrozen
  SettledByOwner
CHECK_DEADLOCK FALSE
