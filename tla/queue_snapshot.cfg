SPECIFICATION Spec
CONSTANTS
  a1 = a1
  w1 = w1
  w2 = w2
  global = global
  Target = {a1}
  PagedTarget = {a1}
  Lock <- GlobalLock
  LockOf <- GlobalLockOf
  Worker = {w1}
  Session = {s1, s2}
  NoWorker = NoWorker
  Cli = Cli
  MaxJobs = 2
  MaxAttempts = 2
  SnapshotReads = TRUE
  CliRuns = FALSE
  LocksDrop = FALSE
INVARIANTS
  OneActivePerTarget
CHECK_DEADLOCK FALSE
