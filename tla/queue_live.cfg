SPECIFICATION FairSpec
CONSTANTS
  a1 = a1
  w1 = w1
  w2 = w2
  global = global
  Target = {a1}
  PagedTarget = {a1}
  Lock <- GlobalLock
  LockOf <- GlobalLockOf
  Worker = {w1, w2}
  Session = {s1}
  NoWorker = NoWorker
  Cli = Cli
  MaxJobs = 1
  MaxAttempts = 2
  SnapshotReads = TRUE
  CliRuns = FALSE
  LocksDrop = FALSE
INVARIANTS
  EngineIsExclusive
  BatchAgrees
PROPERTIES
  LiveJobsSettle
CHECK_DEADLOCK FALSE
