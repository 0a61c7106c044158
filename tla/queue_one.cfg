SPECIFICATION Spec
CONSTANTS
  a1 = a1
  w1 = w1
  w2 = w2
  global = global
  Target = {a1}
  PagedTarget = {a1}
  Lock <- GlobalLock
  LockOf <- GlobalLockOf
  Worker = {w1}
  Session = {s1}
  NoWorker = NoWorker
  Cli = Cli
  MaxJobs = 3
  MaxAttempts = 1
  SnapshotReads = FALSE
  CliRuns = FALSE
  LocksDrop = FALSE
INVARIANTS
  OneActivePerTarget
  LiveIsCurrent
  ContinuedOnce
PROPERTIES
  StopEndsTask
  SlotSpec
CHECK_DEADLOCK FALSE
