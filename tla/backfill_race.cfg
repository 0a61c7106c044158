SPECIFICATION Spec
CONSTANTS
  LastDay = 4
  Floor = 2
  ScanDays = 3
  JobDays = 2
  Scanner = {"s1"}
  BesideJobs = TRUE
  MaxChanges = 1
INVARIANTS
  NothingSkipped
CHECK_DEADLOCK FALSE
