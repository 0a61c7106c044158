SPECIFICATION MCSpec
CONSTANTS
  u1 = u1
  u2 = u2
  i1 = i1
  i2 = i2
  n1 = n1
  b2 = b2
  a1 = a1
  a2 = a2
  Actor = {a1, a2}
  Caller = {a1, a2}
  Interval <- Pace
  Cooldown = {2}
  Retries = 2
  MaxClock = 3
  LastDay = 4
  Floor = 2
  ScanDays = 3
  JobDays = 2
  Scanner = {s1}
  MaxChanges = 1
  Batch = {b1}
  Version = {1, 2}
  Endpoint = {"list", "page"}
  MaxCredentials = 2
  MaxVersions = 2
  MaxJobs = 2
  ParamKey = {1, 2, 3}
  Limit = 2
  RefreshAfter = 2
  MaxParamRuns = 5
SYMMETRY Symmetry
CONSTRAINT InStory
INVARIANTS
  TypesOK
  LiveIsNewest
  LiveSessionsAreCurrent
  VouchedIsStored
  StoreAgrees
  EveryKeyGetsItsTurn
  NothingSkipped
  ActiveIsVerified
  RunsAgree
  RowsTellTheTruth
  MovedWhole
PROPERTIES
  AdminRemains
  UsedBeforeSuccessor
  ActivityAdvances
  SlotsAreSpaced
CHECK_DEADLOCK FALSE
