SPECIFICATION FairSpec
CONSTANTS
  p1 = p1
  p2 = p2
  Policy = {p1, p2}
  a = a
  Account = {a}
  AccountOf <- OneAccount
  daily = daily
  often = often
  Plan = {often}
  Manual = Manual
  Every <- PlanEvery
  Offset <- PlanOffset
  None = None
  Scheduler = {s1}
  Editor = {}
  Batches = TRUE
  MaxNow = 2
  MaxOther = 0
  MaxFails = 1
INVARIANTS
  CatchUpOnce
  NextOnPlan
PROPERTIES
  DueIsServed
CHECK_DEADLOCK FALSE
