SPECIFICATION Spec
CONSTANTS
  p1 = p1
  Policy = {p1}
  a = a
  Account = {a}
  AccountOf <- OneAccount
  daily = daily
  often = often
  Plan = {daily, often}
  Manual = Manual
  Every <- PlanEvery
  Offset <- PlanOffset
  None = None
  Scheduler = {s1}
  Editor = {e1}
  Batches = TRUE
  MaxNow = 3
  MaxOther = 0
  MaxFails = 0
INVARIANTS
  PlannedRuns
CHECK_DEADLOCK FALSE
