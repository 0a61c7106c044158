SPECIFICATION Spec
CONSTANTS
  p1 = p1
  Policy = {p1}
  a = a
  Account = {a}
  AccountOf <- OneAccount
  daily = daily
  often = often
  Plan = {daily, often}
  Manual = Manual
  Every <- PlanEvery
  Offset <- PlanOffset
  None = None
  Scheduler = {s1, s2}
  Editor = {e1}
  Batches = FALSE
  MaxNow = 3
  MaxOther = 1
  MaxFails = 1
INVARIANTS
  TypeOK
  PlannedRuns
  SlotOnce
PROPERTIES
  BlockedSlotIsKept
CHECK_DEADLOCK FALSE
