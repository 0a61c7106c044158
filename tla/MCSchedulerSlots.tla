-------------------------- MODULE MCSchedulerSlots --------------------------
(* SchedulerSlots with a plan that fires now and then, and one that fires    *)
(* twice as often and shares its instants.                                   *)
EXTENDS SchedulerSlots

CONSTANTS a, daily, often

OneAccount == [p \in Policy |-> a]
PlanEvery == [p \in Plan |-> IF p = daily THEN 2 ELSE 1]
PlanOffset == [p \in Plan |-> IF p = daily THEN 2 ELSE 1]

=============================================================================
