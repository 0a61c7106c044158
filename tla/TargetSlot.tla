----------------------------- MODULE TargetSlot -----------------------------
(***************************************************************************)
(* What the job queue promises to the owner of a target, an (account, api) *)
(* pair: the target is a slot for one job at a time.  Job ids are issued   *)
(* in order; a job takes the slot the instant it is issued, from an empty  *)
(* slot or from the job that makes way for it, and once out never returns. *)
(***************************************************************************)
EXTENDS Naturals

CONSTANT Target
VARIABLES occupant,   \* the active jobs of each target: none or one
          issued      \* how many job ids have been issued

vars == <<occupant, issued>>

Init ==
  /\ occupant = [t \in Target |-> {}]
  /\ issued = 0

\* A new job takes the slot of t, empty or handed over in the same step.
Place(t) ==
  /\ issued' = issued + 1
  /\ occupant' = [occupant EXCEPT ![t] = {issued + 1}]

\* The jobs of the targets in S end; one recovery pass may end several.
Vacate(S) ==
  /\ \A t \in S : occupant[t] # {}
  /\ occupant' = [t \in Target |-> IF t \in S THEN {} ELSE occupant[t]]
  /\ UNCHANGED issued

Next ==
  \/ \E t \in Target : Place(t)
  \/ \E S \in (SUBSET Target) \ {{}} : Vacate(S)

Spec == Init /\ [][Next]_vars

=============================================================================
