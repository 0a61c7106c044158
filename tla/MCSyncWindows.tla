--------------------------- MODULE MCSyncWindows ---------------------------
(***************************************************************************)
(* Four settings of SyncWindows in one run.  "one": an api with an update   *)
(* window, from the first day of its history to the changes.  "renewed": an *)
(* api without one, whose frozen end is renewed, next to custom ranges of a *)
(* day or two.  "ranges": the same api, one custom range of up to three     *)
(* days, so of two windows, the second a short one, and every way to go     *)
(* through it.  "overtaken": jobs are declared dead while their workers run *)
(* on and commit checkpoints after newer executions.                        *)
(***************************************************************************)
EXTENDS SyncWindows, FiniteSets, TLC

CONSTANTS w1, w2

VARIABLE setting

One == INSTANCE SyncWindowsProofs WITH MaxRange <- 0

Renewed == INSTANCE SyncWindowsProofs WITH Incremental <- FALSE

Overtaken == INSTANCE SyncWindows WITH MaxRange <- 0, LocksDrop <- TRUE, MaxJobs <- 3

Setting == {"one", "renewed", "ranges", "overtaken"}

MCInit == setting \in Setting /\ Init

MCNext ==
  /\ \/ setting = "one" /\ One!Next
     \/ setting \in {"renewed", "ranges"} /\ Renewed!Next
     \/ setting = "overtaken" /\ Overtaken!Next
  /\ UNCHANGED setting

MCSpec == MCInit /\ [][MCNext]_<<vars, setting>>

Symmetry == Permutations(Worker)

\* How many executions did not succeed: a number that only grows.
Interrupted == {j \in DOMAIN jobs : jobs[j].status \in {"paused", "failed", "ended"}}

\* All executions are of one task, a custom range chosen when three days are over.
OneRange ==
  /\ \A j \in DOMAIN jobs : jobs[j].plan.kind = "custom" /\ jobs[j].task = 1
  /\ jobs # << >> => today >= FirstDay + 2

\* Bounds.  A renewed end shows within two days, a checkpoint that goes back over a window
\* within three.
InBounds ==
  /\ setting = "one" => Cardinality(Interrupted) <= 2
  /\ setting = "renewed" => today <= FirstDay + 1 /\ Len(jobs) <= 3
  /\ setting = "ranges" => OneRange
  /\ setting = "overtaken" => today <= FirstDay + 2

\* WaitingIsNext: an execution that waits or is paused holds the window the engine
\* expects next, unless an old execution moved the checkpoint under it.
NextIsWaiting == setting # "overtaken" => WaitingIsNext

\* CheckpointsAdvance: the checkpoints never go back, except when an old execution
\* commits after a newer one; T0 may only change with them.
CheckpointsOnlyAdvance == [][setting # "overtaken" => Advances]_<<vars, setting>>

\* SuccessMeansCovered: a task that reports success has fetched all the days of its
\* range, unless its executions ran next to newer ones.
SuccessIsCovered == setting # "overtaken" => SuccessMeansCovered

=============================================================================
