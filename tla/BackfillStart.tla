--------------------------- MODULE BackfillStart ---------------------------
(***************************************************************************)
(* Where a history backfill begins: the operator scans the upstream for the *)
(* first business date with data (sale_return_discovery.py) and saves it as *)
(* the start of a backfill that has not begun (cli.py), while the data       *)
(* changes, other scans go on, and jobs of the target are planned and run.  *)
(***************************************************************************)
EXTENDS Integers

CONSTANTS
  LastDay,     \* business dates are 1 .. LastDay
  Floor,       \* date_window.default_start
  ScanDays,    \* window_days of a scan
  JobDays,     \* date_window.days
  Scanner,     \* operators that run the command
  BesideJobs,  \* TRUE: a scan may be saved while a job of the target runs
  MaxChanges   \* bound: changes of the upstream data


Day == 1 .. LastDay

VARIABLES
  data,     \* days the upstream has data for
  changes,
  scan,     \* what each operator is doing
  point,    \* checkpoint history_backfill
  stable,   \* days known to the scan that was saved: they had data all along
  job,      \* the job of the target
  fetched   \* days that were fetched

vars == <<data, changes, scan, point, stable, job, fetched>>

NoScan == [stage |-> "idle", from |-> 1, to |-> 1, cursor |-> 1, low |-> 1, high |-> 1,
           stable |-> {}]
NoPoint == [there |-> FALSE, next |-> Floor, floor |-> Floor, begun |-> FALSE]
NoJob == [stage |-> "none", start |-> 1, end |-> 1]

Init ==
  /\ data \in SUBSET Day /\ changes = 0
  /\ scan = [s \in Scanner |-> NoScan]
  /\ point = NoPoint /\ stable = {}
  /\ job = NoJob /\ fetched = {}

At(s, stage) == scan[s].stage = stage
Become(s, state) == scan' = [scan EXCEPT ![s] = state]
Least(a, b) == IF a < b THEN a ELSE b

\* probe_total: one request, at one moment.
Any(first, last) == \E d \in first .. last : d \in data

\* discover_earliest_date: each request is a step.
BeginScan(s) ==
  /\ At(s, "idle")
  /\ \E a, b \in Day :
       /\ a <= b
       /\ Become(s, [NoScan EXCEPT !.stage = "coarse", !.from = a, !.to = b, !.cursor = a,
                                   !.stable = data \cap a .. b])
  /\ UNCHANGED <<data, changes, point, stable, job, fetched>>

CoarseEnd(s) == Least(scan[s].cursor + ScanDays - 1, scan[s].to)

\* An empty window is left behind; after the last one there is nothing to save.
Coarse(s) ==
  LET end == CoarseEnd(s) IN
  /\ At(s, "coarse")
  /\ Become(s, CASE Any(scan[s].cursor, end) ->
                      [scan[s] EXCEPT !.stage = "refine", !.low = scan[s].cursor, !.high = end]
                 [] ~Any(scan[s].cursor, end) /\ end < scan[s].to ->
                      [scan[s] EXCEPT !.cursor = end + 1]
                 [] OTHER -> NoScan)
  /\ UNCHANGED <<data, changes, point, stable, job, fetched>>

\* The prefix from the left end of the window on tells which half to go on with.
Halved(s) ==
  LET middle == scan[s].low + (scan[s].high - scan[s].low) \div 2 IN
  IF Any(scan[s].cursor, middle) THEN [scan[s] EXCEPT !.high = middle]
  ELSE [scan[s] EXCEPT !.low = middle + 1]

Refine(s) ==
  /\ At(s, "refine") /\ scan[s].low < scan[s].high
  /\ Become(s, Halved(s))
  /\ UNCHANGED <<data, changes, point, stable, job, fetched>>

\* The day that was found must still have data.
Confirm(s) ==
  /\ At(s, "refine") /\ scan[s].low = scan[s].high
  /\ Become(s, IF scan[s].low \in data THEN [scan[s] EXCEPT !.stage = "save"] ELSE NoScan)
  /\ UNCHANGED <<data, changes, point, stable, job, fetched>>

Found(s) == [there |-> TRUE, next |-> scan[s].low, floor |-> scan[s].low, begun |-> FALSE]

\* The start is written once, and again only while no job has moved it on.
Savable(s) == ~point.begun /\ point # Found(s)

\* _save_discovered_backfill_start, under the lock of the checkpoint row.
Save(s) ==
  /\ At(s, "save") /\ Savable(s)
  /\ BesideJobs \/ job.stage # "running"
  /\ point' = Found(s)
  /\ stable' = scan[s].stable
  /\ Become(s, NoScan)
  /\ UNCHANGED <<data, changes, job, fetched>>

\* Unchanged, refused, a request that failed, an account that is not active, or the
\* command was not asked to save.
GiveUp(s) ==
  /\ ~At(s, "idle")
  /\ Become(s, NoScan)
  /\ UNCHANGED <<data, changes, point, stable, job, fetched>>

\* backfill_state: planning refuses a checkpoint below its lower bound.
Plannable == point.floor >= Floor /\ point.next >= point.floor

\* A job gets its window when it is entered in the queue.
Plan ==
  /\ job.stage = "none" /\ Plannable /\ point.next <= LastDay
  /\ job' = [stage |-> "queued", start |-> point.next,
             end |-> Least(point.next + JobDays - 1, LastDay)]
  /\ UNCHANGED <<data, changes, scan, point, stable, fetched>>

\* A slip: the window of the job is not compared with the checkpoint.
StartsAtAny == TRUE

\* _date_window_params: "window must start at the current checkpoint".
StartsAt == job.start = point.next

\* The engine reads the checkpoint once, before the first request.
Start ==
  /\ job.stage = "queued" /\ StartsAt
  /\ job' = [job EXCEPT !.stage = "running"]
  /\ UNCHANGED <<data, changes, scan, point, stable, fetched>>

\* _date_window_checkpoint_extra and _update_checkpoint: the next window follows the
\* one that was fetched; the lower bound is read again and kept.
Commit ==
  /\ job.stage = "running"
  /\ fetched' = fetched \cup job.start .. job.end
  /\ point' = [point EXCEPT !.there = TRUE, !.next = job.end + 1, !.begun = TRUE]
  /\ job' = NoJob
  /\ UNCHANGED <<data, changes, scan, stable>>

\* The job fails or is cancelled.
FailJob ==
  /\ job.stage # "none"
  /\ job' = NoJob
  /\ UNCHANGED <<data, changes, scan, point, stable, fetched>>

\* Data of a day appears or goes.
Change(d) ==
  /\ changes < MaxChanges
  /\ changes' = changes + 1
  /\ data' = IF d \in data THEN data \ {d} ELSE data \cup {d}
  /\ scan' = [s \in Scanner |-> [scan[s] EXCEPT !.stable = @ \ {d}]]
  /\ stable' = stable \ {d}
  /\ UNCHANGED <<point, job, fetched>>

Next ==
  \/ \E s \in Scanner :
       BeginScan(s) \/ Coarse(s) \/ Refine(s) \/ Confirm(s) \/ Save(s) \/ GiveUp(s)
  \/ Plan \/ Start \/ Commit \/ FailJob
  \/ \E d \in Day : Change(d)

Spec == Init /\ [][Next]_vars

-----------------------------------------------------------------------------
(* Properties.                                                              *)

TypeOK ==
  /\ data \subseteq Day /\ fetched \subseteq Day /\ stable \subseteq Day
  /\ {point.next, point.floor} \subseteq 1 .. LastDay + 1
  /\ job.start \in Day /\ job.end \in Day
  /\ \A s \in Scanner : scan[s].stable \subseteq scan[s].from .. scan[s].to

\* A backfill that can go on has skipped nothing of what the saved scan was to find:
\* a day of its range that had data since before the scan began lies ahead of the
\* checkpoint, or was fetched.
NothingSkipped ==
  Plannable => \A d \in stable : d < point.next => d \in fetched

=============================================================================
