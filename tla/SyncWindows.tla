----------------------------- MODULE SyncWindows -----------------------------
(***************************************************************************)
(* The date windows of one (account, api): how an execution gets its       *)
(* window from the checkpoint (sync_job_planning.py), how the engine checks *)
(* it and advances the checkpoint (sync_engine.py), and how a success is   *)
(* followed by the next window (sync_worker.py).                           *)
(*                                                                         *)
(* Days are integers.  A history backfill walks over the business dates    *)
(* from Floor up to an end that was frozen when it was planned, at T0; an   *)
(* api with an update window then follows the change dates from T0 on.  A   *)
(* custom range walks over business dates and leaves the checkpoint alone.  *)
(*                                                                         *)
(* SyncJobQueue shows that a target has one active job; here that is the    *)
(* guard NoActiveJob.  Claims are folded into Start: a job that was lost    *)
(* before it had a batch is queued again as it was.                        *)
(***************************************************************************)
EXTENDS Integers, Sequences

CONSTANTS
  Worker,
  Floor,        \* date_window.default_start
  WindowDays,   \* date_window.days and update_window.days
  Lag,          \* lag_days of the date window
  UpdateLag,    \* lag_days of the update window
  Incremental,  \* the api has a verified update window
  FirstDay,     \* the day the system is started on
  MaxDay,       \* bound: the last day of the model
  MaxJobs,      \* bound: executions ever inserted
  MaxRange,     \* bound: days in a custom range
  LocksDrop,    \* TRUE: a job may be lost while its worker runs on
  SomeShops     \* TRUE: a manual checkpoint task may ask for some shops only

ASSUME DaysAssumption ==
  /\ {Floor, FirstDay, MaxDay} \subseteq Int
  /\ WindowDays \in Nat \ {0}
  /\ {Lag, UpdateLag, MaxRange} \subseteq Nat
  /\ MaxJobs \in Nat \ {0}
  /\ Floor > 0
  /\ Floor <= FirstDay - Lag
  /\ FirstDay <= MaxDay
ASSUME SwitchAssumption == {Incremental, LocksDrop, SomeShops} \subseteq BOOLEAN

Day == Floor .. MaxDay
JobId == 1 .. MaxJobs

VARIABLES
  today,    \* the local date of the policy's time zone
  history,  \* checkpoint history_backfill: next start, frozen end and T0
  update,   \* checkpoint update_incremental: next start
  jobs,     \* the executions in the order of their ids
  exec,     \* what each worker is doing
  fetched   \* kind, day -> when the last complete fetch of that day began

vars == <<today, history, update, jobs, exec, fetched>>

Active == {"queued", "running", "paused"}
Kind == {"history", "update", "custom"}
None == Floor - 1                 \* a date that is not there
Idle == [stage |-> "idle", job |-> 1, day |-> None]

Init ==
  /\ today = FirstDay
  /\ history = [next |-> Floor, frozen |-> None, t0 |-> None]
  /\ update = None
  /\ jobs = << >>
  /\ exec = [w \in Worker |-> Idle]
  /\ fetched = [k \in Kind |-> [d \in Day |-> None]]

Least(a, b) == IF a < b THEN a ELSE b
Ceiling(a, b) == (a + b - 1) \div b
Span(p) == p.start .. p.end

-----------------------------------------------------------------------------
(* Planning.                                                               *)

\* closed_date_windows: consecutive closed intervals that cover first .. last.
ClosedWindows(first, last) ==
  [i \in 1 .. Ceiling(last - first + 1, WindowDays) |->
     <<first + (i - 1) * WindowDays, Least(first + i * WindowDays - 1, last)>>]

\* A slip: every plan of the backfill takes the day it was made on for T0.
HistoryPlanNewT0 ==
  LET target == IF history.frozen = None \/ (~Incremental /\ history.next > history.frozen)
                THEN today - Lag ELSE history.frozen
      total == Ceiling(target - Floor + 1, WindowDays)
  IN [kind |-> "history", start |-> history.next,
      end |-> Least(history.next + WindowDays - 1, target), target |-> target, t0 |-> today,
      completed |-> Least((history.next - Floor) \div WindowDays, total), total |-> total]

\* _job_window with current_backfill_state and backfill_window_plan: the frozen
\* end of a finished backfill is renewed, unless the changes are followed.
HistoryPlan ==
  LET start == history.next
      renewed == history.frozen = None \/ (~Incremental /\ history.next > history.frozen)
      target == IF renewed THEN today - Lag ELSE history.frozen
      total == Ceiling(target - Floor + 1, WindowDays)
  IN [kind |-> "history", start |-> start, end |-> Least(start + WindowDays - 1, target),
      target |-> target,
      t0 |-> IF history.t0 = None THEN today ELSE history.t0,
      completed |-> Least((start - Floor) \div WindowDays, total), total |-> total]

\* incremental_window_start and incremental_window_plan.
UpdatePlan(count) ==
  LET start == IF update = None THEN history.t0 ELSE update
      target == today - UpdateLag
  IN [kind |-> "update", start |-> start, end |-> Least(start + WindowDays - 1, target),
      target |-> target, t0 |-> history.t0,
      completed |-> count, total |-> count]

\* _job_window: the next window, or none (HISTORY_CAUGHT_UP, INCREMENTAL_CAUGHT_UP).
NextWindow ==
  LET plan == HistoryPlan IN
  IF plan.start <= plan.target THEN {plan}
  ELSE {p \in {UpdatePlan(plan.total)} : Incremental /\ p.start <= p.target}

\* manual_range_preview.
CustomPlan(first, last) ==
  [kind |-> "custom", start |-> first, end |-> Least(first + WindowDays - 1, last),
   target |-> last, t0 |-> today, completed |-> 0,
   total |-> Len(ClosedWindows(first, last))]

-----------------------------------------------------------------------------
(* Entries of the queue.                                                   *)

IsCurrent(j) == \A k \in DOMAIN jobs : k > j => jobs[k].task # jobs[j].task

ActiveJobs == {j \in DOMAIN jobs : IsCurrent(j) /\ jobs[j].status \in Active}

NoActiveJob == ActiveJobs = {}

Rest == UNCHANGED <<today, history, update, exec, fetched>>

\* build_sync_job for the first execution of a task over first .. last.
NewTask(plan, windows, first, last, shops) ==
  [plan |-> plan, task |-> Len(jobs) + 1, index |-> 1, windows |-> windows,
   first |-> first, last |-> last, since |-> today, shops |-> shops,
   status |-> "queued", resolved |-> FALSE]

Insert(job) ==
  /\ Len(jobs) < MaxJobs
  /\ jobs' = Append(jobs, job)
  /\ Rest

\* create_manual_job with range_mode checkpoint: the preview counts the windows
\* up to the frozen end or the incremental target.
CreateManual(shops) ==
  /\ NoActiveJob
  /\ shops = "some" => SomeShops
  /\ \E p \in NextWindow :
       Insert(NewTask(p, Len(ClosedWindows(p.start, p.target)), p.start, p.target, shops))

\* create_scheduled_job: the task has no range of its own.
CreateScheduled ==
  /\ NoActiveJob
  /\ \E p \in NextWindow :
       Insert(NewTask(p, 1, p.start, p.end, "all"))

\* create_manual_job with range_mode custom.
CreateCustom(first, last) ==
  /\ NoActiveJob
  /\ first <= last /\ last - first < MaxRange
  /\ last <= today - Lag
  /\ LET p == CustomPlan(first, last) IN
     Insert(NewTask(p, p.total, first, last, "all"))

\* A slip: a retry always runs the window that failed.
RetryPlanOld(j) == {jobs[j].plan}

\* retry_job: the window that failed if it is still the next one, else the next.
RetryPlan(j) ==
  LET old == jobs[j].plan IN
  IF old.kind = "custom" THEN {old}
  ELSE {IF p.kind = old.kind /\ p.start = old.start THEN old ELSE p : p \in NextWindow}

Failed(j) == jobs[j].status = "failed" /\ ~jobs[j].resolved

Retry(j) ==
  /\ NoActiveJob
  /\ Failed(j)
  /\ \E p \in RetryPlan(j) :
       Insert([jobs[j] EXCEPT !.plan = p, !.status = "queued"])

RetryCaughtUp(j) ==
  /\ NoActiveJob
  /\ Failed(j)
  /\ RetryPlan(j) = {}
  /\ jobs' = [jobs EXCEPT ![j].resolved = TRUE]
  /\ Rest

\* A slip: a resumed execution counts as the next window.
ResumeCounted(j) ==
  /\ jobs[j].status = "paused"
  /\ ActiveJobs = {j}
  /\ Insert([jobs[j] EXCEPT !.status = "queued", !.index = @ + 1])

\* resume_job: the paused window from its first page.
Resume(j) ==
  /\ jobs[j].status = "paused"
  /\ ActiveJobs = {j}
  /\ Insert([jobs[j] EXCEPT !.status = "queued"])

\* cancel_job of a queued execution and stop_job of a paused one.
Give(j) ==
  /\ jobs[j].status \in {"queued", "paused"}
  /\ jobs' = [jobs EXCEPT ![j].status = "ended"]
  /\ Rest

-----------------------------------------------------------------------------
(* The engine.                                                             *)

\* _date_window_params: "window must start at the current checkpoint" and
\* "window must be the next continuous closed interval".  An api without
\* commit_per_page does not refuse a window whose target the checkpoint has passed: it
\* succeeds without a request.  Only an overtaken worker gets there (WaitingIsNext).
Accepts(p) ==
  p.kind # "custom" =>
    /\ p.kind = "history" => p.start = history.next
    /\ p.kind = "update" => update \in {None, p.start}
    /\ p.start <= p.target
    /\ p.end = Least(p.start + WindowDays - 1, p.target)

\* The claim, the batch and the parameters of the window.
Start(w, j) ==
  /\ exec[w].stage = "idle"
  /\ jobs[j].status = "queued"
  /\ Accepts(jobs[j].plan)
  /\ jobs' = [jobs EXCEPT ![j].status = "running"]
  /\ exec' = [exec EXCEPT ![w] = [stage |-> "paging", job |-> j, day |-> today]]
  /\ UNCHANGED <<today, history, update, fetched>>

\* The engine refuses the window and the job fails.
Rejected(w, j) ==
  /\ exec[w].stage = "idle"
  /\ jobs[j].status = "queued"
  /\ ~Accepts(jobs[j].plan)
  /\ jobs' = [jobs EXCEPT ![j].status = "failed"]
  /\ Rest

Plan(w) == jobs[exec[w].job].plan

Running(w) == jobs[exec[w].job].status = "running"

\* The last page is committed; every page asked who owns the job.
Fetch(w) ==
  /\ exec[w].stage = "paging"
  /\ Running(w)
  /\ exec' = [exec EXCEPT ![w].stage = "paged"]
  /\ fetched' = [k \in Kind |-> [d \in Day |->
       IF k = Plan(w).kind /\ d \in Span(Plan(w)) /\ jobs[exec[w].job].shops = "all"
       THEN exec[w].day ELSE fetched[k][d]]]
  /\ UNCHANGED <<today, history, update, jobs>>

\* The engine stops before the last page: a pause, an error, or a lost claim.
Halt(w, status) ==
  /\ exec[w].stage = "paging"
  /\ status = "paused" => Running(w)
  /\ exec' = [exec EXCEPT ![w] = Idle]
  /\ jobs' = IF Running(w) THEN [jobs EXCEPT ![exec[w].job].status = status] ELSE jobs
  /\ UNCHANGED <<today, history, update, fetched>>

\* A slip: the checkpoint moves by whole windows.
CommitWholeWindow(w) ==
  /\ exec[w].stage = "paged"
  /\ exec' = [exec EXCEPT ![w].stage = "committed"]
  /\ history' = IF Plan(w).kind = "history"
                THEN [next |-> Plan(w).start + WindowDays,
                      frozen |-> Plan(w).target, t0 |-> Plan(w).t0]
                ELSE history
  /\ update' = IF Plan(w).kind = "update" THEN Plan(w).start + WindowDays ELSE update
  /\ UNCHANGED <<today, jobs, fetched>>

\* _update_checkpoint with _date_window_checkpoint_extra, one transaction that
\* the claim does not fence.
Commit(w) ==
  /\ exec[w].stage = "paged"
  /\ exec' = [exec EXCEPT ![w].stage = "committed"]
  /\ history' = IF Plan(w).kind = "history"
                THEN [next |-> Plan(w).end + 1,
                      frozen |-> Plan(w).target, t0 |-> Plan(w).t0]
                ELSE history
  /\ update' = IF Plan(w).kind = "update" THEN Plan(w).end + 1 ELSE update
  /\ UNCHANGED <<today, jobs, fetched>>

-----------------------------------------------------------------------------
(* The end of an execution.                                                *)

\* A slip: the last window of a range is a whole one.
FollowingWhole(p, first, last) ==
  IF first > last THEN {}
  ELSE {[p EXCEPT !.start = first, !.end = first + WindowDays - 1, !.target = last]}

\* The window of p's chain that starts at first, if the chain goes so far.
Following(p, first, last) ==
  IF first > last THEN {}
  ELSE {[p EXCEPT !.start = first, !.end = Least(first + WindowDays - 1, last),
                  !.target = last]}

\* _history_success_progress: one more window is complete.
Completed(p) == [p EXCEPT !.completed = IF p.kind = "update" THEN @ ELSE @ + 1]

\* _enqueue_first_incremental_window: the changes since first.
UpdatesFrom(p, first) ==
  {[q EXCEPT !.kind = "update"] :
     q \in {q \in Following(p, first, today - UpdateLag) : Incremental}}

\* _enqueue_next_custom_window, and the same of the other kinds.
NextOfKind(p) == Following(p, p.end + 1, p.target)

\* A slip: the changes are followed from the end of the backfill on, not T0.
ChainedNotT0(p) ==
  LET done == Completed(p) IN
  IF p.kind = "history" /\ done.completed >= done.total
  THEN UpdatesFrom(done, today - UpdateLag) ELSE NextOfKind(done)

\* _enqueue_next_history_window and _enqueue_next_incremental_window.
Chained(p) ==
  LET done == Completed(p) IN
  IF p.kind = "history" /\ done.completed >= done.total
  THEN UpdatesFrom(done, p.t0) ELSE NextOfKind(done)

\* _finish of a success that is still owned; it is followed by the next window
\* unless the target is not eligible any more or a stop was asked for.
Finish(w, how) ==
  LET j == exec[w].job
      done == [jobs EXCEPT ![j].status = IF how = "stop" THEN "ended" ELSE "success"]
      next == IF how = "chain" THEN Chained(Plan(w)) ELSE {}
  IN
  /\ exec[w].stage = "committed"
  /\ Running(w)
  /\ exec' = [exec EXCEPT ![w] = Idle]
  /\ \/ next = {} /\ jobs' = done
     \/ /\ Len(jobs) < MaxJobs
        /\ \E p \in next :
             jobs' = Append(done, [jobs[j] EXCEPT !.plan = p, !.status = "queued",
                                                  !.index = @ + 1])
  /\ UNCHANGED <<today, history, update, fetched>>

\* An error after the pages, or the process dies, or the row was taken away.
Fail(w) ==
  /\ exec[w].stage \in {"paged", "committed"}
  /\ exec' = [exec EXCEPT ![w] = Idle]
  /\ jobs' = IF Running(w) THEN [jobs EXCEPT ![exec[w].job].status = "failed"] ELSE jobs
  /\ UNCHANGED <<today, history, update, fetched>>

\* _recover_stale_jobs: a job with a batch fails, its worker is not told.
Lose(j) ==
  /\ LocksDrop
  /\ jobs[j].status = "running"
  /\ jobs' = [jobs EXCEPT ![j].status = "failed"]
  /\ Rest

Midnight ==
  /\ today < MaxDay
  /\ today' = today + 1
  /\ UNCHANGED <<history, update, jobs, exec, fetched>>

-----------------------------------------------------------------------------
Entry ==
  \/ \E shops \in {"all", "some"} : CreateManual(shops)
  \/ CreateScheduled
  \/ \E first, last \in Day : CreateCustom(first, last)
  \/ \E j \in DOMAIN jobs : Retry(j) \/ RetryCaughtUp(j) \/ Resume(j) \/ Give(j)

Work(w) ==
  \/ \E j \in DOMAIN jobs : Start(w, j) \/ Rejected(w, j)
  \/ Fetch(w)
  \/ \E status \in {"paused", "failed"} : Halt(w, status)
  \/ Commit(w)
  \/ \E how \in {"chain", "ineligible", "stop"} : Finish(w, how)
  \/ Fail(w)

Next ==
  \/ Entry
  \/ \E w \in Worker : Work(w)
  \/ \E j \in DOMAIN jobs : Lose(j)
  \/ Midnight

Spec == Init /\ [][Next]_vars

-----------------------------------------------------------------------------
(* Properties.                                                             *)

Window == [kind : Kind, start : Day, end : Day, target : Day, t0 : Day,
           completed : Nat, total : Nat]

Execution == [plan : Window, task : JobId, index : Nat, windows : Nat,
              first : Day, last : Day, since : Day, shops : {"all", "some"},
              status : Active \cup {"success", "failed", "ended"}, resolved : BOOLEAN]

\* The checkpoints, the executions, the workers and the fetched days are well
\* formed: a worker past the claim works on an execution that exists.
TypeOK ==
  /\ today \in FirstDay .. MaxDay
  /\ history \in [next : Day \cup {MaxDay + 1}, frozen : Day \cup {None}, t0 : Day \cup {None}]
  /\ update \in Day \cup {None, MaxDay + 1}
  /\ jobs \in Seq(Execution) /\ Len(jobs) <= MaxJobs
  /\ exec \in [Worker -> [stage : {"idle", "paging", "paged", "committed"},
                          job : JobId, day : Day \cup {None}]]
  /\ \A w \in Worker : exec[w].stage # "idle" =>
       exec[w].job \in DOMAIN jobs /\ exec[w].day \in Day
  /\ fetched \in [Kind -> [Day -> Day \cup {None}]]

\* The history checkpoint claims no day it has not fetched: every business date
\* from the floor up to next_window_start was covered by a complete fetch,
\* also when dropped locks let two workers commit one after the other.
HistoryHasNoGap == \A d \in Day : d < history.next => fetched["history"][d] # None

\* A record of business date r that changed on day u is held as it was after u.
Captured(r, u) == fetched["history"][r] > u \/ fetched["update"][u] > u

\* The switch from history to changes at T0 loses nothing: once the update
\* checkpoint has passed day u, each change of that day was captured, by the
\* backfill if it came later or by the changes that are followed from T0.
NothingMissed ==
  Incremental /\ update # None =>
    \A u \in Day : \A r \in Floor .. u : u < update => Captured(r, u)

\* An execution that waits or is paused holds the window the engine expects
\* next: retry, resume and chaining never leave one that the engine refuses.
WaitingIsNext ==
  \A j \in ActiveJobs : jobs[j].status \in {"queued", "paused"} => Accepts(jobs[j].plan)

\* The checkpoints never go back, and T0 is the day the first backfill window
\* was planned for good.
Advances ==
  /\ history'.next >= history.next
  /\ update' >= update
  /\ history.t0 # None => history'.t0 = history.t0
CheckpointsAdvance == [][Advances]_vars

\* The i-th execution of a custom range is the i-th window its preview showed,
\* whatever was paused, retried or retried twice in between.
CustomFollowsPreview ==
  \A j \in DOMAIN jobs : jobs[j].plan.kind = "custom" =>
    LET shown == ClosedWindows(jobs[j].first, jobs[j].last) IN
    /\ jobs[j].index \in DOMAIN shown
    /\ shown[jobs[j].index] = <<jobs[j].plan.start, jobs[j].plan.end>>

\* task_status of a current execution.
TaskSucceeded(j) ==
  /\ IsCurrent(j)
  /\ jobs[j].status = "success"
  /\ jobs[j].index >= jobs[j].windows

\* A task reported as "success" has fetched every day of the range it was created for
\* since it was created: by its kind or, past the frozen end of the backfill, as change
\* dates.  A retry keeps the old index when it takes another window, of changes even when
\* the end was frozen by the retry of an older task, and other tasks may run in between.
SuccessMeansCovered ==
  \A j \in DOMAIN jobs : TaskSucceeded(j) =>
    LET kind == jobs[jobs[j].task].plan.kind IN
    \A d \in jobs[j].first .. jobs[j].last :
      \/ fetched[kind][d] >= jobs[j].since
      \/ kind = "history" /\ fetched["update"][d] >= jobs[j].since

=============================================================================
