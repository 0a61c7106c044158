---------------------------- MODULE SyncJobQueue ----------------------------
(***************************************************************************)
(* The sync_job table of SEEKWAY Data Hub and everyone who writes to it:   *)
(* the API handlers and the Scheduler that create, retry, resume, pause,   *)
(* stop and cancel jobs (backend/app/services/sync_job_service.py), and    *)
(* the Workers that claim, execute, finish and recover them                *)
(* (backend/app/services/sync_worker.py).                                  *)
(*                                                                         *)
(* A target is one (account, api) pair.  A task is a chain of executions   *)
(* of one target that share task_no; it is named here by the id of its     *)
(* first execution.  Windows, pages and checkpoints are data of other      *)
(* modules: here a window simply has or has not a successor.               *)
(*                                                                         *)
(* Every action is one database transaction or one call to the named lock; *)
(* rows are read FOR UPDATE inside it unless the comment says otherwise.   *)
(***************************************************************************)
EXTENDS Naturals

CONSTANTS
  Target,         \* (account, api) pairs
  PagedTarget,    \* targets whose api is configured with commit_per_page
  Lock,           \* names of the MySQL named locks
  LockOf,         \* lock that guards a target: one for all, or one per account
  Worker,         \* worker processes
  Session,        \* request handlers and scheduler passes open at a time
  NoWorker,       \* NULL in worker_id, and the holder of a free lock
  Cli,            \* the command-line sync, which takes the same named locks
  MaxJobs,        \* bound: rows ever inserted into sync_job
  MaxAttempts,    \* max_attempts of a job (2 in build_sync_job)
  SnapshotReads,  \* TRUE: nested subqueries read the transaction's snapshot
  CliRuns,        \* TRUE: the command-line sync runs now and then
  LocksDrop       \* TRUE: a named lock may vanish under its holder

ASSUME JobsAssumption ==
  /\ MaxJobs \in Nat \ {0}
  /\ MaxAttempts \in Nat \ {0}
ASSUME TargetAssumption ==
  /\ Target # {}
  /\ LockOf \in [Target -> Lock]
  /\ PagedTarget \subseteq Target
ASSUME WorkerAssumption == {NoWorker, Cli} \cap Worker = {} /\ NoWorker # Cli
ASSUME ModeAssumption == {SnapshotReads, CliRuns, LocksDrop} \subseteq BOOLEAN

JobId == 1 .. MaxJobs

Live == {"queued", "running", "pause_requested"}
Held == {"running", "pause_requested"}
Active == Live \cup {"paused"}
Final == {"success", "failed", "cancelled", "stopped"}
Status == Active \cup Final \cup {"absent"}

Job == [target : Target, task : JobId, status : Status,
        worker : Worker \cup {NoWorker}, attempt : 0 .. MaxAttempts,
        stop : BOOLEAN, resolution : {"none", "caught_up", "dismissed"},
        parent : 0 .. MaxJobs]

BatchStatus == {"none", "running", "success", "failed", "paused"}

Stage == {"idle", "claimed", "busy", "locked", "engine", "paging", "closing",
          "returned", "finishing"}

Execution == [stage : Stage, job : JobId, attempt : 0 .. MaxAttempts,
              result : {"none", "success", "failed", "paused"}]

VARIABLES
  jobs,     \* the sync_job rows, by id
  nextId,   \* the next auto-increment id
  batch,    \* status of the sync_batch row of a job (unique per sync_job_id)
  stale,    \* jobs whose heartbeat is older than stale_after_seconds
  holder,   \* who holds each named lock
  exec,     \* run_once of each worker
  session   \* open entry transactions and the rows their snapshot contains

vars == <<jobs, nextId, batch, stale, holder, exec, session>>

NoJob == [target |-> CHOOSE t \in Target : TRUE, task |-> 1, status |-> "absent",
          worker |-> NoWorker, attempt |-> 0, stop |-> FALSE,
          resolution |-> "none", parent |-> 0]

NewJob(t, task, parent) ==
  [NoJob EXCEPT !.target = t, !.task = task, !.status = "queued", !.parent = parent]

NoExecution == [stage |-> "idle", job |-> 1, attempt |-> 0, result |-> "none"]

NoSession == [open |-> FALSE, snapshot |-> 0]

Init ==
  /\ jobs = [j \in JobId |-> NoJob]
  /\ nextId = 1
  /\ batch = [j \in JobId |-> "none"]
  /\ stale = {}
  /\ holder = [l \in Lock |-> NoWorker]
  /\ exec = [w \in Worker |-> NoExecution]
  /\ session = [s \in Session |-> NoSession]

-----------------------------------------------------------------------------
(* Queries.                                                                *)

\* A slip: every row counts, the newest of its task or not.
LatestIdsUngrouped(upto) == 1 .. upto

\* latest_execution_ids over the rows 1 .. upto: the newest row of each task.
LatestIds(upto) ==
  {j \in 1 .. upto : \A k \in 1 .. upto : k > j => jobs[k].task # jobs[j].task}

Existing == 1 .. (nextId - 1)

IsCurrent(j) == j \in LatestIds(nextId - 1)

\* A slip: a paused job is taken for a finished one.
ActiveSeenLive(s, t) ==
  {j \in LatestIds(IF SnapshotReads THEN session[s].snapshot ELSE nextId - 1) :
     jobs[j].target = t /\ jobs[j].status \in Live}

\* A slip: a job that is about to pause is taken for a paused one.
ActiveSeenNotPausing(s, t) ==
  {j \in LatestIds(IF SnapshotReads THEN session[s].snapshot ELSE nextId - 1) :
     jobs[j].target = t /\ jobs[j].status \in Active \ {"pause_requested"}}

\* The rows _active_job_id returns to session s for target t.  The outer query
\* is FOR UPDATE and sees the rows as they are; the subquery that picks the
\* newest row of each task is not, and reads the snapshot of the transaction.
ActiveSeen(s, t) ==
  {j \in LatestIds(IF SnapshotReads THEN session[s].snapshot ELSE nextId - 1) :
     jobs[j].target = t /\ jobs[j].status \in Active}

\* What the system promises is active: newest row of its task, active status.
ActiveJobs(t) ==
  {j \in Existing : IsCurrent(j) /\ jobs[j].target = t /\ jobs[j].status \in Active}

\* A slip: any claim of the row will do.
OwnsByStatus(w) == jobs[exec[w].job].status \in Held

\* _owns_execution: the row still belongs to this claim.
Owns(w) ==
  LET j == exec[w].job IN
  /\ jobs[j].status \in Held
  /\ jobs[j].worker = w
  /\ jobs[j].attempt = exec[w].attempt

-----------------------------------------------------------------------------
(* Entry transactions: create, retry, resume.  Each reads the account       *)
(* without a lock first, where InnoDB fixes the snapshot (Begin), and then  *)
(* locks the policy row, which serializes the rest of the transaction.      *)
(* Without snapshots the first read leaves no trace, and Begin is no step.  *)

Begin(s) ==
  /\ SnapshotReads
  /\ ~session[s].open
  /\ session' = [session EXCEPT ![s] = [open |-> TRUE, snapshot |-> nextId - 1]]
  /\ UNCHANGED <<jobs, nextId, batch, stale, holder, exec>>

\* The handler refuses (409: not eligible, active job, wrong status) or fails.
Refuse(s) ==
  /\ session[s].open
  /\ session' = [session EXCEPT ![s] = NoSession]
  /\ UNCHANGED <<jobs, nextId, batch, stale, holder, exec>>

Begun(s) == SnapshotReads => session[s].open

Insert(s, job) ==
  /\ nextId <= MaxJobs
  /\ jobs' = [jobs EXCEPT ![nextId] = job]
  /\ nextId' = nextId + 1
  /\ session' = [session EXCEPT ![s] = NoSession]
  /\ UNCHANGED <<batch, stale, holder, exec>>

\* create_manual_job: a new task.
CreateManual(s, t) ==
  /\ Begun(s)
  /\ ActiveSeen(s, t) = {}
  /\ Insert(s, NewJob(t, nextId, 0))

\* create_scheduled_job: the Scheduler has locked the policy before its first
\* consistent read, so its snapshot has every row committed under that lock.
CreateScheduled(s, t) ==
  /\ ~session[s].open
  /\ ActiveJobs(t) = {}
  /\ Insert(s, NewJob(t, nextId, 0))

Create(s, t) == CreateManual(s, t) \/ CreateScheduled(s, t)

Retryable(j) == jobs[j].status = "failed" /\ jobs[j].resolution = "none"

\* retry_job: another execution in the task of a failed one, current or not.
Retry(s, j) ==
  /\ Begun(s)
  /\ Retryable(j)
  /\ ActiveSeen(s, jobs[j].target) = {}
  /\ Insert(s, NewJob(jobs[j].target, jobs[j].task, j))

\* retry_job when the checkpoint is already past the window.
RetryCaughtUp(s, j) ==
  /\ Begun(s)
  /\ Retryable(j)
  /\ ActiveSeen(s, jobs[j].target) = {}
  /\ jobs' = [jobs EXCEPT ![j].resolution = "caught_up"]
  /\ session' = [session EXCEPT ![s] = NoSession]
  /\ UNCHANGED <<nextId, batch, stale, holder, exec>>

\* A slip: the current execution of the task is not looked up again.
ResumeStale(s, j) ==
  /\ Begun(s)
  /\ jobs[j].status = "paused" /\ ~jobs[j].stop
  /\ LET seen == ActiveSeen(s, jobs[j].target) IN seen = {} \/ j \in seen
  /\ Insert(s, NewJob(jobs[j].target, jobs[j].task, j))

\* resume_job: the paused execution must be the current one of its task, by a
\* locking read, and the active job that is found, if any, must be itself.
Resume(s, j) ==
  /\ Begun(s)
  /\ jobs[j].status = "paused" /\ ~jobs[j].stop
  /\ IsCurrent(j)
  /\ LET seen == ActiveSeen(s, jobs[j].target) IN seen = {} \/ j \in seen
  /\ Insert(s, NewJob(jobs[j].target, jobs[j].task, j))

-----------------------------------------------------------------------------
(* Control of one row, under its row lock alone.                            *)

ControlOnly == UNCHANGED <<nextId, batch, stale, holder, exec, session>>

RequestPause(j) ==
  /\ jobs[j].status = "running"
  /\ jobs' = [jobs EXCEPT ![j].status = "pause_requested"]
  /\ ControlOnly

WithdrawPause(j) ==
  /\ jobs[j].status = "pause_requested"
  /\ jobs' = [jobs EXCEPT ![j].status = "running"]
  /\ ControlOnly

Stop(j) ==
  /\ \/ /\ jobs[j].status = "paused"
        /\ jobs' = [jobs EXCEPT ![j].status = "stopped"]
     \/ /\ jobs[j].status \in Held
        /\ jobs' = [jobs EXCEPT ![j].stop = TRUE]
  /\ ControlOnly

Cancel(j) ==
  /\ jobs[j].status = "queued"
  /\ batch[j] = "none"
  /\ jobs' = [jobs EXCEPT ![j].status = "cancelled"]
  /\ ControlOnly

Dismiss(j) ==
  /\ jobs[j].status = "failed" /\ jobs[j].resolution = "none"
  /\ jobs' = [jobs EXCEPT ![j].resolution = "dismissed"]
  /\ ControlOnly

Restore(j) ==
  /\ jobs[j].resolution = "dismissed"
  /\ jobs' = [jobs EXCEPT ![j].resolution = "none"]
  /\ ControlOnly

-----------------------------------------------------------------------------
(* run_once of a worker.                                                    *)

Release(w) == [l \in Lock |-> IF holder[l] = w THEN NoWorker ELSE holder[l]]

\* w leaves its execution; holding the lock, it gives it back.
Leave(w) ==
  /\ exec' = [exec EXCEPT ![w] = NoExecution]
  /\ holder' = Release(w)

Advance(w, stage) == exec' = [exec EXCEPT ![w].stage = stage]

\* _heartbeat: refreshes heartbeat_at, or raises _SyncJobOwnershipLost.
Beat(w) == Owns(w) /\ stale' = stale \ {exec[w].job}

\* _claim_next.  SKIP LOCKED and queued_at let any queued row come first.
Claim(w, j) ==
  /\ exec[w].stage = "idle"
  /\ jobs[j].status = "queued"
  /\ jobs[j].attempt < MaxAttempts
  /\ jobs' = [jobs EXCEPT ![j].status = "running", ![j].worker = w,
                          ![j].attempt = @ + 1]
  /\ exec' = [exec EXCEPT ![w] = [stage |-> "claimed", job |-> j,
                                  attempt |-> jobs[j].attempt + 1, result |-> "none"]]
  /\ stale' = stale \ {j}
  /\ UNCHANGED <<nextId, batch, holder, session>>

\* A heartbeat inside execute fails: the execution is abandoned, the lock freed.
Abandon(w) ==
  /\ exec[w].stage \in {"claimed", "locked", "returned"}
  /\ ~Owns(w)
  /\ Leave(w)
  /\ UNCHANGED <<jobs, nextId, batch, stale, session>>

MyLock(w) == LockOf[jobs[exec[w].job].target]

\* execute: a heartbeat, then GET_LOCK with no waiting.  The heartbeat may have
\* passed just before the claim was lost, so the lock does not ask for it.
AcquireLock(w) ==
  /\ exec[w].stage = "claimed"
  /\ holder[MyLock(w)] = NoWorker
  /\ holder' = [holder EXCEPT ![MyLock(w)] = w]
  /\ Advance(w, "locked")
  /\ UNCHANGED <<jobs, nextId, batch, stale, session>>

LockBusy(w) ==
  /\ exec[w].stage = "claimed"
  /\ holder[MyLock(w)] # NoWorker
  /\ Advance(w, "busy")
  /\ UNCHANGED <<jobs, nextId, batch, stale, holder, session>>

\* The heartbeats after the lock and before the engine, with only reads between.
EnterEngine(w) ==
  /\ exec[w].stage = "locked"
  /\ Beat(w)
  /\ Advance(w, "engine")
  /\ UNCHANGED <<jobs, nextId, batch, holder, session>>

\* A slip: no unique key on sync_job_id, a second batch takes the first's place.
CreateBatchAgain(w) ==
  /\ exec[w].stage = "engine"
  /\ batch' = [batch EXCEPT ![exec[w].job] = "running"]
  /\ Advance(w, "paging")
  /\ UNCHANGED <<jobs, nextId, stale, holder, session>>

\* _insert_sync_batch in its own transaction, not fenced by the claim.  The
\* unique key on sync_job_id makes a second batch of the job an error.
CreateBatch(w) ==
  /\ exec[w].stage = "engine"
  /\ batch[exec[w].job] = "none"
  /\ batch' = [batch EXCEPT ![exec[w].job] = "running"]
  /\ Advance(w, "paging")
  /\ UNCHANGED <<jobs, nextId, stale, holder, session>>

\* The pages run out, fail, or (commit_per_page only) meet a pause request.
EnginePages(w, result) ==
  /\ exec[w].stage = "paging"
  /\ result = "paused" => /\ jobs[exec[w].job].target \in PagedTarget
                          /\ Owns(w)
                          /\ jobs[exec[w].job].status = "pause_requested"
  /\ exec' = [exec EXCEPT ![w].stage = "closing", ![w].result = result]
  /\ UNCHANGED <<jobs, nextId, batch, stale, holder, session>>

\* _finish_sync_batch in its own transaction, not fenced by the claim.
CloseBatch(w) ==
  /\ exec[w].stage = "closing"
  /\ batch' = [batch EXCEPT ![exec[w].job] = exec[w].result]
  /\ Advance(w, "returned")
  /\ UNCHANGED <<jobs, nextId, stale, holder, session>>

\* The heartbeat after the engine; leaving execute gives the lock back.
LeaveEngine(w) ==
  /\ exec[w].stage = "returned"
  /\ Beat(w)
  /\ Advance(w, "finishing")
  /\ holder' = Release(w)
  /\ UNCHANGED <<jobs, nextId, batch, session>>

\* Any other exception inside execute becomes a failed result.
ExecutionError(w) ==
  /\ exec[w].stage \in {"claimed", "locked", "engine", "paging", "closing",
                        "returned"}
  /\ exec' = [exec EXCEPT ![w].stage = "finishing", ![w].result = "failed"]
  /\ holder' = Release(w)
  /\ UNCHANGED <<jobs, nextId, batch, stale, session>>

Refunded(j) == IF jobs[j].attempt > 0 THEN jobs[j].attempt - 1 ELSE 0

\* _requeue_lock_busy: the attempt is refunded, unless a pause was asked for.
RequeueLockBusy(w) ==
  LET j == exec[w].job IN
  /\ exec[w].stage = "busy"
  /\ jobs' = IF ~Owns(w) THEN jobs
             ELSE IF jobs[j].status = "pause_requested"
             THEN [jobs EXCEPT ![j].status = "paused", ![j].worker = NoWorker]
             ELSE [jobs EXCEPT ![j].status = "queued", ![j].worker = NoWorker,
                               ![j].attempt = Refunded(j)]
  /\ exec' = [exec EXCEPT ![w] = NoExecution]
  /\ UNCHANGED <<nextId, batch, stale, holder, session>>

\* _validate_batch_link: without its batch a success is a failure.
LinkedResult(w) ==
  IF exec[w].result = "success" /\ batch[exec[w].job] = "none"
  THEN "failed" ELSE exec[w].result

\* A slip: only a pause is turned into a stop.
FinalStatusUnstopped(w) ==
  IF LinkedResult(w) = "paused" /\ jobs[exec[w].job].stop
  THEN "stopped" ELSE LinkedResult(w)

FinalStatus(w) ==
  IF LinkedResult(w) \in {"success", "paused"} /\ jobs[exec[w].job].stop
  THEN "stopped" ELSE LinkedResult(w)

\* A slip: the row is written whoever owns it by now.
FinishUnfenced(w, more) ==
  LET j == exec[w].job
      done == [jobs EXCEPT ![j].status = FinalStatus(w)]
  IN
  /\ exec[w].stage = "finishing"
  /\ more => FinalStatus(w) = "success" /\ nextId <= MaxJobs
  /\ jobs' = IF more
             THEN [done EXCEPT ![nextId] = NewJob(jobs[j].target, jobs[j].task, 0)]
             ELSE done
  /\ nextId' = IF more THEN nextId + 1 ELSE nextId
  /\ batch' = IF LinkedResult(w) = "failed" /\ batch[j] # "none"
              THEN [batch EXCEPT ![j] = "failed"] ELSE batch
  /\ stale' = stale \ {j}
  /\ exec' = [exec EXCEPT ![w] = NoExecution]
  /\ UNCHANGED <<holder, session>>

\* _finish.  more: the target is still eligible and the window has a successor.
Finish(w, more) ==
  LET j == exec[w].job
      done == [jobs EXCEPT ![j].status = FinalStatus(w)]
  IN
  /\ exec[w].stage = "finishing"
  /\ Owns(w)
  /\ more => FinalStatus(w) = "success" /\ nextId <= MaxJobs
  /\ jobs' = IF more
             THEN [done EXCEPT ![nextId] = NewJob(jobs[j].target, jobs[j].task, 0)]
             ELSE done
  /\ nextId' = IF more THEN nextId + 1 ELSE nextId
  /\ batch' = IF LinkedResult(w) = "failed" /\ batch[j] # "none"
              THEN [batch EXCEPT ![j] = "failed"] ELSE batch
  /\ stale' = stale \ {j}
  /\ exec' = [exec EXCEPT ![w] = NoExecution]
  /\ UNCHANGED <<holder, session>>

\* _finish on a row that was taken away: nothing is written.
FinishLost(w) ==
  /\ exec[w].stage = "finishing"
  /\ ~Owns(w)
  /\ exec' = [exec EXCEPT ![w] = NoExecution]
  /\ UNCHANGED <<jobs, nextId, batch, stale, holder, session>>

-----------------------------------------------------------------------------
(* Recovery, heartbeats, crashes and the lock's other user.                 *)

\* _heartbeat_loop, running from the claim until execute returns.
HeartbeatThread(w) ==
  /\ exec[w].stage \notin {"idle", "busy", "finishing"}
  /\ exec[w].job \in stale
  /\ Beat(w)
  /\ UNCHANGED <<jobs, nextId, batch, holder, exec, session>>

\* No heartbeat for stale_after_seconds: the owner died, hangs, or is cut off.
GoStale(j) ==
  /\ jobs[j].status \in Held
  /\ j \notin stale
  /\ stale' = stale \cup {j}
  /\ UNCHANGED <<jobs, nextId, batch, holder, exec, session>>

\* A slip: a row that was asked to pause is not looked for.
RecoverableRunning(l) ==
  {j \in stale : jobs[j].status = "running" /\ LockOf[jobs[j].target] = l}

Recoverable(l) ==
  {j \in stale : jobs[j].status \in Held /\ LockOf[jobs[j].target] = l}

\* A slip: a row with a batch is run again.
RecoveredWithBatch(j) ==
  LET status == IF jobs[j].status = "pause_requested" /\ batch[j] # "none" THEN "paused"
                ELSE IF jobs[j].attempt >= MaxAttempts THEN "failed"
                ELSE "queued"
  IN [jobs[j] EXCEPT !.status = status, !.worker = NoWorker]

\* What _recover_stale_jobs makes of one stale row.
Recovered(j) ==
  LET status == IF jobs[j].status = "pause_requested" /\ batch[j] # "none" THEN "paused"
                ELSE IF batch[j] # "none" \/ jobs[j].attempt >= MaxAttempts THEN "failed"
                ELSE "queued"
  IN [jobs[j] EXCEPT !.status = status, !.worker = NoWorker]

\* A slip: recovery does not ask for the lock.
RecoverUnlocked(w, l) ==
  LET lost == Recoverable(l) IN
  /\ exec[w].stage = "idle"
  /\ lost # {}
  /\ jobs' = [j \in JobId |-> IF j \in lost THEN Recovered(j) ELSE jobs[j]]
  /\ batch' = [j \in JobId |-> IF j \in lost /\ batch[j] # "none"
                               THEN Recovered(j).status ELSE batch[j]]
  /\ stale' = stale \ lost
  /\ UNCHANGED <<nextId, holder, exec, session>>

\* recover_stale_jobs of an idle worker: all stale rows under one free lock.
Recover(w, l) ==
  LET lost == Recoverable(l) IN
  /\ exec[w].stage = "idle"
  /\ holder[l] = NoWorker
  /\ lost # {}
  /\ jobs' = [j \in JobId |-> IF j \in lost THEN Recovered(j) ELSE jobs[j]]
  /\ batch' = [j \in JobId |-> IF j \in lost /\ batch[j] # "none"
                               THEN Recovered(j).status ELSE batch[j]]
  /\ stale' = stale \ lost
  /\ UNCHANGED <<nextId, holder, exec, session>>

\* The process dies, and with it its connections and its named lock.
Crash(w) ==
  /\ exec[w].stage # "idle"
  /\ Leave(w)
  /\ UNCHANGED <<jobs, nextId, batch, stale, session>>

\* The lock's connection is gone while the worker runs on.
DropLock(w, l) ==
  /\ LocksDrop
  /\ holder[l] = w
  /\ holder' = [holder EXCEPT ![l] = NoWorker]
  /\ UNCHANGED <<jobs, nextId, batch, stale, exec, session>>

CliTakes(l) ==
  /\ CliRuns
  /\ holder[l] = NoWorker
  /\ holder' = [holder EXCEPT ![l] = Cli]
  /\ UNCHANGED <<jobs, nextId, batch, stale, exec, session>>

CliReturns(l) ==
  /\ holder[l] = Cli
  /\ holder' = [holder EXCEPT ![l] = NoWorker]
  /\ UNCHANGED <<jobs, nextId, batch, stale, exec, session>>

-----------------------------------------------------------------------------
Entry(s) ==
  \/ Begin(s)
  \/ Refuse(s)
  \/ \E t \in Target : Create(s, t)
  \/ \E j \in JobId : Retry(s, j) \/ RetryCaughtUp(s, j) \/ Resume(s, j)

Control(j) ==
  \/ RequestPause(j) \/ WithdrawPause(j) \/ Stop(j)
  \/ Cancel(j) \/ Dismiss(j) \/ Restore(j)

Engine(w) ==
  \/ CreateBatch(w)
  \/ \E result \in {"success", "failed", "paused"} : EnginePages(w, result)
  \/ CloseBatch(w)

Execute(w) ==
  \/ Abandon(w) \/ AcquireLock(w) \/ LockBusy(w)
  \/ EnterEngine(w) \/ Engine(w) \/ LeaveEngine(w) \/ ExecutionError(w)
  \/ RequeueLockBusy(w)
  \/ \E more \in BOOLEAN : Finish(w, more)
  \/ FinishLost(w)

Environment ==
  \/ \E j \in JobId : GoStale(j)
  \/ \E w \in Worker : Crash(w) \/ HeartbeatThread(w)
  \/ \E w \in Worker, l \in Lock : DropLock(w, l)
  \/ \E l \in Lock : CliTakes(l) \/ CliReturns(l)

Next ==
  \/ \E s \in Session : Entry(s)
  \/ \E j \in JobId : Control(j)
  \/ \E w \in Worker, j \in JobId : Claim(w, j)
  \/ \E w \in Worker : Execute(w)
  \/ \E w \in Worker, l \in Lock : Recover(w, l)
  \/ Environment

Spec == Init /\ [][Next]_vars

-----------------------------------------------------------------------------
(* Properties.                                                             *)

\* Every variable holds a value of its table or process.
TypeOK ==
  /\ jobs \in [JobId -> Job]
  /\ nextId \in 1 .. MaxJobs + 1
  /\ batch \in [JobId -> BatchStatus]
  /\ stale \subseteq JobId
  /\ holder \in [Lock -> Worker \cup {NoWorker, Cli}]
  /\ exec \in [Worker -> Execution]
  /\ session \in [Session -> [open : BOOLEAN, snapshot : 0 .. MaxJobs]]

\* A target has at most one active job, whoever creates, retries, resumes or
\* chains (_ensure_no_active_job, "该账号接口已有进行中任务").
OneActivePerTarget ==
  \A t \in Target : \A i, j \in ActiveJobs(t) : i = j

\* A job that waits or runs is the newest execution of its task, so the list,
\* the summary and _active_job_id, which look at newest rows only, all see it.
LiveIsCurrent ==
  \A j \in JobId : jobs[j].status \in Live => IsCurrent(j)

\* A queued job still has an attempt left: with none, the claim query would
\* skip it for ever while it blocks every new job of its target.
QueuedIsClaimable ==
  \A j \in JobId : jobs[j].status = "queued" => jobs[j].attempt < MaxAttempts

\* While locks last, a worker inside the engine holds its lock and its claim:
\* no recovery can take the row from under the unfenced batch and data writes.
EngineIsExclusive ==
  ~LocksDrop =>
    \A w \in Worker :
      exec[w].stage \in {"engine", "paging", "closing", "returned"} =>
        holder[MyLock(w)] = w /\ Owns(w)

\* The batch tells the same story as its job, and a job that waits for a worker
\* has none (recovery must not rerun a job that created a batch).
BatchAgrees ==
  ~LocksDrop =>
    \A j \in JobId :
      LET b == batch[j] IN
      CASE jobs[j].status \in {"absent", "queued", "cancelled"} -> b = "none"
        [] jobs[j].status = "success" -> b = "success"
        [] jobs[j].status = "failed" -> b \in {"none", "failed"}
        [] jobs[j].status = "paused" -> b \in {"none", "paused"}
        [] jobs[j].status = "stopped" -> b \in {"none", "success", "paused"}
        [] OTHER -> TRUE

\* Even when locks drop, a job ends in success only over a batch that did: a
\* zombie's batch can make the new claim fail, never pass for its result.
SuccessIsBacked ==
  \A j \in JobId : jobs[j].status = "success" => batch[j] = "success"

\* A paused execution is continued at most once; only failed ones may have
\* several later executions (current_task_job in resume_job).
ContinuedOnce ==
  \A i, j \in Existing :
    i # j /\ jobs[i].parent = jobs[j].parent /\ jobs[i].parent # 0
      => jobs[jobs[i].parent].status = "failed"

\* Old executions are evidence: once final, a row never changes again, but for
\* the operator's resolution of a failure.
FinalRowsFrozen ==
  [][\A j \in JobId : jobs[j].status \in Final =>
       [jobs'[j] EXCEPT !.resolution = "none"] = [jobs[j] EXCEPT !.resolution = "none"]]_vars

\* A claimed row is settled by its own claim, or by recovery once it is stale:
\* a worker that was overtaken writes nothing (the ownership fences).
SettledByOwner ==
  [][\A j \in JobId :
       jobs[j].status \in Held /\ jobs'[j].status \notin Held =>
         \/ j \in stale /\ jobs'[j].worker = NoWorker
         \/ \E w \in Worker : /\ exec[w].stage \in {"busy", "finishing"}
                              /\ exec[w].job = j
                              /\ jobs[j].worker = w /\ jobs[j].attempt = exec[w].attempt
                              /\ exec'[w].stage = "idle"]_vars

\* A stop request ends the task: the execution it was put on neither succeeds
\* nor is followed by a next window.
StopEndsTask ==
  [][\A j \in JobId :
       jobs[j].stop /\ jobs[j].status \in Held /\ jobs'[j].status \notin Held =>
         jobs'[j].status # "success" /\ nextId' = nextId]_vars

\* The queue implements the slots of TargetSlot: whatever the API, the Scheduler,
\* the workers and recovery do, a job takes the slot of its target when it is
\* inserted, from nobody or from the active job it replaces, and is out for good
\* when it ends.
Slots == INSTANCE TargetSlot WITH
  occupant <- [t \in Target |-> ActiveJobs(t)],
  issued <- nextId - 1

SlotSpec == Slots!Spec

-----------------------------------------------------------------------------
(* Liveness.                                                               *)

\* The owner of a held row is gone: nobody will refresh its heartbeat.
Orphan(j) == \A w \in Worker : ~(exec[w].stage # "idle" /\ exec[w].job = j /\ Owns(w))

\* Workers go on executing, a dead claim ages, and the polling of the worker loop
\* recovers or claims when the lock is free for good: it gives up the pass when the
\* lock is busy, so it is owed nothing while somebody holds it.
Fairness ==
  /\ \A w \in Worker : WF_vars(Execute(w))
  /\ \A j \in JobId : WF_vars(Orphan(j) /\ GoStale(j))
  /\ \A l \in Lock : WF_vars(\E w \in Worker : Recover(w, l))
  /\ WF_vars(\E w \in Worker, j \in JobId :
               holder[LockOf[jobs[j].target]] = NoWorker /\ Claim(w, j))

FairSpec == Spec /\ Fairness

\* Every job that waits or runs ends or pauses, across crashes, stale claims
\* and busy locks: nothing blocks its target for ever.
LiveJobsSettle ==
  \A j \in JobId : (jobs[j].status \in Live) ~> (jobs[j].status \notin Live)

=============================================================================
