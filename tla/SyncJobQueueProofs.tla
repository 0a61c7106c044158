------------------------- MODULE SyncJobQueueProofs -------------------------
(***************************************************************************)
(* Theorems about SyncJobQueue for every number of targets, locks, workers *)
(* and sessions and every value of the bounds.                             *)
(***************************************************************************)
EXTENDS SyncJobQueue, TLAPS

\* An execution that has left the engine has a result.
HasResult ==
  \A w \in Worker :
    exec[w].stage \in {"closing", "returned", "finishing"} => exec[w].result # "none"

TypeInv == TypeOK /\ HasResult

LEMMA NoJobType == NoJob \in Job
  <1>1. (CHOOSE t \in Target : TRUE) \in Target
    BY TargetAssumption
  <1>. QED
    BY <1>1, JobsAssumption DEF NoJob, Job, JobId, Status, Active, Live

LEMMA NewJobType ==
  ASSUME NEW t \in Target, NEW task \in JobId, NEW parent \in 0 .. MaxJobs
  PROVE  /\ NewJob(t, task, parent) \in Job
         /\ NewJob(t, task, parent).target = t
         /\ NewJob(t, task, parent).task = task
         /\ NewJob(t, task, parent).parent = parent
         /\ NewJob(t, task, parent).status = "queued"
         /\ NewJob(t, task, parent).attempt = 0
         /\ NewJob(t, task, parent).worker = NoWorker
  BY NoJobType DEF NewJob, NoJob, Job, Status, Active, Live

LEMMA NoExecutionType ==
  /\ NoExecution \in Execution
  /\ NoExecution.stage = "idle"
  BY JobsAssumption DEF NoExecution, Execution, Stage, JobId

LEMMA NoSessionType == NoSession \in [open : BOOLEAN, snapshot : 0 .. MaxJobs]
  BY JobsAssumption DEF NoSession

LEMMA InitTypeInv == Init => TypeInv
  <1>. SUFFICES ASSUME Init PROVE TypeInv
    OBVIOUS
  <1>1. jobs \in [JobId -> Job]
    BY NoJobType DEF Init
  <1>2. nextId \in 1 .. MaxJobs + 1
    BY JobsAssumption DEF Init
  <1>3. batch \in [JobId -> BatchStatus] /\ stale \subseteq JobId
    BY DEF Init, BatchStatus
  <1>4. holder \in [Lock -> Worker \cup {NoWorker, Cli}]
    BY DEF Init
  <1>5. exec \in [Worker -> Execution] /\ HasResult
    BY NoExecutionType DEF Init, HasResult
  <1>6. session \in [Session -> [open : BOOLEAN, snapshot : 0 .. MaxJobs]]
    BY NoSessionType DEF Init
  <1>. QED
    BY <1>1, <1>2, <1>3, <1>4, <1>5, <1>6 DEF TypeInv, TypeOK

-----------------------------------------------------------------------------
(* Typing of the steps.                                                     *)

\* What a step must show of the rows and of the executions.
LEMMA TypeFrame ==
  ASSUME TypeInv,
         jobs' \in [JobId -> Job], nextId' \in 1 .. MaxJobs + 1,
         batch' \in [JobId -> BatchStatus], stale' \subseteq JobId,
         holder' \in [Lock -> Worker \cup {NoWorker, Cli}],
         exec' \in [Worker -> Execution], HasResult',
         session' \in [Session -> [open : BOOLEAN, snapshot : 0 .. MaxJobs]]
  PROVE  TypeInv'
  BY DEF TypeInv, TypeOK

LEMMA RowType ==
  ASSUME TypeInv, NEW j \in JobId
  PROVE  /\ jobs[j] \in Job
         /\ jobs[j].target \in Target /\ jobs[j].task \in JobId
         /\ j \in 0 .. MaxJobs
  <1>1. jobs[j] \in Job
    BY DEF TypeInv, TypeOK
  <1>2. j \in 0 .. MaxJobs
    BY JobsAssumption DEF JobId
  <1>. QED
    BY <1>1, <1>2 DEF Job

\* Rewriting one row by another one.
LEMMA RewriteType ==
  ASSUME TypeInv, NEW j \in JobId, NEW row \in Job, jobs' = [jobs EXCEPT ![j] = row]
  PROVE  jobs' \in [JobId -> Job]
  BY DEF TypeInv, TypeOK

LEMMA InsertType ==
  ASSUME TypeInv, NEW s \in Session, NEW job \in Job, Insert(s, job)
  PROVE  TypeInv'
  <1>1. nextId \in JobId /\ nextId + 1 \in 1 .. MaxJobs + 1
    BY JobsAssumption DEF TypeInv, TypeOK, Insert, JobId
  <1>. QED
    BY <1>1, NoSessionType, JobsAssumption DEF Insert, TypeInv, TypeOK, HasResult

LEMMA EntryType ==
  ASSUME TypeInv, NEW s \in Session, Entry(s)
  PROVE  TypeInv'
  <1>1. CASE Begin(s)
    <2>1. nextId - 1 \in 0 .. MaxJobs
      BY JobsAssumption DEF TypeInv, TypeOK
    <2>. QED
      BY <1>1, <2>1 DEF Begin, TypeInv, TypeOK, HasResult
  <1>2. CASE Refuse(s)
    BY <1>2, NoSessionType DEF Refuse, TypeInv, TypeOK, HasResult
  <1>3. ASSUME NEW t \in Target, Create(s, t) PROVE TypeInv'
    <2>1. nextId \in JobId /\ 0 \in 0 .. MaxJobs
      BY <1>3, JobsAssumption DEF Create, CreateManual, CreateScheduled, Insert, TypeInv, TypeOK, JobId
    <2>. QED
      BY <1>3, <2>1, NewJobType, InsertType DEF Create, CreateManual, CreateScheduled
  <1>4. ASSUME NEW j \in JobId, Retry(s, j) \/ Resume(s, j) PROVE TypeInv'
    <2>2. NewJob(jobs[j].target, jobs[j].task, j) \in Job
      BY RowType, NewJobType
    <2>3. Insert(s, NewJob(jobs[j].target, jobs[j].task, j))
      BY <1>4 DEF Retry, Resume
    <2>. QED
      BY <2>2, <2>3, InsertType
  <1>5. ASSUME NEW j \in JobId, RetryCaughtUp(s, j) PROVE TypeInv'
    <2>1. jobs' \in [JobId -> Job]
      BY <1>5 DEF RetryCaughtUp, TypeInv, TypeOK, Job
    <2>. QED
      BY <1>5, <2>1, NoSessionType DEF RetryCaughtUp, TypeInv, TypeOK, HasResult
  <1>. QED
    BY <1>1, <1>2, <1>3, <1>4, <1>5 DEF Entry

LEMMA ControlType ==
  ASSUME TypeInv, NEW j \in JobId, Control(j)
  PROVE  TypeInv'
  <1>1. jobs' \in [JobId -> Job]
    <2>1. jobs[j] \in Job
      BY RowType
    <2>2. ASSUME NEW st \in {"pause_requested", "running", "stopped", "cancelled"}
          PROVE  [jobs[j] EXCEPT !.status = st] \in Job
      BY <2>1 DEF Job, Status, Active, Live, Final
    <2>3. [jobs[j] EXCEPT !.stop = TRUE] \in Job
      BY <2>1 DEF Job
    <2>4. ASSUME NEW r \in {"none", "dismissed"}
          PROVE  [jobs[j] EXCEPT !.resolution = r] \in Job
      BY <2>1 DEF Job
    <2>5. CASE RequestPause(j)
      BY <2>5, <2>2, RewriteType DEF RequestPause
    <2>6. CASE WithdrawPause(j)
      BY <2>6, <2>2, RewriteType DEF WithdrawPause
    <2>7. CASE Stop(j)
      BY <2>7, <2>2, <2>3, RewriteType DEF Stop
    <2>8. CASE Cancel(j)
      BY <2>8, <2>2, RewriteType DEF Cancel
    <2>9. CASE Dismiss(j)
      BY <2>9, <2>4, RewriteType DEF Dismiss
    <2>10. CASE Restore(j)
      BY <2>10, <2>4, RewriteType DEF Restore
    <2>. QED
      BY <2>5, <2>6, <2>7, <2>8, <2>9, <2>10 DEF Control
  <1>2. UNCHANGED <<nextId, batch, stale, holder, exec, session>>
    BY DEF Control, RequestPause, WithdrawPause, Stop, Cancel, Dismiss, Restore,
           ControlOnly
  <1>. QED
    BY <1>1, <1>2 DEF TypeInv, TypeOK, HasResult

LEMMA ClaimType ==
  ASSUME TypeInv, NEW w \in Worker, NEW j \in JobId, Claim(w, j)
  PROVE  TypeInv'
  <1>1. jobs[j] \in Job /\ jobs[j].attempt + 1 \in 0 .. MaxAttempts
    BY JobsAssumption DEF Claim, TypeInv, TypeOK, Job
  <1>2. jobs' \in [JobId -> Job]
    BY <1>1 DEF Claim, TypeInv, TypeOK, Job, Status, Active, Live
  <1>3. exec' \in [Worker -> Execution]
    BY <1>1 DEF Claim, TypeInv, TypeOK, Execution, Stage
  <1>4. HasResult'
    BY DEF Claim, TypeInv, TypeOK, HasResult
  <1>. QED
    BY <1>2, <1>3, <1>4, TypeFrame DEF Claim, TypeInv, TypeOK

LEMMA ReleaseType ==
  ASSUME TypeInv, NEW w \in Worker
  PROVE  Release(w) \in [Lock -> Worker \cup {NoWorker, Cli}]
  BY DEF Release, TypeInv, TypeOK

\* One worker's execution is rewritten and nobody else's.
LEMMA ExecType ==
  ASSUME TypeInv, NEW w \in Worker, NEW e \in Execution,
         e.stage \in {"closing", "returned", "finishing"} => e.result # "none",
         exec' = [exec EXCEPT ![w] = e]
  PROVE  exec' \in [Worker -> Execution] /\ HasResult'
  BY DEF TypeInv, TypeOK, HasResult

LEMMA LeaveType ==
  ASSUME TypeInv, NEW w \in Worker, exec' = [exec EXCEPT ![w] = NoExecution]
  PROVE  exec' \in [Worker -> Execution] /\ HasResult'
  BY NoExecutionType, ExecType

LEMMA AdvanceType ==
  ASSUME TypeInv, NEW w \in Worker, NEW stage \in Stage, Advance(w, stage),
         stage \in {"closing", "returned", "finishing"} => exec[w].result # "none"
  PROVE  exec' \in [Worker -> Execution] /\ HasResult'
  <1>1. exec[w] \in Execution
    BY DEF TypeInv, TypeOK
  <1>2. /\ [exec[w] EXCEPT !.stage = stage] \in Execution
        /\ [exec[w] EXCEPT !.stage = stage].stage = stage
        /\ [exec[w] EXCEPT !.stage = stage].result = exec[w].result
    BY <1>1 DEF Execution
  <1>. QED
    BY <1>2, ExecType DEF Advance

\* The status _finish writes is a final one or "paused".
LEMMA FinalStatusType ==
  ASSUME TypeInv, NEW w \in Worker, exec[w].stage = "finishing"
  PROVE  /\ FinalStatus(w) \in {"success", "failed", "paused", "stopped"}
         /\ FinalStatus(w) \in Status
  BY DEF TypeInv, TypeOK, HasResult, Execution, FinalStatus, LinkedResult,
         Status, Active, Final

LEMMA FinishType ==
  ASSUME TypeInv, NEW w \in Worker, NEW more \in BOOLEAN, Finish(w, more)
  PROVE  TypeInv'
  <1>. DEFINE j == exec[w].job
              row == [jobs[j] EXCEPT !.status = FinalStatus(w)]
              done == [jobs EXCEPT ![j] = row]
              next == NewJob(jobs[j].target, jobs[j].task, 0)
  <1>1. j \in JobId
    BY DEF TypeInv, TypeOK, Execution
  <1>2. row \in Job
    BY <1>1, RowType, FinalStatusType DEF Finish, Job
  <1>3. next \in Job
    BY <1>1, RowType, NewJobType, JobsAssumption
  <1>4. done \in [JobId -> Job]
    BY <1>2 DEF TypeInv, TypeOK
  <1>5. jobs' = IF more THEN [done EXCEPT ![nextId] = next] ELSE done
    BY DEF Finish
  <1>6. jobs' \in [JobId -> Job]
    <2>. HIDE DEF done, next
    <2>. QED
      BY <1>3, <1>4, <1>5
  <1>7. nextId' \in 1 .. MaxJobs + 1
    BY JobsAssumption DEF Finish, TypeInv, TypeOK
  <1>8. batch' \in [JobId -> BatchStatus]
    BY <1>1 DEF Finish, TypeInv, TypeOK, BatchStatus
  <1>9. exec' \in [Worker -> Execution] /\ HasResult'
    BY LeaveType DEF Finish
  <1>. QED
    BY <1>6, <1>7, <1>8, <1>9, TypeFrame DEF Finish, TypeInv, TypeOK

LEMMA RequeueType ==
  ASSUME TypeInv, NEW w \in Worker, RequeueLockBusy(w)
  PROVE  TypeInv'
  <1>. DEFINE j == exec[w].job
              paused == [[jobs[j] EXCEPT !.status = "paused"] EXCEPT !.worker = NoWorker]
              queued == [[[jobs[j] EXCEPT !.status = "queued"] EXCEPT !.worker = NoWorker]
                           EXCEPT !.attempt = Refunded(j)]
  <1>1. j \in JobId
    BY DEF TypeInv, TypeOK, Execution
  <1>2. jobs[j] \in Job
    BY <1>1, RowType
  <1>3. paused \in Job
    BY <1>2 DEF Job, Status, Active
  <1>4. Refunded(j) \in 0 .. MaxAttempts
    BY <1>2, JobsAssumption DEF Job, Refunded
  <1>5. queued \in Job
    BY <1>2, <1>4, JobsAssumption DEF Job, Status, Active, Live
  <1>6. jobs' \in [JobId -> Job]
    <2>1. \/ jobs' = jobs
          \/ jobs' = [jobs EXCEPT ![j] = paused]
          \/ jobs' = [jobs EXCEPT ![j] = queued]
      BY DEF RequeueLockBusy
    <2>. HIDE DEF paused, queued
    <2>. QED
      BY <2>1, <1>1, <1>3, <1>5 DEF TypeInv, TypeOK
  <1>7. exec' \in [Worker -> Execution] /\ HasResult'
    BY LeaveType DEF RequeueLockBusy
  <1>. QED
    BY <1>6, <1>7, TypeFrame DEF RequeueLockBusy, TypeInv, TypeOK

LEMMA ExecuteType ==
  ASSUME TypeInv, NEW w \in Worker, Execute(w)
  PROVE  TypeInv'
  <1>1. exec[w] \in Execution /\ exec[w].job \in JobId
    BY DEF TypeInv, TypeOK, Execution
  <1>2. CASE Abandon(w)
    BY <1>2, LeaveType, ReleaseType, TypeFrame DEF Abandon, Leave, TypeInv, TypeOK
  <1>3. CASE AcquireLock(w)
    <2>1. exec' \in [Worker -> Execution] /\ HasResult'
      BY <1>3, AdvanceType DEF AcquireLock, Stage
    <2>. QED
      BY <1>3, <2>1, TypeFrame DEF AcquireLock, TypeInv, TypeOK
  <1>4. CASE LockBusy(w)
    <2>1. exec' \in [Worker -> Execution] /\ HasResult'
      BY <1>4, AdvanceType DEF LockBusy, Stage
    <2>. QED
      BY <1>4, <2>1, TypeFrame DEF LockBusy, TypeInv, TypeOK
  <1>5. CASE EnterEngine(w)
    <2>1. exec' \in [Worker -> Execution] /\ HasResult'
      BY <1>5, AdvanceType DEF EnterEngine, Stage
    <2>. QED
      BY <1>5, <2>1, TypeFrame DEF EnterEngine, Beat, TypeInv, TypeOK
  <1>6. CASE CreateBatch(w)
    <2>1. exec' \in [Worker -> Execution] /\ HasResult'
      BY <1>6, AdvanceType DEF CreateBatch, Stage
    <2>. QED
      BY <1>6, <2>1, TypeFrame DEF CreateBatch, TypeInv, TypeOK, BatchStatus
  <1>7. ASSUME NEW result \in {"success", "failed", "paused"}, EnginePages(w, result)
        PROVE  TypeInv'
    <2>. DEFINE e == [[exec[w] EXCEPT !.stage = "closing"] EXCEPT !.result = result]
    <2>1. e \in Execution /\ e.result # "none"
      BY <1>1 DEF Execution, Stage
    <2>2. exec' = [exec EXCEPT ![w] = e]
      BY <1>7 DEF EnginePages
    <2>3. exec' \in [Worker -> Execution] /\ HasResult'
      <3>. HIDE DEF e
      <3>. QED
        BY <2>1, <2>2, ExecType
    <2>. QED
      BY <1>7, <2>3, TypeFrame DEF EnginePages, TypeInv, TypeOK
  <1>8. CASE CloseBatch(w)
    <2>1. exec' \in [Worker -> Execution] /\ HasResult'
      BY <1>8, AdvanceType DEF CloseBatch, Stage, TypeInv, HasResult
    <2>. QED
      BY <1>1, <1>8, <2>1, TypeFrame
      DEF CloseBatch, TypeInv, TypeOK, BatchStatus, Execution
  <1>9. CASE LeaveEngine(w)
    <2>1. exec' \in [Worker -> Execution] /\ HasResult'
      BY <1>9, AdvanceType DEF LeaveEngine, Stage, TypeInv, HasResult
    <2>. QED
      BY <1>9, <2>1, ReleaseType, TypeFrame DEF LeaveEngine, Beat, TypeInv, TypeOK
  <1>10. CASE ExecutionError(w)
    <2>. DEFINE e == [[exec[w] EXCEPT !.stage = "finishing"] EXCEPT !.result = "failed"]
    <2>1. e \in Execution /\ e.result # "none"
      BY <1>1 DEF Execution, Stage
    <2>2. exec' = [exec EXCEPT ![w] = e]
      BY <1>10 DEF ExecutionError
    <2>3. exec' \in [Worker -> Execution] /\ HasResult'
      <3>. HIDE DEF e
      <3>. QED
        BY <2>1, <2>2, ExecType
    <2>. QED
      BY <1>10, <2>3, ReleaseType, TypeFrame DEF ExecutionError, TypeInv, TypeOK
  <1>11. CASE FinishLost(w)
    BY <1>11, LeaveType, TypeFrame DEF FinishLost, TypeInv, TypeOK
  <1>. QED
    BY <1>2, <1>3, <1>4, <1>5, <1>6, <1>7, <1>8, <1>9, <1>10, <1>11,
       RequeueType, FinishType DEF Execute, Engine

\* What recovery makes of a row: a row of the same job, queued, paused or failed.
LEMMA RecoveredRow ==
  ASSUME TypeInv, NEW j \in JobId
  PROVE  /\ Recovered(j) \in Job
         /\ Recovered(j).target = jobs[j].target
         /\ Recovered(j).task = jobs[j].task
         /\ Recovered(j).parent = jobs[j].parent
         /\ Recovered(j).attempt = jobs[j].attempt
         /\ Recovered(j).stop = jobs[j].stop
         /\ Recovered(j).worker = NoWorker
         /\ Recovered(j).status \in {"queued", "paused", "failed"}
         /\ Recovered(j).status = "queued" => jobs[j].attempt < MaxAttempts
         /\ Recovered(j).status \in BatchStatus \/ batch[j] = "none"
  <1>1. jobs[j] \in Job
    BY RowType
  <1>. DEFINE status == IF jobs[j].status = "pause_requested" /\ batch[j] # "none"
                        THEN "paused"
                        ELSE IF batch[j] # "none" \/ jobs[j].attempt >= MaxAttempts
                        THEN "failed" ELSE "queued"
  <1>2. Recovered(j) = [[jobs[j] EXCEPT !.status = status] EXCEPT !.worker = NoWorker]
    BY DEF Recovered
  <1>3. /\ status \in {"queued", "paused", "failed"}
        /\ status = "queued" => jobs[j].attempt < MaxAttempts
        /\ status \in BatchStatus \/ batch[j] = "none"
    BY <1>1, JobsAssumption DEF Job, BatchStatus
  <1>4. status \in Status
    BY <1>3 DEF Status, Active, Live, Final
  <1>. HIDE DEF status
  <1>. QED
    BY <1>1, <1>2, <1>3, <1>4 DEF Job

LEMMA RecoverType ==
  ASSUME TypeInv, NEW w \in Worker, NEW l \in Lock, Recover(w, l)
  PROVE  TypeInv'
  <1>1. jobs' \in [JobId -> Job]
    BY RecoveredRow DEF Recover, TypeInv, TypeOK
  <1>2. batch' \in [JobId -> BatchStatus]
    BY RecoveredRow DEF Recover, TypeInv, TypeOK
  <1>. QED
    BY <1>1, <1>2 DEF Recover, TypeInv, TypeOK, HasResult

LEMMA EnvironmentType ==
  ASSUME TypeInv, Environment
  PROVE  TypeInv'
  <1>1. ASSUME NEW j \in JobId, GoStale(j) PROVE TypeInv'
    BY <1>1 DEF GoStale, TypeInv, TypeOK, HasResult
  <1>2. ASSUME NEW w \in Worker, Crash(w) PROVE TypeInv'
    BY <1>2, LeaveType, ReleaseType, TypeFrame DEF Crash, Leave, TypeInv, TypeOK
  <1>3. ASSUME NEW w \in Worker, HeartbeatThread(w) PROVE TypeInv'
    BY <1>3 DEF HeartbeatThread, Beat, TypeInv, TypeOK, HasResult
  <1>4. ASSUME NEW w \in Worker, NEW l \in Lock, DropLock(w, l) PROVE TypeInv'
    BY <1>4 DEF DropLock, TypeInv, TypeOK, HasResult
  <1>5. ASSUME NEW l \in Lock, CliTakes(l) \/ CliReturns(l) PROVE TypeInv'
    BY <1>5 DEF CliTakes, CliReturns, TypeInv, TypeOK, HasResult
  <1>. QED
    BY <1>1, <1>2, <1>3, <1>4, <1>5 DEF Environment

LEMMA NextTypeInv == TypeInv /\ [Next]_vars => TypeInv'
  <1>. SUFFICES ASSUME TypeInv, [Next]_vars PROVE TypeInv'
    OBVIOUS
  <1>1. CASE UNCHANGED vars
    BY <1>1 DEF vars, TypeInv, TypeOK, HasResult
  <1>. QED
    BY <1>1, EntryType, ControlType, ClaimType, ExecuteType, RecoverType,
       EnvironmentType DEF Next

\* Every reachable state of the queue is well typed: no handler, worker or
\* recovery pass writes a status, an attempt or a batch outcome out of range.
THEOREM TypeCorrect == Spec => []TypeOK
  <1>1. Spec => []TypeInv
    BY InitTypeInv, NextTypeInv, PTL DEF Spec
  <1>2. TypeInv => TypeOK
    BY DEF TypeInv
  <1>. QED
    BY <1>1, <1>2, PTL

-----------------------------------------------------------------------------
(* What a step does to the rows: at most one is inserted, and an existing   *)
(* one is left alone or moves in one of five ways.                          *)

Kept(k) ==
  /\ jobs'[k].target = jobs[k].target
  /\ jobs'[k].task = jobs[k].task
  /\ jobs'[k].parent = jobs[k].parent

Untouched(k) ==
  /\ Kept(k)
  /\ jobs'[k].status = jobs[k].status
  /\ jobs'[k].worker = jobs[k].worker
  /\ jobs'[k].attempt = jobs[k].attempt

Toggled(k) ==
  /\ Kept(k)
  /\ jobs[k].status \in Held /\ jobs'[k].status \in Held
  /\ jobs'[k].worker = jobs[k].worker
  /\ jobs'[k].attempt = jobs[k].attempt

Ended(k) ==
  /\ Kept(k)
  /\ \/ jobs[k].status = "paused" /\ jobs'[k].status = "stopped"
     \/ jobs[k].status = "queued" /\ jobs'[k].status = "cancelled"

Claimed(k) ==
  /\ Kept(k)
  /\ jobs[k].status = "queued" /\ jobs'[k].status = "running"
  /\ \E w \in Worker : exec[w].stage = "idle" /\ jobs'[k].worker = w

SettledBy(w, k) ==
  /\ Kept(k)
  /\ exec[w].stage \in {"busy", "finishing"}
  /\ exec[w].job = k
  /\ Owns(w)
  /\ jobs'[k].status \in {"queued", "paused", "success", "failed", "stopped"}
  /\ jobs'[k].status = "queued" => jobs'[k].attempt < MaxAttempts
  /\ \/ RequeueLockBusy(w) /\ jobs'[k].status \in {"queued", "paused"}
     \/ (\E more \in BOOLEAN : Finish(w, more)) /\ jobs'[k].status = FinalStatus(w)
  /\ exec' = [exec EXCEPT ![w] = NoExecution]

RecoveredUnder(l, k) ==
  /\ holder[l] = NoWorker
  /\ k \in Recoverable(l)
  /\ jobs'[k] = Recovered(k)
  /\ batch'[k] = IF batch[k] # "none" THEN Recovered(k).status ELSE "none"

Moves(k) ==
  \/ Untouched(k)
  \/ Toggled(k)
  \/ Ended(k)
  \/ Claimed(k)
  \/ \E w \in Worker : SettledBy(w, k)
  \/ \E l \in Lock : RecoveredUnder(l, k)

InsertsNothing == nextId' = nextId /\ \A k \in JobId : Moves(k)

Inserts(t, task) ==
  /\ nextId \in JobId /\ nextId' = nextId + 1
  /\ jobs'[nextId].target = t /\ jobs'[nextId].task = task
  /\ jobs'[nextId].status = "queued" /\ jobs'[nextId].attempt = 0

InsertsAlone(t, task) ==
  /\ Inserts(t, task)
  /\ \A k \in JobId \ {nextId} : jobs'[k] = jobs[k]

InsertsAfter(w) ==
  LET j == exec[w].job IN
  /\ j \in JobId \ {nextId}
  /\ Inserts(jobs[j].target, jobs[j].task)
  /\ SettledBy(w, j) /\ jobs'[j].status = "success"
  /\ jobs'[nextId].parent = 0
  /\ \A k \in JobId \ {nextId, j} : jobs'[k] = jobs[k]

\* The rows that exist are those below nextId, a task has one target, and its
\* id is that of an existing row; a busy worker's job exists.
Rows ==
  /\ \A j \in JobId : jobs[j].status = "absent" <=> j >= nextId
  /\ \A j \in JobId : j < nextId => jobs[j].task < nextId
  /\ \A i, j \in JobId :
       i < nextId /\ j < nextId /\ jobs[i].task = jobs[j].task
         => jobs[i].target = jobs[j].target
  /\ \A w \in Worker : exec[w].stage # "idle" => exec[w].job < nextId

LEMMA UnchangedRows ==
  ASSUME TypeInv, UNCHANGED <<jobs, nextId>>
  PROVE  InsertsNothing
  BY DEF InsertsNothing, Moves, Untouched, Kept

LEMMA InsertRow ==
  ASSUME TypeInv, NEW s \in Session, NEW t \in Target, NEW task \in JobId,
         NEW parent \in 0 .. MaxJobs, Insert(s, NewJob(t, task, parent))
  PROVE  InsertsAlone(t, task)
  <1>1. nextId \in JobId
    BY JobsAssumption DEF TypeInv, TypeOK, Insert, JobId
  <1>2. jobs' = [jobs EXCEPT ![nextId] = NewJob(t, task, parent)]
    BY DEF Insert
  <1>3. jobs'[nextId] = NewJob(t, task, parent)
    BY <1>1, <1>2 DEF TypeInv, TypeOK
  <1>4. \A k \in JobId \ {nextId} : jobs'[k] = jobs[k]
    BY <1>2 DEF TypeInv, TypeOK
  <1>. QED
    BY <1>1, <1>3, <1>4, NewJobType DEF InsertsAlone, Inserts, Insert

LEMMA ControlRows ==
  ASSUME TypeInv, NEW j \in JobId, Control(j)
  PROVE  InsertsNothing
  <1>1. nextId' = nextId
    BY DEF Control, RequestPause, WithdrawPause, Stop, Cancel, Dismiss, Restore,
           ControlOnly
  <1>2. jobs[j] \in Job
    BY RowType
  <1>3. ASSUME NEW st \in Status, jobs' = [jobs EXCEPT ![j] = [jobs[j] EXCEPT !.status = st]]
        PROVE  /\ Kept(j)
               /\ jobs'[j].status = st
               /\ jobs'[j].worker = jobs[j].worker
               /\ jobs'[j].attempt = jobs[j].attempt
               /\ \A k \in JobId \ {j} : Untouched(k)
    BY <1>2, <1>3 DEF Kept, Untouched, Job, TypeInv, TypeOK
  <1>4. \A k \in JobId : Moves(k)
    <2>1. CASE RequestPause(j)
      BY <2>1, <1>3 DEF RequestPause, Moves, Toggled, Held, Status, Active, Live
    <2>2. CASE WithdrawPause(j)
      BY <2>2, <1>3 DEF WithdrawPause, Moves, Toggled, Held, Status, Active, Live
    <2>3. CASE Stop(j)
      <3>1. CASE jobs[j].status = "paused"
                 /\ jobs' = [jobs EXCEPT ![j].status = "stopped"]
        BY <3>1, <1>3 DEF Moves, Ended, Status, Final
      <3>2. CASE jobs' = [jobs EXCEPT ![j].stop = TRUE]
        BY <3>2, <1>2 DEF Moves, Untouched, Kept, Job, TypeInv, TypeOK
      <3>. QED
        BY <2>3, <3>1, <3>2 DEF Stop
    <2>4. CASE Cancel(j)
      BY <2>4, <1>3 DEF Cancel, Moves, Ended, Status, Final
    <2>5. CASE Dismiss(j) \/ Restore(j)
      BY <2>5, <1>2 DEF Dismiss, Restore, Moves, Untouched, Kept, Job, TypeInv, TypeOK
    <2>. QED
      BY <2>1, <2>2, <2>3, <2>4, <2>5 DEF Control
  <1>. QED
    BY <1>1, <1>4 DEF InsertsNothing

LEMMA ClaimRows ==
  ASSUME TypeInv, NEW w \in Worker, NEW j \in JobId, Claim(w, j)
  PROVE  InsertsNothing
  <1>1. jobs[j] \in Job
    BY RowType
  <1>2. /\ Kept(j) /\ jobs'[j].status = "running" /\ jobs'[j].worker = w
        /\ \A k \in JobId \ {j} : jobs'[k] = jobs[k]
    BY <1>1 DEF Claim, Kept, Job, TypeInv, TypeOK
  <1>. QED
    BY <1>2 DEF Claim, InsertsNothing, Moves, Claimed, Untouched, Kept

LEMMA RequeueRows ==
  ASSUME TypeInv, NEW w \in Worker, RequeueLockBusy(w)
  PROVE  InsertsNothing
  <1>. DEFINE j == exec[w].job
  <1>1. j \in JobId /\ jobs[j] \in Job
    BY RowType DEF TypeInv, TypeOK, Execution
  <1>2. CASE ~Owns(w)
    BY <1>2, UnchangedRows DEF RequeueLockBusy
  <1>3. CASE Owns(w) /\ jobs[j].status = "pause_requested"
    <2>1. Kept(j) /\ jobs'[j].status = "paused" /\ \A k \in JobId \ {j} : jobs'[k] = jobs[k]
      BY <1>1, <1>3 DEF RequeueLockBusy, Kept, Job, TypeInv, TypeOK
    <2>2. SettledBy(w, j)
      BY <2>1, <1>3 DEF RequeueLockBusy, SettledBy
    <2>. QED
      BY <2>1, <2>2 DEF RequeueLockBusy, InsertsNothing, Moves, Untouched, Kept
  <1>4. CASE Owns(w) /\ jobs[j].status # "pause_requested"
    <2>1. Refunded(j) < MaxAttempts
      BY <1>1, JobsAssumption DEF Refunded, Job
    <2>2. /\ Kept(j) /\ jobs'[j].status = "queued" /\ jobs'[j].attempt = Refunded(j)
          /\ \A k \in JobId \ {j} : jobs'[k] = jobs[k]
      BY <1>1, <1>4 DEF RequeueLockBusy, Kept, Job, TypeInv, TypeOK
    <2>3. SettledBy(w, j)
      BY <2>1, <2>2, <1>4 DEF RequeueLockBusy, SettledBy
    <2>. QED
      BY <2>2, <2>3 DEF RequeueLockBusy, InsertsNothing, Moves, Untouched, Kept
  <1>. QED
    BY <1>2, <1>3, <1>4

LEMMA FinishRows ==
  ASSUME TypeInv, Rows, NEW w \in Worker, NEW more \in BOOLEAN, Finish(w, more)
  PROVE  InsertsNothing \/ InsertsAfter(w)
  <1>. DEFINE j == exec[w].job
              row == [jobs[j] EXCEPT !.status = FinalStatus(w)]
              done == [jobs EXCEPT ![j] = row]
              next == NewJob(jobs[j].target, jobs[j].task, 0)
  <1>1. j \in JobId /\ jobs[j] \in Job
    BY RowType DEF TypeInv, TypeOK, Execution
  <1>2. FinalStatus(w) \in {"success", "failed", "paused", "stopped"}
    BY FinalStatusType DEF Finish
  <1>3. /\ row.target = jobs[j].target /\ row.task = jobs[j].task
        /\ row.parent = jobs[j].parent /\ row.status = FinalStatus(w)
    BY <1>1 DEF Job
  <1>4. /\ done[j] = row
        /\ DOMAIN done = JobId
        /\ \A k \in JobId \ {j} : done[k] = jobs[k]
    BY <1>1 DEF TypeInv, TypeOK
  <1>5. Owns(w) /\ exec[w].stage = "finishing"
    BY DEF Finish
  <1>6. ASSUME jobs'[j] = row PROVE SettledBy(w, j) /\ jobs'[j].status = FinalStatus(w)
    <2>1. exec' = [exec EXCEPT ![w] = NoExecution]
      BY DEF Finish
    <2>. HIDE DEF row
    <2>. QED
      BY <1>2, <1>3, <1>5, <1>6, <2>1 DEF SettledBy, Kept
  <1>7. CASE ~more
    <2>1. jobs' = done /\ nextId' = nextId
      BY <1>7 DEF Finish
    <2>2. jobs'[j] = row /\ \A k \in JobId \ {j} : jobs'[k] = jobs[k]
      BY <2>1, <1>4
    <2>. QED
      BY <2>1, <2>2, <1>6 DEF InsertsNothing, Moves, Untouched, Kept
  <1>8. CASE more
    <2>1. /\ FinalStatus(w) = "success" /\ nextId <= MaxJobs /\ nextId' = nextId + 1
          /\ jobs' = [done EXCEPT ![nextId] = next]
      BY <1>8 DEF Finish
    <2>2. nextId \in JobId
      BY <2>1, JobsAssumption DEF TypeInv, TypeOK, JobId
    <2>3. j # nextId
      BY <1>1, <1>5, <2>2 DEF Rows, Owns, Held, TypeInv, TypeOK
    <2>4. jobs'[nextId] = next /\ \A k \in JobId \ {nextId} : jobs'[k] = done[k]
      BY <2>1, <2>2, <1>4
    <2>5. jobs'[j] = row /\ \A k \in JobId \ {nextId, j} : jobs'[k] = jobs[k]
      BY <2>3, <2>4, <1>1, <1>4
    <2>6. /\ next.target = jobs[j].target /\ next.task = jobs[j].task
          /\ next.status = "queued" /\ next.attempt = 0 /\ next.parent = 0
      BY <1>1, RowType, NewJobType, JobsAssumption
    <2>. HIDE DEF row, done, next
    <2>. QED
      BY <1>1, <1>6, <2>1, <2>2, <2>3, <2>4, <2>5, <2>6 DEF InsertsAfter, Inserts
  <1>. QED
    BY <1>7, <1>8

LEMMA RecoverRows ==
  ASSUME TypeInv, NEW w \in Worker, NEW l \in Lock, Recover(w, l)
  PROVE  InsertsNothing
  <1>. SUFFICES ASSUME NEW k \in JobId PROVE Moves(k)
    BY DEF Recover, InsertsNothing
  <1>1. jobs'[k] = IF k \in Recoverable(l) THEN Recovered(k) ELSE jobs[k]
    BY DEF Recover
  <1>. QED
    BY <1>1 DEF Recover, Moves, RecoveredUnder, Untouched, Kept

\* A step inserts nothing, or a row on behalf of an entry or of a success.
LEMMA NextRows ==
  ASSUME TypeInv, Rows, Next
  PROVE  \/ InsertsNothing
         \/ \E s \in Session, t \in Target : Create(s, t) /\ InsertsAlone(t, nextId)
         \/ \E s \in Session, j \in JobId :
              /\ Retry(s, j) \/ Resume(s, j)
              /\ InsertsAlone(jobs[j].target, jobs[j].task)
         \/ \E w \in Worker : InsertsAfter(w)
  <1>1. ASSUME NEW s \in Session, NEW t \in Target, Create(s, t)
        PROVE  InsertsAlone(t, nextId)
    <2>1. nextId \in JobId /\ 0 \in 0 .. MaxJobs
      BY <1>1, JobsAssumption DEF Create, CreateManual, CreateScheduled, Insert, TypeInv, TypeOK, JobId
    <2>. QED
      BY <1>1, <2>1, InsertRow DEF Create, CreateManual, CreateScheduled
  <1>2. ASSUME NEW s \in Session, NEW j \in JobId, Retry(s, j) \/ Resume(s, j)
        PROVE  InsertsAlone(jobs[j].target, jobs[j].task)
    <2>1. Insert(s, NewJob(jobs[j].target, jobs[j].task, j))
      BY <1>2 DEF Retry, Resume
    <2>. QED
      BY <2>1, RowType, InsertRow
  <1>3. ASSUME NEW s \in Session, NEW j \in JobId, RetryCaughtUp(s, j)
        PROVE  InsertsNothing
    <2>1. jobs[j] \in Job
      BY RowType
    <2>. QED
      BY <1>3, <2>1 DEF RetryCaughtUp, InsertsNothing, Moves, Untouched, Kept, Job,
                        TypeInv, TypeOK
  <1>4. ASSUME NEW s \in Session, Begin(s) \/ Refuse(s) PROVE InsertsNothing
    BY <1>4, UnchangedRows DEF Begin, Refuse
  <1>5. ASSUME NEW w \in Worker, Execute(w)
        PROVE  InsertsNothing \/ InsertsAfter(w)
    <2>1. ASSUME UNCHANGED <<jobs, nextId>> PROVE InsertsNothing
      BY <2>1, UnchangedRows
    <2>2. \/ UNCHANGED <<jobs, nextId>>
          \/ RequeueLockBusy(w)
          \/ \E more \in BOOLEAN : Finish(w, more)
      BY <1>5 DEF Execute, Engine, Abandon, AcquireLock, LockBusy, EnterEngine,
                  CreateBatch, EnginePages, CloseBatch, LeaveEngine, ExecutionError,
                  FinishLost
    <2>. QED
      BY <2>1, <2>2, RequeueRows, FinishRows
  <1>6. ASSUME Environment PROVE InsertsNothing
    BY <1>6, UnchangedRows
    DEF Environment, GoStale, Crash, HeartbeatThread, DropLock, CliTakes, CliReturns
  <1>. QED
    BY <1>1, <1>2, <1>3, <1>4, <1>5, <1>6, ControlRows, ClaimRows, RecoverRows
    DEF Next, Entry

-----------------------------------------------------------------------------
(* The rows and their tasks.                                                *)

LEMMA InitRows == Init => Rows
  <1>. SUFFICES ASSUME Init PROVE Rows
    OBVIOUS
  <1>1. nextId = 1 /\ \A j \in JobId : j \in Nat /\ j >= 1 /\ jobs[j] = NoJob
    BY DEF Init, JobId
  <1>2. NoJob.status = "absent"
    BY DEF NoJob
  <1>3. \A w \in Worker : exec[w].stage = "idle"
    BY NoExecutionType DEF Init
  <1>. QED
    BY <1>1, <1>2, <1>3 DEF Rows

\* A row that moves stays in its task, and does not appear or vanish.
LEMMA MovesKeep ==
  ASSUME TypeInv, Rows, NEW k \in JobId, Moves(k)
  PROVE  /\ Kept(k)
         /\ jobs'[k].status = "absent" <=> jobs[k].status = "absent"
         /\ jobs'[k].status \in Active => jobs[k].status \in Active
         /\ jobs'[k].status \in Live => jobs[k].status \in Live
  <1>1. CASE Untouched(k) \/ Toggled(k) \/ Ended(k) \/ Claimed(k)
    BY <1>1 DEF Untouched, Toggled, Ended, Claimed, Kept, Held, Active, Live
  <1>2. ASSUME NEW w \in Worker, SettledBy(w, k)
        PROVE  /\ Kept(k)
               /\ jobs[k].status \in Held /\ jobs'[k].status # "absent"
    BY <1>2 DEF SettledBy, Owns
  <1>3. ASSUME NEW l \in Lock, RecoveredUnder(l, k)
        PROVE  /\ Kept(k)
               /\ jobs[k].status \in Held /\ jobs'[k].status # "absent"
    BY <1>3, RecoveredRow DEF RecoveredUnder, Recoverable, Kept
  <1>. QED
    BY <1>1, <1>2, <1>3 DEF Moves, Held, Active, Live

\* Inserting a row and letting the others move keeps the rows in order.
LEMMA InsertKeepsRows ==
  ASSUME TypeInv, Rows, NEW t \in Target, NEW task \in JobId, Inserts(t, task),
         \A k \in JobId \ {nextId} : Moves(k),
         \/ task = nextId
         \/ \E j \in JobId : j < nextId /\ jobs[j].task = task /\ jobs[j].target = t
  PROVE  /\ \A j \in JobId : jobs'[j].status = "absent" <=> j >= nextId'
         /\ \A j \in JobId : j < nextId' => jobs'[j].task < nextId'
         /\ \A i, j \in JobId :
              i < nextId' /\ j < nextId' /\ jobs'[i].task = jobs'[j].task
                => jobs'[i].target = jobs'[j].target
  <1>1. /\ nextId \in JobId /\ nextId \in Nat /\ nextId' = nextId + 1
        /\ \A j \in JobId : j \in Nat
    BY DEF Inserts, JobId
  <1>2. \A k \in JobId \ {nextId} :
          /\ jobs'[k].target = jobs[k].target /\ jobs'[k].task = jobs[k].task
          /\ jobs'[k].status = "absent" <=> jobs[k].status = "absent"
    BY MovesKeep DEF Kept
  <1>3. task \in Nat /\ task <= nextId /\ \A j \in JobId : jobs[j].task \in Nat
    <2>1. \A j \in JobId : jobs[j].task \in Nat
      BY <1>1, RowType
    <2>2. ASSUME NEW j \in JobId, j < nextId, jobs[j].task = task
          PROVE  task < nextId
      BY <2>2 DEF Rows
    <2>. QED
      BY <1>1, <2>1, <2>2
  <1>4. \A j \in JobId : jobs'[j].status = "absent" <=> j >= nextId'
    BY <1>1, <1>2 DEF Rows, Inserts
  <1>5. \A j \in JobId : j < nextId' => jobs'[j].task < nextId'
    BY <1>1, <1>2, <1>3 DEF Rows, Inserts
  <1>6. ASSUME NEW i \in JobId, i < nextId, jobs[i].task = task
        PROVE  jobs[i].target = t
    <2>1. task # nextId
      BY <1>1, <1>3, <1>6 DEF Rows
    <2>2. PICK j \in JobId : j < nextId /\ jobs[j].task = task /\ jobs[j].target = t
      BY <2>1
    <2>. QED
      BY <1>6, <2>2 DEF Rows
  <1>7. ASSUME NEW i \in JobId, NEW j \in JobId, i < nextId', j < nextId',
               jobs'[i].task = jobs'[j].task
        PROVE  jobs'[i].target = jobs'[j].target
    <2>1. CASE i = nextId /\ j = nextId
      BY <2>1
    <2>2. CASE i = nextId /\ j # nextId
      BY <1>1, <1>2, <1>6, <1>7, <2>2 DEF Inserts
    <2>3. CASE i # nextId /\ j = nextId
      BY <1>1, <1>2, <1>6, <1>7, <2>3 DEF Inserts
    <2>4. CASE i # nextId /\ j # nextId
      BY <1>1, <1>2, <1>7, <2>4 DEF Rows
    <2>. QED
      BY <2>1, <2>2, <2>3, <2>4
  <1>. QED
    BY <1>4, <1>5, <1>7

\* A worker stays, stops, goes on with its job, or claims a queued one.
ExecMoves(w) ==
  \/ exec'[w] = exec[w]
  \/ exec'[w].stage = "idle"
  \/ /\ exec[w].stage # "idle"
     /\ exec'[w].job = exec[w].job /\ exec'[w].attempt = exec[w].attempt
  \/ \E j \in JobId : Claim(w, j) /\ exec'[w].job = j

LEMMA NextExec ==
  ASSUME TypeInv, Next
  PROVE  \A w \in Worker : ExecMoves(w)
  <1>1. CASE exec' = exec
    BY <1>1 DEF ExecMoves
  <1>2. ASSUME NEW v \in Worker, exec' = [exec EXCEPT ![v] = NoExecution]
        PROVE  \A w \in Worker : ExecMoves(w)
    BY <1>2, NoExecutionType DEF ExecMoves, TypeInv, TypeOK
  <1>3. ASSUME NEW v \in Worker, NEW stage \in Stage, Advance(v, stage),
               exec[v].stage # "idle"
        PROVE  \A w \in Worker : ExecMoves(w)
    BY <1>3 DEF Advance, ExecMoves, TypeInv, TypeOK, Execution
  <1>4. ASSUME NEW v \in Worker, Execute(v)
        PROVE  \A w \in Worker : ExecMoves(w)
    <2>1. CASE Abandon(v) \/ RequeueLockBusy(v) \/ FinishLost(v)
               \/ \E more \in BOOLEAN : Finish(v, more)
      BY <2>1, <1>2 DEF Abandon, Leave, RequeueLockBusy, FinishLost, Finish
    <2>2. CASE AcquireLock(v) \/ LockBusy(v) \/ EnterEngine(v) \/ CreateBatch(v)
               \/ CloseBatch(v) \/ LeaveEngine(v)
      BY <2>2, <1>3 DEF AcquireLock, LockBusy, EnterEngine, CreateBatch, CloseBatch,
                        LeaveEngine, Stage
    <2>3. CASE ExecutionError(v) \/ \E r \in {"success", "failed", "paused"} : EnginePages(v, r)
      BY <2>3 DEF ExecutionError, EnginePages, ExecMoves, TypeInv, TypeOK, Execution
    <2>. QED
      BY <1>4, <2>1, <2>2, <2>3 DEF Execute, Engine
  <1>5. ASSUME NEW v \in Worker, NEW j \in JobId, Claim(v, j)
        PROVE  \A w \in Worker : ExecMoves(w)
    BY <1>5 DEF Claim, ExecMoves, TypeInv, TypeOK
  <1>6. ASSUME NEW v \in Worker, Crash(v) PROVE \A w \in Worker : ExecMoves(w)
    BY <1>6, <1>2 DEF Crash, Leave
  <1>7. ASSUME NEW s \in Session, Entry(s) PROVE exec' = exec
    BY <1>7 DEF Entry, Begin, Refuse, Create, CreateManual, CreateScheduled, Retry, RetryCaughtUp, Resume, Insert
  <1>8. ASSUME NEW j \in JobId, Control(j) PROVE exec' = exec
    BY <1>8 DEF Control, RequestPause, WithdrawPause, Stop, Cancel, Dismiss, Restore,
                ControlOnly
  <1>9. ASSUME NEW w \in Worker, NEW l \in Lock, Recover(w, l) PROVE exec' = exec
    BY <1>9 DEF Recover
  <1>10. ASSUME Environment PROVE exec' = exec \/ \E w \in Worker : Crash(w)
    BY <1>10 DEF Environment, GoStale, HeartbeatThread, DropLock, CliTakes, CliReturns
  <1>. QED
    BY <1>1, <1>4, <1>5, <1>6, <1>7, <1>8, <1>9, <1>10 DEF Next

LEMMA OwnedExists ==
  ASSUME TypeInv, Rows, NEW w \in Worker, Owns(w)
  PROVE  exec[w].job \in JobId /\ exec[w].job < nextId
  <1>1. exec[w].job \in JobId /\ nextId \in Nat /\ exec[w].job \in Nat
    BY DEF TypeInv, TypeOK, Execution, JobId
  <1>2. jobs[exec[w].job].status # "absent"
    BY DEF Owns, Held
  <1>. QED
    BY <1>1, <1>2 DEF Rows

LEMMA MovesKeepRows ==
  ASSUME TypeInv, Rows, InsertsNothing
  PROVE  /\ \A j \in JobId : jobs'[j].status = "absent" <=> j >= nextId'
         /\ \A j \in JobId : j < nextId' => jobs'[j].task < nextId'
         /\ \A i, j \in JobId :
              i < nextId' /\ j < nextId' /\ jobs'[i].task = jobs'[j].task
                => jobs'[i].target = jobs'[j].target
  <1>1. /\ nextId' = nextId
        /\ \A k \in JobId :
             /\ jobs'[k].target = jobs[k].target /\ jobs'[k].task = jobs[k].task
             /\ jobs'[k].status = "absent" <=> jobs[k].status = "absent"
    BY MovesKeep DEF InsertsNothing, Kept
  <1>. QED
    BY <1>1 DEF Rows

LEMMA UntouchedMoves ==
  ASSUME NEW k \in JobId, jobs'[k] = jobs[k]
  PROVE  Moves(k)
  BY DEF Moves, Untouched, Kept

\* Retry and Resume act on a row that exists.
LEMMA ContinuedExists ==
  ASSUME TypeInv, Rows, NEW s \in Session, NEW j \in JobId,
         Retry(s, j) \/ Resume(s, j)
  PROVE  j < nextId
  <1>1. jobs[j].status # "absent"
    BY DEF Retry, Retryable, Resume
  <1>2. nextId \in Nat /\ j \in Nat
    BY DEF TypeInv, TypeOK, JobId
  <1>. QED
    BY <1>1, <1>2 DEF Rows

LEMMA NextRowsKept ==
  ASSUME TypeInv, Rows, Next
  PROVE  Rows'
  <1>. DEFINE Ordered ==
         /\ \A j \in JobId : jobs[j].status = "absent" <=> j >= nextId
         /\ \A j \in JobId : j < nextId => jobs[j].task < nextId
         /\ \A i, j \in JobId :
              i < nextId /\ j < nextId /\ jobs[i].task = jobs[j].task
                => jobs[i].target = jobs[j].target
  <1>2. ASSUME NEW t \in Target, InsertsAlone(t, nextId)
        PROVE  Ordered' /\ nextId' = nextId + 1
    <2>1. Inserts(t, nextId) /\ \A k \in JobId \ {nextId} : Moves(k)
      BY <1>2, UntouchedMoves DEF InsertsAlone
    <2>2. nextId \in JobId /\ nextId' = nextId + 1
      BY <2>1 DEF Inserts
    <2>. QED
      BY <2>1, <2>2, InsertKeepsRows
  <1>3. ASSUME NEW s \in Session, NEW j \in JobId, Retry(s, j) \/ Resume(s, j),
               InsertsAlone(jobs[j].target, jobs[j].task)
        PROVE  Ordered' /\ nextId' = nextId + 1
    <2>1. Inserts(jobs[j].target, jobs[j].task) /\ \A k \in JobId \ {nextId} : Moves(k)
      BY <1>3, UntouchedMoves DEF InsertsAlone
    <2>2. nextId \in JobId /\ nextId' = nextId + 1
      BY <2>1 DEF Inserts
    <2>3. j < nextId
      BY <1>3, ContinuedExists
    <2>. QED
      BY <2>1, <2>2, <2>3, RowType, InsertKeepsRows
  <1>4. ASSUME NEW w \in Worker, InsertsAfter(w)
        PROVE  Ordered' /\ nextId' = nextId + 1
    <2>. DEFINE j == exec[w].job
    <2>1. j \in JobId /\ j < nextId
      BY <1>4, OwnedExists DEF InsertsAfter, SettledBy
    <2>2. Inserts(jobs[j].target, jobs[j].task)
      BY <1>4 DEF InsertsAfter
    <2>3. \A k \in JobId \ {nextId} : Moves(k)
      BY <1>4, UntouchedMoves DEF InsertsAfter, Moves
    <2>4. nextId \in JobId /\ nextId' = nextId + 1
      BY <2>2 DEF Inserts
    <2>. QED
      BY <2>1, <2>2, <2>3, <2>4, RowType, InsertKeepsRows
  <1>5. Ordered' /\ nextId' \in {nextId, nextId + 1}
    <2>1. ASSUME InsertsNothing PROVE Ordered' /\ nextId' = nextId
      BY <2>1, MovesKeepRows DEF InsertsNothing
    <2>. HIDE DEF Ordered
    <2>. QED
      BY <2>1, <1>2, <1>3, <1>4, NextRows
  <1>6. ASSUME NEW w \in Worker, exec'[w].stage # "idle"
        PROVE  exec'[w].job < nextId'
    <2>1. /\ nextId \in Nat /\ nextId' >= nextId
          /\ exec[w].job \in Nat /\ \A j \in JobId : j \in Nat
      BY <1>5 DEF TypeInv, TypeOK, Execution, JobId
    <2>2. ASSUME NEW j \in JobId, Claim(w, j) PROVE j < nextId
      BY <2>1, <2>2 DEF Claim, Rows
    <2>3. exec[w].stage # "idle" => exec[w].job < nextId
      BY DEF Rows
    <2>4. \/ exec'[w].job = exec[w].job /\ exec[w].stage # "idle"
          \/ \E j \in JobId : j < nextId /\ exec'[w].job = j
      BY <1>6, <2>2, NextExec DEF ExecMoves
    <2>. QED
      BY <1>5, <2>1, <2>3, <2>4
  <1>. QED
    BY <1>5, <1>6 DEF Rows
-----------------------------------------------------------------------------
(* Attempts.                                                                *)

LEMMA InitQueuedIsClaimable == Init => QueuedIsClaimable
  BY DEF Init, QueuedIsClaimable, NoJob

LEMMA NextQueuedIsClaimable ==
  ASSUME TypeInv, Rows, QueuedIsClaimable, Next
  PROVE  QueuedIsClaimable'
  <1>. SUFFICES ASSUME NEW k \in JobId, jobs'[k].status = "queued"
                PROVE  jobs'[k].attempt < MaxAttempts
    BY DEF QueuedIsClaimable
  <1>1. CASE Moves(k)
    <2>1. CASE Untouched(k)
      BY <2>1 DEF Untouched, QueuedIsClaimable
    <2>2. CASE Toggled(k) \/ Ended(k) \/ Claimed(k)
      BY <2>2 DEF Toggled, Ended, Claimed, Held
    <2>3. ASSUME NEW w \in Worker, SettledBy(w, k) PROVE jobs'[k].attempt < MaxAttempts
      BY <2>3 DEF SettledBy
    <2>4. ASSUME NEW l \in Lock, RecoveredUnder(l, k) PROVE jobs'[k].attempt < MaxAttempts
      BY <2>4, RecoveredRow DEF RecoveredUnder
    <2>. QED
      BY <1>1, <2>1, <2>2, <2>3, <2>4 DEF Moves
  <1>2. ASSUME jobs'[k].attempt = 0 PROVE jobs'[k].attempt < MaxAttempts
    BY <1>2, JobsAssumption
  <1>3. Moves(k) \/ jobs'[k].attempt = 0
    <2>1. ASSUME NEW t, NEW task, InsertsAlone(t, task)
          PROVE  Moves(k) \/ jobs'[k].attempt = 0
      BY <2>1, UntouchedMoves DEF InsertsAlone, Inserts
    <2>2. ASSUME NEW w \in Worker, InsertsAfter(w)
          PROVE  Moves(k) \/ jobs'[k].attempt = 0
      BY <2>2, UntouchedMoves DEF InsertsAfter, Inserts, Moves
    <2>. QED
      BY <2>1, <2>2, NextRows DEF InsertsNothing
  <1>. QED
    BY <1>1, <1>2, <1>3

\* The rows and what is in them, the part of the invariant every other one needs.
LEMMA RowsAlways == Spec => [](TypeInv /\ Rows)
  <1>1. TypeInv /\ Rows /\ [Next]_vars => (TypeInv /\ Rows)'
    <2>1. ASSUME TypeInv, Rows, UNCHANGED vars PROVE Rows'
      BY <2>1 DEF Rows, vars
    <2>. QED
      BY <2>1, NextTypeInv, NextRowsKept
  <1>. QED
    BY <1>1, InitTypeInv, InitRows, PTL DEF Spec

\* A queued job always has an attempt left, through claims, refunds after a busy
\* lock and recoveries: _claim_next never skips a queued row for good.
THEOREM QueuedClaimable == Spec => []QueuedIsClaimable
  <1>1. TypeInv /\ Rows /\ QueuedIsClaimable /\ [Next]_vars => QueuedIsClaimable'
    <2>1. ASSUME QueuedIsClaimable, UNCHANGED vars PROVE QueuedIsClaimable'
      BY <2>1 DEF QueuedIsClaimable, vars
    <2>. QED
      BY <2>1, NextQueuedIsClaimable
  <1>. QED
    BY <1>1, InitQueuedIsClaimable, RowsAlways, PTL DEF Spec

-----------------------------------------------------------------------------
(* One active job per target.                                               *)

LEMMA RowsBelow ==
  ASSUME NEW n \in 1 .. MaxJobs + 1
  PROVE  1 .. (n - 1) = {i \in JobId : i < n} /\ n - 1 \in Nat
  BY JobsAssumption DEF JobId

\* ActiveJobs, spelled out.
LEMMA ActiveShape ==
  ASSUME TypeInv, NEW t, NEW j
  PROVE  j \in ActiveJobs(t) <=>
           /\ j \in JobId /\ j < nextId
           /\ jobs[j].target = t /\ jobs[j].status \in Active
           /\ \A k \in JobId : k < nextId /\ k > j => jobs[k].task # jobs[j].task
  <1>1. Existing = {i \in JobId : i < nextId} /\ nextId - 1 \in Nat
    BY RowsBelow DEF TypeInv, TypeOK, Existing
  <1>2. LatestIds(nextId - 1) =
          {i \in Existing : \A k \in Existing : k > i => jobs[k].task # jobs[i].task}
    BY DEF LatestIds, Existing
  <1>. QED
    BY <1>1, <1>2 DEF ActiveJobs, IsCurrent

LEMMA CurrentShape ==
  ASSUME TypeInv, NEW j \in JobId
  PROVE  IsCurrent(j) <=>
           j < nextId /\ \A k \in JobId : k < nextId /\ k > j => jobs[k].task # jobs[j].task
  <1>1. Existing = {i \in JobId : i < nextId} /\ nextId - 1 \in Nat
    BY RowsBelow DEF TypeInv, TypeOK, Existing
  <1>. QED
    BY <1>1 DEF IsCurrent, LatestIds, Existing

\* The same two facts after a step.
LEMMA ShapesAfter ==
  ASSUME TypeInv'
  PROVE  /\ \A t, j : j \in ActiveJobs(t)' <=>
              /\ j \in JobId /\ j < nextId'
              /\ jobs'[j].target = t /\ jobs'[j].status \in Active
              /\ \A k \in JobId : k < nextId' /\ k > j => jobs'[k].task # jobs'[j].task
         /\ \A j \in JobId : IsCurrent(j)' <=>
              /\ j < nextId'
              /\ \A k \in JobId : k < nextId' /\ k > j => jobs'[k].task # jobs'[j].task
  <1>1. Existing' = {i \in JobId : i < nextId'} /\ nextId' - 1 \in Nat
    <2>1. nextId' \in 1 .. MaxJobs + 1
      BY DEF TypeInv, TypeOK
    <2>. QED
      BY <2>1, RowsBelow DEF Existing
  <1>2. LatestIds(nextId - 1)' =
          {i \in Existing' : \A k \in Existing' : k > i => jobs'[k].task # jobs'[i].task}
    BY DEF LatestIds, Existing
  <1>. QED
    BY <1>1, <1>2 DEF ActiveJobs, IsCurrent

SlotInv == TypeInv /\ Rows /\ LiveIsCurrent /\ OneActivePerTarget

LEMMA InitSlotInv == Init => SlotInv
  <1>. SUFFICES ASSUME Init PROVE LiveIsCurrent /\ OneActivePerTarget
    BY InitTypeInv, InitRows DEF SlotInv
  <1>1. \A j \in JobId : jobs[j].status = "absent"
    BY DEF Init, NoJob
  <1>. QED
    BY <1>1, InitTypeInv, ActiveShape
    DEF LiveIsCurrent, OneActivePerTarget, Live, Active

\* Without an insertion no job becomes active.
LEMMA NoInsertSlots ==
  ASSUME SlotInv, InsertsNothing, TypeInv'
  PROVE  /\ \A t \in Target : ActiveJobs(t)' \subseteq ActiveJobs(t)
         /\ LiveIsCurrent'
  <1>1. /\ nextId' = nextId
        /\ \A k \in JobId :
             /\ jobs'[k].target = jobs[k].target /\ jobs'[k].task = jobs[k].task
             /\ jobs'[k].status \in Active => jobs[k].status \in Active
             /\ jobs'[k].status \in Live => jobs[k].status \in Live
    BY MovesKeep DEF InsertsNothing, Kept, SlotInv
  <1>2. ASSUME NEW t \in Target, NEW j \in ActiveJobs(t)' PROVE j \in ActiveJobs(t)
    <2>1. /\ j \in JobId /\ j < nextId'
          /\ jobs'[j].target = t /\ jobs'[j].status \in Active
          /\ \A k \in JobId : k < nextId' /\ k > j => jobs'[k].task # jobs'[j].task
      BY <1>2, ShapesAfter
    <2>. QED
      BY <1>1, <2>1, ActiveShape DEF SlotInv
  <1>3. ASSUME NEW j \in JobId, jobs'[j].status \in Live PROVE IsCurrent(j)'
    <2>1. j < nextId /\ \A k \in JobId : k < nextId /\ k > j => jobs[k].task # jobs[j].task
      BY <1>1, <1>3, CurrentShape DEF SlotInv, LiveIsCurrent
    <2>. QED
      BY <1>1, <2>1, ShapesAfter
  <1>. QED
    BY <1>2, <1>3 DEF LiveIsCurrent

\* An inserted row takes the slot when the active job of the target, if there is
\* one, is of the same task, and no other row of the task stays live.
LEMMA InsertSlots ==
  ASSUME SlotInv, TypeInv', NEW t \in Target, NEW task \in JobId, Inserts(t, task),
         \A k \in JobId \ {nextId} : Moves(k),
         \A k \in JobId \ {nextId} : jobs[k].target # t => jobs'[k] = jobs[k],
         \A k \in ActiveJobs(t) : jobs[k].task = task,
         \A k \in JobId : k < nextId /\ jobs[k].task = task => jobs[k].target = t,
         \A k \in JobId : k < nextId /\ jobs[k].task = task => jobs'[k].status \notin Live
  PROVE  /\ ActiveJobs(t)' = {nextId}
         /\ \A u \in Target \ {t} : ActiveJobs(u)' = ActiveJobs(u)
         /\ LiveIsCurrent'
  <1>. DEFINE n == nextId
  <1>0. nextId' = n + 1 /\ n \in Nat /\ \A k \in JobId : k \in Nat
    BY DEF Inserts, JobId
  <1>1. /\ n \in JobId
        /\ jobs'[n].target = t /\ jobs'[n].task = task /\ jobs'[n].status = "queued"
    BY DEF Inserts, JobId
  <1>2. \A k \in JobId \ {n} :
             /\ jobs'[k].target = jobs[k].target /\ jobs'[k].task = jobs[k].task
             /\ jobs'[k].status \in Active => jobs[k].status \in Active
             /\ jobs'[k].status \in Live => jobs[k].status \in Live
    BY MovesKeep DEF Kept, SlotInv
  <1>3. ASSUME NEW u \in Target, NEW j \in ActiveJobs(u)', j # n
        PROVE  j \in ActiveJobs(u) /\ jobs[j].task # task
    <2>1. /\ j \in JobId /\ j < nextId'
          /\ jobs'[j].target = u /\ jobs'[j].status \in Active
          /\ \A k \in JobId : k < nextId' /\ k > j => jobs'[k].task # jobs'[j].task
      BY <1>3, ShapesAfter
    <2>4. j < n
      BY <1>0, <1>3, <2>1
    <2>2. jobs[j].task # task
      <3>1. n < nextId' /\ n > j
        BY <1>0, <2>1, <2>4
      <3>2. jobs'[j].task # task
        BY <1>1, <2>1, <3>1
      <3>. QED
        BY <1>2, <1>3, <2>1, <3>2
    <2>3. ASSUME NEW k \in JobId, k < n, k > j PROVE jobs[k].task # jobs[j].task
      <3>1. k < nextId' /\ k # n
        BY <1>0, <2>3
      <3>. QED
        BY <1>2, <1>3, <2>1, <2>3, <3>1
    <2>. QED
      BY <1>2, <1>3, <2>1, <2>2, <2>3, <2>4, ActiveShape DEF SlotInv
  <1>4. n \in ActiveJobs(t)'
    <2>1. \A k \in JobId : ~(k < nextId' /\ k > n)
      BY <1>0
    <2>. QED
      BY <1>0, <1>1, <2>1, ShapesAfter DEF Active, Live
  <1>5. ActiveJobs(t)' = {n}
    BY <1>3, <1>4
  <1>6. ASSUME NEW u \in Target \ {t} PROVE ActiveJobs(u)' = ActiveJobs(u)
    <2>1. n \notin ActiveJobs(u)'
      BY <1>1, <1>6, ShapesAfter
    <2>2. ASSUME NEW j \in ActiveJobs(u) PROVE j \in ActiveJobs(u)'
      <3>1. /\ j \in JobId /\ j < n
            /\ jobs[j].target = u /\ jobs[j].status \in Active
            /\ \A k \in JobId : k < n /\ k > j => jobs[k].task # jobs[j].task
        BY <2>2, ActiveShape DEF SlotInv
      <3>2. j # n /\ j < nextId'
        BY <1>0, <3>1
      <3>3. jobs'[j] = jobs[j] /\ jobs[j].task # task
        BY <1>6, <3>1, <3>2
      <3>4. ASSUME NEW k \in JobId, k < nextId', k > j PROVE jobs'[k].task # jobs'[j].task
        <4>1. CASE k = n
          BY <1>1, <3>3, <4>1
        <4>2. CASE k # n
          <5>1. k < n
            BY <1>0, <3>4, <4>2
          <5>. QED
            BY <1>2, <3>1, <3>3, <3>4, <4>2, <5>1
        <4>. QED
          BY <4>1, <4>2
      <3>. QED
        BY <3>1, <3>2, <3>3, <3>4, ShapesAfter
    <2>. QED
      BY <1>3, <2>1, <2>2
  <1>7. ASSUME NEW j \in JobId, jobs'[j].status \in Live PROVE IsCurrent(j)'
    <2>1. CASE j = n
      BY <1>0, <1>1, <2>1, ShapesAfter
    <2>2. CASE j # n
      <3>1. jobs[j].status \in Live
        BY <1>2, <1>7, <2>2
      <3>2. j < n /\ \A k \in JobId : k < n /\ k > j => jobs[k].task # jobs[j].task
        BY <3>1, CurrentShape DEF SlotInv, LiveIsCurrent
      <3>3. jobs[j].task # task
        BY <1>7, <3>2
      <3>. QED
        BY <1>0, <1>1, <1>2, <2>2, <3>2, <3>3, ShapesAfter
    <2>. QED
      BY <2>1, <2>2
  <1>. QED
    BY <1>5, <1>6, <1>7 DEF LiveIsCurrent

\* With reads that see the latest rows, the entries see exactly the active jobs.
LEMMA SeenIsActive ==
  ASSUME SnapshotReads = FALSE, NEW s, NEW t
  PROVE  ActiveSeen(s, t) = ActiveJobs(t)
  <1>1. ActiveSeen(s, t) =
          {j \in LatestIds(nextId - 1) : jobs[j].target = t /\ jobs[j].status \in Active}
    BY DEF ActiveSeen
  <1>2. LatestIds(nextId - 1) \subseteq Existing
    BY DEF LatestIds, Existing
  <1>. QED
    BY <1>1, <1>2 DEF ActiveJobs, IsCurrent

\* What an insertion does to the slots.
PlacedIn(t) ==
  /\ nextId' = nextId + 1
  /\ ActiveJobs(t)' = {nextId}
  /\ \A u \in Target \ {t} : ActiveJobs(u)' = ActiveJobs(u)
  /\ LiveIsCurrent'

LEMMA CreateSlots ==
  ASSUME SnapshotReads = FALSE, SlotInv, TypeInv', NEW s \in Session, NEW t \in Target,
         Create(s, t), InsertsAlone(t, nextId)
  PROVE  PlacedIn(t)
  <1>1. nextId \in JobId /\ nextId' = nextId + 1 /\ nextId \in Nat
    BY DEF InsertsAlone, Inserts, JobId
  <1>2. ActiveJobs(t) = {}
    BY SeenIsActive DEF Create, CreateManual, CreateScheduled
  <1>3. /\ Inserts(t, nextId)
        /\ \A k \in JobId \ {nextId} : Moves(k) /\ jobs'[k] = jobs[k]
    BY UntouchedMoves DEF InsertsAlone
  <1>4. ASSUME NEW k \in JobId, k < nextId PROVE jobs[k].task # nextId
    <2>1. jobs[k].task < nextId
      BY <1>4 DEF SlotInv, Rows
    <2>. QED
      BY <1>1, <2>1
  <1>. QED
    BY <1>1, <1>2, <1>3, <1>4, InsertSlots DEF PlacedIn

LEMMA RetrySlots ==
  ASSUME SnapshotReads = FALSE, SlotInv, TypeInv', NEW s \in Session, NEW j \in JobId,
         NEW t \in Target, NEW task \in JobId, t = jobs[j].target, task = jobs[j].task,
         Retry(s, j), InsertsAlone(t, task)
  PROVE  PlacedIn(t)
  <1>2. ActiveJobs(t) = {}
    BY SeenIsActive DEF Retry
  <1>3. /\ Inserts(t, task)
        /\ \A k \in JobId \ {nextId} : Moves(k) /\ jobs'[k] = jobs[k]
    BY UntouchedMoves DEF InsertsAlone
  <1>4. j < nextId /\ nextId \in Nat
    BY ContinuedExists DEF SlotInv, TypeInv, TypeOK
  <1>5. ASSUME NEW k \in JobId, k < nextId, jobs[k].task = task
        PROVE  jobs'[k].status \notin Live /\ jobs[k].target = t
    <2>1. jobs'[k] = jobs[k]
      <3>1. k # nextId
        BY <1>4, <1>5
      <3>. QED
        BY <3>1 DEF InsertsAlone
    <2>2. jobs[k].target = t
      BY <1>4, <1>5 DEF SlotInv, Rows
    <2>3. jobs[k].status \in Live => k \in ActiveJobs(t)
      BY <2>2, CurrentShape, ActiveShape DEF SlotInv, LiveIsCurrent, Active
    <2>. QED
      BY <2>1, <2>2, <2>3, <1>2
  <1>6. nextId' = nextId + 1
    BY <1>3 DEF Inserts
  <1>. QED
    BY <1>2, <1>3, <1>5, <1>6, InsertSlots DEF PlacedIn

\* The current, active row j of a task leaves its slot to the inserted row.
LEMMA HandoverSlots ==
  ASSUME SlotInv, TypeInv', NEW j \in JobId,
         NEW t \in Target, NEW task \in JobId, t = jobs[j].target, task = jobs[j].task,
         Inserts(t, task), \A k \in JobId \ {nextId} : Moves(k),
         \A k \in JobId \ {nextId, j} : jobs'[k] = jobs[k],
         IsCurrent(j), jobs[j].status \in Active, jobs'[j].status \notin Live
  PROVE  PlacedIn(t)
  <1>2. j \in ActiveJobs(t)
    BY CurrentShape, ActiveShape DEF SlotInv
  <1>3. ASSUME NEW k \in ActiveJobs(t) PROVE k = j
    BY <1>2, <1>3 DEF SlotInv, OneActivePerTarget
  <1>4. j < nextId /\ nextId \in Nat
    BY CurrentShape DEF SlotInv, TypeInv, TypeOK
  <1>5. ASSUME NEW k \in JobId, k < nextId, jobs[k].task = task
        PROVE  jobs'[k].status \notin Live /\ jobs[k].target = t
    <2>1. jobs'[k].status \in Live => jobs[k].status \in Live
      <3>1. k # nextId
        BY <1>4, <1>5
      <3>. QED
        BY <3>1, MovesKeep DEF SlotInv
    <2>2. jobs[k].target = t
      BY <1>4, <1>5 DEF SlotInv, Rows
    <2>3. jobs[k].status \in Live => k \in ActiveJobs(t)
      BY <2>2, CurrentShape, ActiveShape DEF SlotInv, LiveIsCurrent, Active
    <2>. QED
      BY <2>1, <2>2, <2>3, <1>3
  <1>6. nextId' = nextId + 1
    BY DEF Inserts
  <1>7. \A k \in ActiveJobs(t) : jobs[k].task = task
    BY <1>3
  <1>. QED
    BY <1>5, <1>6, <1>7, InsertSlots DEF PlacedIn

\* A step issues no job and lets jobs go, or puts one into the slot of a target.
LEMMA NextSlots ==
  ASSUME SnapshotReads = FALSE, SlotInv, TypeInv', Next
  PROVE  \/ /\ nextId' = nextId /\ LiveIsCurrent'
            /\ \A t \in Target : ActiveJobs(t)' \subseteq ActiveJobs(t)
         \/ \E t \in Target : PlacedIn(t)
  <1>1. CASE InsertsNothing
    BY <1>1, NoInsertSlots DEF InsertsNothing
  <1>2. ASSUME NEW s \in Session, NEW t \in Target, Create(s, t), InsertsAlone(t, nextId)
        PROVE  PlacedIn(t)
    BY <1>2, CreateSlots
  <1>3. ASSUME NEW s \in Session, NEW j \in JobId, Retry(s, j) \/ Resume(s, j),
               InsertsAlone(jobs[j].target, jobs[j].task)
        PROVE  \E t \in Target : PlacedIn(t)
    <2>. PICK t \in Target, task \in JobId : t = jobs[j].target /\ task = jobs[j].task
      BY RowType DEF SlotInv
    <2>1. CASE Retry(s, j)
      <3>1. InsertsAlone(t, task)
        BY <1>3 DEF InsertsAlone, Inserts
      <3>. QED
        BY <2>1, <3>1, RetrySlots
    <2>2. CASE Resume(s, j)
      <3>1. /\ IsCurrent(j) /\ jobs[j].status = "paused"
            /\ Inserts(t, task)
            /\ \A k \in JobId \ {nextId} : Moves(k) /\ jobs'[k] = jobs[k]
        BY <1>3, <2>2, UntouchedMoves DEF Resume, InsertsAlone, Inserts
      <3>2. j # nextId
        BY <3>1, CurrentShape DEF SlotInv, TypeInv, TypeOK
      <3>3. jobs'[j].status = "paused"
        BY <1>3, <3>1, <3>2 DEF InsertsAlone
      <3>. QED
        BY <3>1, <3>3, HandoverSlots DEF Active, Live
    <2>. QED
      BY <1>3, <2>1, <2>2
  <1>4. ASSUME NEW w \in Worker, InsertsAfter(w)
        PROVE  \E t \in Target : PlacedIn(t)
    <2>. PICK j \in JobId : j = exec[w].job
      BY DEF SlotInv, TypeInv, TypeOK, Execution
    <2>. PICK t \in Target, task \in JobId : t = jobs[j].target /\ task = jobs[j].task
      BY RowType DEF SlotInv
    <2>1. /\ jobs'[j].status = "success"
          /\ jobs[j].status \in Held
          /\ Inserts(t, task)
          /\ \A k \in JobId \ {nextId, j} : jobs'[k] = jobs[k]
      BY <1>4 DEF InsertsAfter, Inserts, SettledBy, Owns
    <2>2. \A k \in JobId \ {nextId} : Moves(k)
      BY <1>4, UntouchedMoves DEF InsertsAfter, Moves
    <2>3. IsCurrent(j)
      BY <2>1 DEF SlotInv, LiveIsCurrent, Held, Live
    <2>. QED
      BY <2>1, <2>2, <2>3, HandoverSlots DEF Held, Active, Live
  <1>. QED
    BY <1>1, <1>2, <1>3, <1>4, NextRows DEF SlotInv

LEMMA NextSlotInv ==
  ASSUME SnapshotReads = FALSE, SlotInv, [Next]_vars
  PROVE  SlotInv'
  <1>1. TypeInv' /\ (Next => Rows')
    BY NextTypeInv, NextRowsKept DEF SlotInv
  <1>2. CASE UNCHANGED vars
    BY <1>2 DEF vars, SlotInv, TypeInv, TypeOK, HasResult, Rows, LiveIsCurrent,
                OneActivePerTarget, ActiveJobs, IsCurrent, LatestIds, Existing
  <1>3. CASE Next
    <2>1. LiveIsCurrent'
      BY <1>1, <1>3, NextSlots DEF PlacedIn
    <2>2. \A t \in Target : \A i, j \in ActiveJobs(t)' : i = j
      <3>1. ASSUME \A t \in Target : ActiveJobs(t)' \subseteq ActiveJobs(t)
            PROVE  \A t \in Target : \A i, j \in ActiveJobs(t)' : i = j
        BY <3>1 DEF SlotInv, OneActivePerTarget
      <3>2. ASSUME NEW t \in Target, PlacedIn(t)
            PROVE  \A u \in Target : \A i, j \in ActiveJobs(u)' : i = j
        BY <3>2 DEF SlotInv, OneActivePerTarget, PlacedIn
      <3>. QED
        BY <1>1, <1>3, <3>1, <3>2, NextSlots
    <2>. QED
      BY <1>1, <1>3, <2>1, <2>2 DEF SlotInv, OneActivePerTarget
  <1>. QED
    BY <1>2, <1>3

LEMMA SlotInvAlways ==
  ASSUME SnapshotReads = FALSE
  PROVE  Spec => []SlotInv
  <1>1. SlotInv /\ [Next]_vars => SlotInv'
    BY NextSlotInv
  <1>. QED
    BY <1>1, InitSlotInv, PTL DEF Spec

\* A target has at most one active job, whoever creates, retries, resumes,
\* recovers or chains, as long as the query for the active job reads the rows as
\* they are (READ COMMITTED, or a locking subquery).
THEOREM OneActive ==
  ASSUME SnapshotReads = FALSE
  PROVE  Spec => []OneActivePerTarget
  <1>1. SlotInv => OneActivePerTarget
    BY DEF SlotInv
  <1>. QED
    BY <1>1, SlotInvAlways, PTL

\* Under the same condition a waiting or running job is the newest execution of
\* its task, so the queries over the newest rows miss none.
THEOREM LiveCurrent ==
  ASSUME SnapshotReads = FALSE
  PROVE  Spec => []LiveIsCurrent
  <1>1. SlotInv => LiveIsCurrent
    BY DEF SlotInv
  <1>. QED
    BY <1>1, SlotInvAlways, PTL

-----------------------------------------------------------------------------
(* The queue implements the slots.                                          *)

LEMMA InitSlots == Init => Slots!Init
  <1>. SUFFICES ASSUME Init PROVE Slots!Init
    OBVIOUS
  <1>1. SlotInv /\ nextId = 1
    BY InitSlotInv DEF Init
  <1>2. ASSUME NEW t \in Target PROVE ActiveJobs(t) = {}
    <2>1. Existing = {}
      BY <1>1 DEF Existing
    <2>. QED
      BY <2>1 DEF ActiveJobs
  <1>. QED
    BY <1>1, <1>2 DEF Slots!Init

LEMMA StepSlots ==
  ASSUME SnapshotReads = FALSE, SlotInv, [Next]_vars
  PROVE  [Slots!Next]_(Slots!vars)
  <1>. DEFINE occupant == [t \in Target |-> ActiveJobs(t)]
  <1>1. SlotInv' /\ TypeInv'
    BY NextSlotInv DEF SlotInv
  <1>2. CASE UNCHANGED vars
    BY <1>2 DEF vars, Slots!vars, ActiveJobs, IsCurrent, LatestIds, Existing
  <1>3. ASSUME nextId' = nextId,
               \A t \in Target : ActiveJobs(t)' \subseteq ActiveJobs(t)
        PROVE  [Slots!Next]_(Slots!vars)
    <2>. DEFINE S == {t \in Target : ActiveJobs(t)' # ActiveJobs(t)}
    <2>1. ASSUME NEW t \in S PROVE ActiveJobs(t) # {} /\ ActiveJobs(t)' = {}
      BY <1>3, <2>1 DEF SlotInv, OneActivePerTarget
    <2>2. occupant' = [t \in Target |-> IF t \in S THEN {} ELSE occupant[t]]
      BY <2>1
    <2>3. CASE S = {}
      BY <1>3, <2>2, <2>3 DEF Slots!vars
    <2>4. CASE S # {}
      <3>1. Slots!Vacate(S)
        BY <1>3, <2>1, <2>2 DEF Slots!Vacate
      <3>. QED
        BY <2>4, <3>1 DEF Slots!Next
    <2>. QED
      BY <2>3, <2>4
  <1>4. ASSUME NEW t \in Target, PlacedIn(t)
        PROVE  [Slots!Next]_(Slots!vars)
    <2>1. nextId \in Nat /\ nextId' - 1 = (nextId - 1) + 1 /\ (nextId - 1) + 1 = nextId
      BY <1>4 DEF PlacedIn, SlotInv, TypeInv, TypeOK
    <2>2. occupant' = [occupant EXCEPT ![t] = {nextId}]
      BY <1>4 DEF PlacedIn
    <2>3. Slots!Place(t)
      BY <2>1, <2>2 DEF Slots!Place
    <2>. QED
      BY <2>3 DEF Slots!Next
  <1>. QED
    BY <1>1, <1>2, <1>3, <1>4, NextSlots

\* Under the same condition the queue implements the abstract slots: jobs enter a
\* slot only when they are issued, from nobody or from the one they replace.
THEOREM SlotsImplemented ==
  ASSUME SnapshotReads = FALSE
  PROVE  Spec => SlotSpec
  <1>1. SlotInv /\ [Next]_vars => [Slots!Next]_(Slots!vars)
    BY StepSlots
  <1>. QED
    BY <1>1, InitSlots, SlotInvAlways, PTL DEF Spec, SlotSpec, Slots!Spec

-----------------------------------------------------------------------------
(* The engine's exclusion: lock and claim together.                         *)

InEngine == {"engine", "paging", "closing", "returned"}
UnderLock == InEngine \cup {"locked"}

LockHeld == \A w \in Worker : exec[w].stage \in UnderLock => holder[MyLock(w)] = w
ClaimHeld == \A w \in Worker : exec[w].stage \in InEngine => Owns(w)

EngineInv == TypeInv /\ Rows /\ LockHeld /\ ClaimHeld

LEMMA InitEngineInv == Init => EngineInv
  <1>. SUFFICES ASSUME Init PROVE LockHeld /\ ClaimHeld
    BY InitTypeInv, InitRows DEF EngineInv
  <1>1. \A w \in Worker : exec[w].stage = "idle"
    BY NoExecutionType DEF Init
  <1>. QED
    BY <1>1 DEF LockHeld, ClaimHeld, UnderLock, InEngine

\* Each worker's job exists, and its row keeps its target.
LEMMA JobKept ==
  ASSUME TypeInv, Rows, Next, NEW w \in Worker, exec[w].stage # "idle"
  PROVE  /\ exec[w].job \in JobId
         /\ Moves(exec[w].job)
         /\ jobs'[exec[w].job].target = jobs[exec[w].job].target
  <1>1. exec[w].job \in JobId /\ exec[w].job < nextId /\ nextId \in Nat
    BY DEF Rows, TypeInv, TypeOK, Execution
  <1>2. PICK k \in JobId : k = exec[w].job /\ k # nextId
    BY <1>1
  <1>3. Moves(k)
    <2>1. ASSUME NEW t, NEW task, InsertsAlone(t, task) PROVE Moves(k)
      BY <1>2, <2>1, UntouchedMoves DEF InsertsAlone
    <2>2. ASSUME NEW v \in Worker, InsertsAfter(v) PROVE Moves(k)
      BY <1>2, <2>2, UntouchedMoves DEF InsertsAfter, Moves
    <2>. QED
      BY <2>1, <2>2, NextRows DEF InsertsNothing
  <1>4. jobs'[k].target = jobs[k].target
    BY <1>3, MovesKeep DEF Kept
  <1>. QED
    BY <1>2, <1>3, <1>4

\* Nobody settles or recovers the row of a worker inside the engine.
LEMMA OwnedStays ==
  ASSUME EngineInv, Next, NEW w \in Worker, exec[w].stage \in UnderLock, Owns(w),
         NEW k \in JobId, k = exec[w].job
  PROVE  /\ jobs'[k].status \in Held /\ jobs'[k].worker = w
         /\ jobs'[k].attempt = exec[w].attempt
  <1>1. Moves(k)
    BY JobKept DEF EngineInv, UnderLock, InEngine
  <1>2. jobs[k].status \in Held /\ jobs[k].worker = w /\ jobs[k].attempt = exec[w].attempt
    BY DEF Owns
  <1>3. CASE Untouched(k) \/ Toggled(k)
    BY <1>2, <1>3 DEF Untouched, Toggled
  <1>4. CASE Ended(k) \/ Claimed(k)
    BY <1>2, <1>4 DEF Ended, Claimed, Held
  <1>5. ASSUME NEW v \in Worker, SettledBy(v, k) PROVE FALSE
    BY <1>2, <1>5 DEF SettledBy, Owns, UnderLock, InEngine
  <1>6. ASSUME NEW l \in Lock, RecoveredUnder(l, k) PROVE FALSE
    <2>1. l = MyLock(w)
      BY <1>6 DEF RecoveredUnder, Recoverable, MyLock
    <2>2. holder[l] = w
      BY <2>1 DEF EngineInv, LockHeld
    <2>. QED
      BY <1>6, <2>2, WorkerAssumption DEF RecoveredUnder
  <1>. QED
    BY <1>1, <1>3, <1>4, <1>5, <1>6 DEF Moves

\* How a worker comes to be under the lock.
LEMMA NextUnderLock ==
  ASSUME TypeInv, Next, NEW w \in Worker, exec'[w].stage \in UnderLock
  PROVE  /\ exec'[w].job = exec[w].job /\ exec'[w].attempt = exec[w].attempt
         /\ \/ exec[w].stage \in UnderLock /\ exec'[w].stage = exec[w].stage
            \/ exec[w].stage \in InEngine
            \/ EnterEngine(w)
            \/ AcquireLock(w) /\ exec'[w].stage = "locked"
  <1>. USE DEF TypeInv, TypeOK, Execution, UnderLock, InEngine
  <1>1. exec' = exec \/ \E v \in Worker : \/ Execute(v) \/ Crash(v)
                                         \/ \E j \in JobId : Claim(v, j)
    BY DEF Next, Entry, Begin, Refuse, Create, CreateManual, CreateScheduled, Retry, RetryCaughtUp, Resume, Insert,
           Control, RequestPause, WithdrawPause, Stop, Cancel, Dismiss, Restore,
           ControlOnly, Recover, Environment, GoStale, HeartbeatThread, DropLock,
           CliTakes, CliReturns
  <1>2. CASE exec' = exec
    BY <1>2
  <1>3. ASSUME NEW v \in Worker, exec' = [exec EXCEPT ![v] = NoExecution]
        PROVE  exec'[w] = exec[w]
    BY <1>3, NoExecutionType
  <1>4. ASSUME NEW v \in Worker, NEW j \in JobId, Claim(v, j) PROVE exec'[w] = exec[w]
    BY <1>4 DEF Claim
  <1>5. ASSUME NEW v \in Worker, Crash(v) PROVE exec'[w] = exec[w]
    BY <1>5, <1>3 DEF Crash, Leave
  <1>6. ASSUME NEW v \in Worker, Execute(v), v # w PROVE exec'[w] = exec[w]
    BY <1>6 DEF Execute, Engine, Abandon, Leave, AcquireLock, LockBusy, EnterEngine,
       CreateBatch, EnginePages, CloseBatch, LeaveEngine, ExecutionError,
       RequeueLockBusy, Finish, FinishLost, Advance
  <1>7. CASE Execute(w)
    <2>1. CASE Abandon(w) \/ RequeueLockBusy(w) \/ FinishLost(w)
               \/ \E more \in BOOLEAN : Finish(w, more)
      BY <2>1, <1>3 DEF Abandon, Leave, RequeueLockBusy, FinishLost, Finish
    <2>2. CASE LockBusy(w) \/ LeaveEngine(w) \/ ExecutionError(w)
      BY <2>2 DEF LockBusy, LeaveEngine, ExecutionError, Advance
    <2>3. CASE CreateBatch(w) \/ CloseBatch(w)
               \/ \E r \in {"success", "failed", "paused"} : EnginePages(w, r)
      BY <2>3 DEF CreateBatch, CloseBatch, EnginePages, Advance
    <2>4. CASE AcquireLock(w) \/ EnterEngine(w)
      BY <2>4 DEF AcquireLock, EnterEngine, Advance
    <2>. QED
      BY <1>7, <2>1, <2>2, <2>3, <2>4 DEF Execute, Engine
  <1>. QED
    BY <1>1, <1>2, <1>4, <1>5, <1>6, <1>7

\* A worker that stays under the lock keeps it.
LEMMA HolderStays ==
  ASSUME EngineInv, ~LocksDrop, Next, NEW w \in Worker, NEW l \in Lock, holder[l] = w,
         exec'[w].stage \in UnderLock
  PROVE  holder'[l] = w
  <1>. USE WorkerAssumption DEF EngineInv, TypeInv, TypeOK, UnderLock, InEngine
  <1>1. CASE holder' = holder
    BY <1>1
  <1>2. ASSUME NEW v \in Worker, holder' = Release(v), v # w PROVE holder'[l] = w
    BY <1>2 DEF Release
  <1>3. ASSUME NEW v \in Worker, Abandon(v) \/ Crash(v) PROVE v # w /\ holder' = Release(v)
    BY <1>3, NoExecutionType DEF Abandon, Crash, Leave
  <1>4. ASSUME NEW v \in Worker, LeaveEngine(v) \/ ExecutionError(v)
        PROVE  v # w /\ holder' = Release(v)
    BY <1>4 DEF LeaveEngine, ExecutionError, Advance, Execution
  <1>5. ASSUME NEW v \in Worker, AcquireLock(v) PROVE holder'[l] = w
    BY <1>5 DEF AcquireLock
  <1>6. ASSUME NEW k \in Lock, CliTakes(k) \/ CliReturns(k) PROVE holder'[l] = w
    BY <1>6 DEF CliTakes, CliReturns
  <1>7. ASSUME NEW v \in Worker, NEW k \in Lock, DropLock(v, k) PROVE FALSE
    BY <1>7 DEF DropLock
  <1>8. \/ holder' = holder
        \/ \E v \in Worker : \/ Abandon(v) \/ Crash(v) \/ LeaveEngine(v)
                             \/ ExecutionError(v) \/ AcquireLock(v)
        \/ \E k \in Lock : CliTakes(k) \/ CliReturns(k)
        \/ \E v \in Worker, k \in Lock : DropLock(v, k)
    BY DEF Next, Entry, Begin, Refuse, Create, CreateManual, CreateScheduled, Retry, RetryCaughtUp, Resume, Insert,
           Control, RequestPause, WithdrawPause, Stop, Cancel, Dismiss, Restore,
           ControlOnly, Claim, Execute, Engine, LockBusy, EnterEngine, CreateBatch,
           EnginePages, CloseBatch, RequeueLockBusy, Finish, FinishLost, Recover,
           Environment, GoStale, HeartbeatThread
  <1>. QED
    BY <1>1, <1>2, <1>3, <1>4, <1>5, <1>6, <1>7, <1>8

LEMMA NextEngineInv ==
  ASSUME EngineInv, ~LocksDrop, [Next]_vars
  PROVE  EngineInv'
  <1>1. TypeInv' /\ (Next => Rows')
    BY NextTypeInv, NextRowsKept DEF EngineInv
  <1>2. CASE UNCHANGED vars
    BY <1>2 DEF vars, EngineInv, TypeInv, TypeOK, HasResult, Rows, LockHeld, ClaimHeld,
                MyLock, Owns
  <1>3. ASSUME Next, NEW w \in Worker, exec'[w].stage \in UnderLock
        PROVE  /\ holder'[MyLock(w)'] = w
               /\ exec'[w].stage \in InEngine => Owns(w)'
    <2>1. /\ exec'[w].job = exec[w].job /\ exec'[w].attempt = exec[w].attempt
          /\ exec[w].stage # "idle"
      BY <1>3, NextUnderLock DEF EngineInv, UnderLock, InEngine, EnterEngine, AcquireLock
    <2>2. MyLock(w)' = MyLock(w) /\ MyLock(w) \in Lock
      <3>1. /\ exec[w].job \in JobId
            /\ jobs'[exec[w].job].target = jobs[exec[w].job].target
        BY <1>3, <2>1, JobKept DEF EngineInv
      <3>2. jobs[exec[w].job].target \in Target
        BY <3>1, RowType DEF EngineInv
      <3>. QED
        BY <2>1, <3>1, <3>2, TargetAssumption DEF MyLock
    <2>3. ASSUME exec[w].stage \in UnderLock PROVE holder'[MyLock(w)] = w
      BY <1>3, <2>2, <2>3, HolderStays DEF EngineInv, LockHeld
    <2>4. ASSUME AcquireLock(w) PROVE holder'[MyLock(w)] = w
      BY <2>2, <2>4 DEF AcquireLock, EngineInv, TypeInv, TypeOK
    <2>5. ASSUME exec[w].stage \in UnderLock, Owns(w) PROVE Owns(w)'
      <3>1. PICK k \in JobId : k = exec[w].job
        BY DEF EngineInv, TypeInv, TypeOK, Execution
      <3>2. /\ jobs'[k].status \in Held /\ jobs'[k].worker = w
            /\ jobs'[k].attempt = exec[w].attempt
        BY <1>3, <2>5, <3>1, OwnedStays
      <3>. QED
        BY <2>1, <3>1, <3>2 DEF Owns
    <2>6. CASE exec[w].stage \in UnderLock /\ exec'[w].stage = exec[w].stage
      BY <2>2, <2>3, <2>5, <2>6 DEF EngineInv, ClaimHeld
    <2>7. CASE exec[w].stage \in InEngine
      BY <2>2, <2>3, <2>5, <2>7 DEF EngineInv, ClaimHeld, UnderLock
    <2>8. CASE EnterEngine(w)
      BY <2>2, <2>3, <2>5, <2>8 DEF EnterEngine, Beat, UnderLock
    <2>9. CASE AcquireLock(w) /\ exec'[w].stage = "locked"
      BY <2>2, <2>4, <2>9 DEF InEngine
    <2>. QED
      BY <1>3, <2>6, <2>7, <2>8, <2>9, NextUnderLock DEF EngineInv
  <1>4. CASE Next
    <2>1. LockHeld'
      BY <1>3, <1>4 DEF LockHeld
    <2>2. ClaimHeld'
      BY <1>3, <1>4 DEF ClaimHeld, UnderLock
    <2>. QED
      BY <1>1, <1>4, <2>1, <2>2 DEF EngineInv
  <1>. QED
    BY <1>2, <1>4

\* While named locks last, a worker inside the engine holds its lock and its
\* claim: recovery, which asks for the lock, cannot take its row away.
THEOREM EngineExclusive ==
  Spec => []EngineIsExclusive
  <1>1. CASE ~LocksDrop
    <2>1. EngineInv /\ [Next]_vars => EngineInv'
      BY <1>1, NextEngineInv
    <2>2. EngineInv => EngineIsExclusive
      BY DEF EngineInv, LockHeld, ClaimHeld, EngineIsExclusive, UnderLock, InEngine
    <2>. QED
      BY <2>1, <2>2, InitEngineInv, PTL DEF Spec
  <1>2. CASE LocksDrop
    <2>1. EngineIsExclusive
      BY <1>2 DEF EngineIsExclusive
    <2>. QED
      BY <2>1, PTL
  <1>. QED
    BY <1>1, <1>2

-----------------------------------------------------------------------------
(* The fences.                                                              *)

\* A claimed row leaves its claim by the hand of its own worker, or by recovery
\* once it is stale, even when named locks drop: a worker that was overtaken by a
\* recovery writes nothing to the row.
THEOREM SettledOnlyByOwner == Spec => SettledByOwner
  <1>. DEFINE Settled(j) ==
         jobs[j].status \in Held /\ jobs'[j].status \notin Held =>
           \/ j \in stale /\ jobs'[j].worker = NoWorker
           \/ \E w \in Worker : /\ exec[w].stage \in {"busy", "finishing"}
                                /\ exec[w].job = j
                                /\ jobs[j].worker = w /\ jobs[j].attempt = exec[w].attempt
                                /\ exec'[w].stage = "idle"
  <1>1. ASSUME TypeInv, Rows, Next, NEW j \in JobId PROVE Settled(j)
    <2>1. CASE Moves(j)
      <3>1. CASE Untouched(j) \/ Toggled(j) \/ Ended(j) \/ Claimed(j)
        BY <3>1 DEF Untouched, Toggled, Ended, Claimed, Held
      <3>2. ASSUME NEW w \in Worker, SettledBy(w, j) PROVE Settled(j)
        BY <1>1, <3>2, NoExecutionType DEF SettledBy, Owns, TypeInv, TypeOK
      <3>3. ASSUME NEW l \in Lock, RecoveredUnder(l, j) PROVE Settled(j)
        BY <1>1, <3>3, RecoveredRow DEF RecoveredUnder, Recoverable
      <3>. QED
        BY <2>1, <3>1, <3>2, <3>3 DEF Moves
    <2>2. CASE j = nextId
      BY <1>1, <2>2 DEF Rows, Held, TypeInv, TypeOK
    <2>3. j = nextId \/ Moves(j)
      BY <1>1, NextRows, UntouchedMoves DEF InsertsNothing, InsertsAlone, InsertsAfter, Moves
    <2>. QED
      BY <2>1, <2>2, <2>3
  <1>2. TypeInv /\ Rows /\ [Next]_vars => [\A j \in JobId : Settled(j)]_vars
    BY <1>1
  <1>. QED
    BY <1>2, RowsAlways, PTL DEF Spec, SettledByOwner

\* A row that exists moves in one of the ways above, whatever is inserted.
LEMMA ExistingMoves ==
  ASSUME TypeInv, Rows, Next, NEW k \in JobId, jobs[k].status # "absent"
  PROVE  Moves(k) /\ k # nextId
  <1>1. k # nextId
    BY DEF Rows, TypeInv, TypeOK
  <1>. QED
    BY <1>1, NextRows, UntouchedMoves DEF InsertsNothing, InsertsAlone, InsertsAfter, Moves

\* A stop request ends the task: whoever settles the execution it was put on, the
\* execution does not succeed and no next window is chained to it.
THEOREM StopIsFinal == Spec => StopEndsTask
  <1>. DEFINE Stopped(j) ==
         jobs[j].stop /\ jobs[j].status \in Held /\ jobs'[j].status \notin Held =>
           jobs'[j].status # "success" /\ nextId' = nextId
  <1>1. ASSUME TypeInv, Rows, Next, NEW j \in JobId, jobs[j].stop,
               jobs[j].status \in Held, jobs'[j].status \notin Held
        PROVE  jobs'[j].status # "success" /\ nextId' = nextId
    <2>1. Moves(j) /\ j # nextId
      BY <1>1, ExistingMoves DEF Held
    <2>2. jobs'[j].status # "success"
      <3>1. CASE Untouched(j) \/ Toggled(j) \/ Ended(j) \/ Claimed(j)
        BY <1>1, <3>1 DEF Untouched, Toggled, Ended, Claimed, Held
      <3>2. ASSUME NEW w \in Worker, SettledBy(w, j) PROVE jobs'[j].status # "success"
        BY <1>1, <3>2 DEF SettledBy, FinalStatus
      <3>3. ASSUME NEW l \in Lock, RecoveredUnder(l, j) PROVE jobs'[j].status # "success"
        BY <1>1, <3>3, RecoveredRow DEF RecoveredUnder
      <3>. QED
        BY <2>1, <3>1, <3>2, <3>3 DEF Moves
    <2>3. ASSUME NEW t, NEW task, InsertsAlone(t, task) PROVE FALSE
      BY <1>1, <2>1, <2>3 DEF InsertsAlone
    <2>4. ASSUME NEW w \in Worker, InsertsAfter(w) PROVE FALSE
      <3>1. jobs'[j] = jobs[j] \/ jobs'[j].status = "success"
        BY <2>1, <2>4 DEF InsertsAfter
      <3>. QED
        BY <1>1, <2>2, <3>1
    <2>5. nextId' = nextId
      BY <1>1, <2>3, <2>4, NextRows DEF InsertsNothing
    <2>. QED
      BY <2>2, <2>5
  <1>2. TypeInv /\ Rows /\ [Next]_vars => [\A j \in JobId : Stopped(j)]_vars
    BY <1>1
  <1>. QED
    BY <1>2, RowsAlways, PTL DEF Spec, StopEndsTask

-----------------------------------------------------------------------------
(* Final rows.                                                              *)

Same(k) == [jobs'[k] EXCEPT !.resolution = "none"] = [jobs[k] EXCEPT !.resolution = "none"]

LEMMA SameRow ==
  ASSUME NEW k \in JobId, jobs'[k] = jobs[k]
  PROVE  Same(k)
  BY DEF Same

\* Only the operator's verdict on a failure changes.
LEMMA ResolvedRow ==
  ASSUME TypeInv, NEW k \in JobId, NEW r, jobs'[k] = [jobs[k] EXCEPT !.resolution = r]
  PROVE  Same(k)
  BY RowType DEF Same, Job

LEMMA FinalStays ==
  ASSUME TypeInv, Rows, Next, NEW k \in JobId, jobs[k].status \in Final
  PROVE  Same(k)
  <1>. USE DEF TypeInv, TypeOK
  <1>1. k # nextId /\ jobs[k].status \notin Active /\ jobs[k].status \notin Held
    BY DEF Rows, Final, Active, Live, Held
  <1>2. ASSUME NEW s \in Session, NEW job, Insert(s, job) PROVE Same(k)
    BY <1>1, <1>2, SameRow DEF Insert
  <1>3. ASSUME NEW s \in Session, Entry(s) PROVE Same(k)
    <2>1. ASSUME NEW j \in JobId, RetryCaughtUp(s, j) PROVE Same(k)
      BY <2>1, SameRow, ResolvedRow DEF RetryCaughtUp
    <2>2. CASE Begin(s) \/ Refuse(s)
      BY <2>2, SameRow DEF Begin, Refuse
    <2>. QED
      BY <1>2, <1>3, <2>1, <2>2
      DEF Entry, Create, CreateManual, CreateScheduled, Retry, Resume
  <1>4. ASSUME NEW j \in JobId, Control(j) PROVE Same(k)
    <2>1. CASE Dismiss(j) \/ Restore(j)
      BY <2>1, SameRow, ResolvedRow DEF Dismiss, Restore
    <2>2. CASE RequestPause(j) \/ WithdrawPause(j) \/ Stop(j) \/ Cancel(j)
      <3>1. j # k
        BY <1>1, <2>2 DEF RequestPause, WithdrawPause, Stop, Cancel, Held, Active, Live
      <3>. QED
        BY <2>2, <3>1, SameRow DEF RequestPause, WithdrawPause, Stop, Cancel
    <2>. QED
      BY <1>4, <2>1, <2>2 DEF Control
  <1>5. ASSUME NEW w \in Worker, NEW j \in JobId, Claim(w, j) PROVE Same(k)
    <2>1. j # k
      BY <1>1, <1>5 DEF Claim, Active, Live
    <2>. QED
      BY <1>5, <2>1, SameRow DEF Claim
  <1>6. ASSUME NEW w \in Worker, Execute(w) PROVE Same(k)
    <2>1. CASE UNCHANGED jobs
      BY <2>1, SameRow
    <2>2. CASE RequeueLockBusy(w)
      <3>1. ~Owns(w) \/ exec[w].job # k
        BY <1>1 DEF Owns
      <3>. QED
        BY <2>2, <3>1, SameRow DEF RequeueLockBusy
    <2>3. ASSUME NEW more \in BOOLEAN, Finish(w, more) PROVE Same(k)
      <3>1. exec[w].job # k
        BY <1>1, <2>3 DEF Finish, Owns
      <3>. QED
        BY <1>1, <2>3, <3>1, SameRow DEF Finish
    <2>. QED
      BY <1>6, <2>1, <2>2, <2>3
      DEF Execute, Engine, Abandon, AcquireLock, LockBusy, EnterEngine, CreateBatch,
          EnginePages, CloseBatch, LeaveEngine, ExecutionError, FinishLost
  <1>7. ASSUME NEW w \in Worker, NEW l \in Lock, Recover(w, l) PROVE Same(k)
    BY <1>1, <1>7, SameRow DEF Recover, Recoverable
  <1>8. ASSUME Environment PROVE Same(k)
    BY <1>8, SameRow
    DEF Environment, GoStale, Crash, HeartbeatThread, DropLock, CliTakes, CliReturns
  <1>. QED
    BY <1>3, <1>4, <1>5, <1>6, <1>7, <1>8 DEF Next

\* Old executions are evidence: once a row is final no step of any handler, worker
\* or recovery rewrites it, but for the operator's resolution of a failure.
THEOREM FinalIsFrozen == Spec => FinalRowsFrozen
  <1>1. TypeInv /\ Rows /\ [Next]_vars =>
          [\A j \in JobId : jobs[j].status \in Final => Same(j)]_vars
    BY FinalStays
  <1>. QED
    BY <1>1, RowsAlways, PTL DEF Spec, FinalRowsFrozen, Same

-----------------------------------------------------------------------------
(* The batches.  Made: w created the batch of its job and has not yet passed *)
(* its outcome on; a failed result may come from an error before the batch.  *)

Made(w) ==
  \/ exec[w].stage \in {"paging", "closing", "returned"}
  \/ exec[w].stage = "finishing" /\ exec[w].result \in {"success", "paused"}

\* One worker at most makes the batch of a job: the key on sync_job_id is unique.
MadeOnce ==
  /\ \A w \in Worker : Made(w) => batch[exec[w].job] # "none"
  /\ \A v, w \in Worker : Made(v) /\ Made(w) /\ exec[v].job = exec[w].job => v = w

\* Who still owns the job, past the close of the batch, knows what the batch says.
MadeAgrees ==
  \A w \in Worker :
    Made(w) /\ exec[w].stage \in {"returned", "finishing"} /\ Owns(w) =>
      batch[exec[w].job] = exec[w].result

\* Nobody who made the batch of a job lags behind its success.
SuccessUnmade ==
  \A j \in JobId : jobs[j].status = "success" =>
    \A w \in Worker : Made(w) => exec[w].job # j

BatchInv == TypeInv /\ Rows /\ MadeOnce /\ MadeAgrees /\ SuccessUnmade /\ SuccessIsBacked

LEMMA InitBatchInv == Init => BatchInv
  <1>. SUFFICES ASSUME Init PROVE MadeOnce /\ MadeAgrees /\ SuccessUnmade /\ SuccessIsBacked
    BY InitTypeInv, InitRows DEF BatchInv
  <1>1. \A w \in Worker : ~Made(w)
    BY NoExecutionType DEF Init, Made
  <1>2. \A j \in JobId : jobs[j].status = "absent"
    BY DEF Init, NoJob
  <1>. QED
    BY <1>1, <1>2 DEF MadeOnce, MadeAgrees, SuccessUnmade, SuccessIsBacked

\* The ways the batch of job k changes.
BatchMoves(k) ==
  \/ batch'[k] = batch[k]
  \/ \E w \in Worker : CreateBatch(w) /\ exec[w].job = k /\ batch'[k] = "running"
  \/ \E w \in Worker : CloseBatch(w) /\ exec[w].job = k /\ batch'[k] = exec[w].result
  \/ \E w \in Worker, more \in BOOLEAN :
       /\ Finish(w, more) /\ exec[w].job = k
       /\ LinkedResult(w) = "failed" /\ batch[k] # "none" /\ batch'[k] = "failed"
  \/ \E w \in Worker, l \in Lock :
       /\ Recover(w, l) /\ k \in Recoverable(l)
       /\ batch[k] # "none" /\ batch'[k] = Recovered(k).status

LEMMA NextBatch ==
  ASSUME TypeInv, Next, NEW k \in JobId
  PROVE  BatchMoves(k)
  <1>. USE DEF TypeInv, TypeOK
  <1>1. CASE batch' = batch
    BY <1>1 DEF BatchMoves
  <1>2. ASSUME NEW w \in Worker, CreateBatch(w) PROVE BatchMoves(k)
    BY <1>2 DEF CreateBatch, BatchMoves
  <1>3. ASSUME NEW w \in Worker, CloseBatch(w) PROVE BatchMoves(k)
    BY <1>3 DEF CloseBatch, BatchMoves
  <1>4. ASSUME NEW w \in Worker, NEW more \in BOOLEAN, Finish(w, more) PROVE BatchMoves(k)
    <2>1. CASE batch'[k] = batch[k]
      BY <2>1 DEF BatchMoves
    <2>2. CASE batch'[k] # batch[k]
      <3>1. /\ LinkedResult(w) = "failed" /\ batch[exec[w].job] # "none"
            /\ batch' = [batch EXCEPT ![exec[w].job] = "failed"]
        BY <1>4, <2>2 DEF Finish
      <3>2. exec[w].job = k /\ batch'[k] = "failed"
        BY <2>2, <3>1
      <3>. QED
        BY <1>4, <3>1, <3>2 DEF BatchMoves
    <2>. QED
      BY <2>1, <2>2
  <1>5. ASSUME NEW w \in Worker, NEW l \in Lock, Recover(w, l) PROVE BatchMoves(k)
    <2>1. batch'[k] = IF k \in Recoverable(l) /\ batch[k] # "none"
                      THEN Recovered(k).status ELSE batch[k]
      BY <1>5 DEF Recover
    <2>. QED
      BY <1>5, <2>1 DEF BatchMoves
  <1>6. ASSUME NEW w \in Worker, Execute(w) PROVE BatchMoves(k)
    BY <1>1, <1>2, <1>3, <1>4, <1>6
    DEF Execute, Engine, Abandon, AcquireLock, LockBusy, EnterEngine, EnginePages,
        LeaveEngine, ExecutionError, RequeueLockBusy, FinishLost
  <1>7. ASSUME NEW s \in Session, Entry(s) PROVE batch' = batch
    BY <1>7 DEF Entry, Begin, Refuse, Create, CreateManual, CreateScheduled, Retry,
       RetryCaughtUp, Resume, Insert
  <1>8. ASSUME NEW j \in JobId, Control(j) PROVE batch' = batch
    BY <1>8 DEF Control, RequestPause, WithdrawPause, Stop, Cancel, Dismiss, Restore,
                ControlOnly
  <1>9. ASSUME NEW w \in Worker, NEW j \in JobId, Claim(w, j) PROVE batch' = batch
    BY <1>9 DEF Claim
  <1>10. ASSUME Environment PROVE batch' = batch
    BY <1>10 DEF Environment, GoStale, Crash, HeartbeatThread, DropLock, CliTakes, CliReturns
  <1>. QED
    BY <1>1, <1>5, <1>6, <1>7, <1>8, <1>9, <1>10 DEF Next

\* A batch is never taken away.
LEMMA BatchStays ==
  ASSUME TypeInv, Next, NEW k \in JobId, batch[k] # "none"
  PROVE  batch'[k] # "none"
  <1>1. ASSUME NEW w \in Worker, CloseBatch(w) PROVE exec[w].result # "none"
    BY <1>1 DEF CloseBatch, TypeInv, HasResult
  <1>2. Recovered(k).status # "none"
    BY RecoveredRow
  <1>. QED
    BY <1>1, <1>2, NextBatch DEF BatchMoves

\* What a worker that has made its batch was doing a step earlier.
MakesMoves(w) ==
  \/ exec'[w] = exec[w] /\ Made(w)
  \/ CreateBatch(w) /\ exec'[w].stage = "paging"
  \/ exec[w].stage = "paging" /\ exec'[w].stage = "closing"
  \/ CloseBatch(w) /\ exec'[w].stage = "returned" /\ exec'[w].result = exec[w].result
  \/ LeaveEngine(w) /\ exec'[w].stage = "finishing" /\ exec'[w].result = exec[w].result

LEMMA NextMade ==
  ASSUME TypeInv, Next, NEW w \in Worker, Made(w)'
  PROVE  /\ exec'[w].job = exec[w].job /\ exec'[w].attempt = exec[w].attempt
         /\ exec[w].stage # "idle"
         /\ MakesMoves(w)
  <1>. USE DEF TypeInv, TypeOK, Execution
  <1>1. CASE exec'[w] = exec[w]
    BY <1>1 DEF Made, MakesMoves
  <1>2. ASSUME NEW v \in Worker, exec' = [exec EXCEPT ![v] = NoExecution]
        PROVE  exec'[w] = exec[w]
    BY <1>2, NoExecutionType DEF Made
  <1>3. ASSUME NEW v \in Worker, NEW j \in JobId, Claim(v, j) PROVE exec'[w] = exec[w]
    BY <1>3 DEF Claim, Made
  <1>4. ASSUME NEW v \in Worker, Crash(v) PROVE exec'[w] = exec[w]
    BY <1>4, <1>2 DEF Crash, Leave
  <1>5. ASSUME NEW v \in Worker, Execute(v), v # w PROVE exec'[w] = exec[w]
    BY <1>5 DEF Execute, Engine, Abandon, Leave, AcquireLock, LockBusy, EnterEngine,
       CreateBatch, EnginePages, CloseBatch, LeaveEngine, ExecutionError,
       RequeueLockBusy, Finish, FinishLost, Advance
  <1>6. CASE Execute(w)
    <2>1. CASE Abandon(w) \/ RequeueLockBusy(w) \/ FinishLost(w)
               \/ \E more \in BOOLEAN : Finish(w, more)
      BY <1>1, <2>1, <1>2 DEF Abandon, Leave, RequeueLockBusy, FinishLost, Finish
    <2>2. CASE AcquireLock(w) \/ LockBusy(w) \/ EnterEngine(w) \/ ExecutionError(w)
      BY <2>2 DEF AcquireLock, LockBusy, EnterEngine, ExecutionError, Advance, Made
    <2>3. CASE CreateBatch(w)
      BY <2>3 DEF CreateBatch, Advance, MakesMoves
    <2>4. ASSUME NEW r \in {"success", "failed", "paused"}, EnginePages(w, r)
          PROVE  /\ exec'[w].job = exec[w].job /\ exec'[w].attempt = exec[w].attempt
                 /\ exec[w].stage = "paging" /\ exec'[w].stage = "closing"
      BY <2>4 DEF EnginePages
    <2>5. CASE CloseBatch(w)
      BY <2>5 DEF CloseBatch, Advance, MakesMoves
    <2>6. CASE LeaveEngine(w)
      BY <2>6 DEF LeaveEngine, Advance, MakesMoves
    <2>. QED
      BY <1>6, <2>1, <2>2, <2>3, <2>4, <2>5, <2>6 DEF Execute, Engine, MakesMoves
  <1>7. exec' = exec \/ \E v \in Worker : \/ Execute(v) \/ Crash(v)
                                         \/ \E j \in JobId : Claim(v, j)
    BY DEF Next, Entry, Begin, Refuse, Create, CreateManual, CreateScheduled, Retry, RetryCaughtUp, Resume, Insert,
           Control, RequestPause, WithdrawPause, Stop, Cancel, Dismiss, Restore,
           ControlOnly, Recover, Environment, GoStale, HeartbeatThread, DropLock,
           CliTakes, CliReturns
  <1>. QED
    BY <1>1, <1>3, <1>4, <1>5, <1>6, <1>7

LEMMA NextMadeOnce ==
  ASSUME TypeInv, MadeOnce, Next
  PROVE  MadeOnce'
  <1>1. ASSUME NEW w \in Worker, Made(w)'
        PROVE  /\ exec'[w].job = exec[w].job /\ exec[w].job \in JobId
               /\ \/ Made(w) /\ batch[exec[w].job] # "none"
                  \/ CreateBatch(w) /\ batch[exec[w].job] = "none" /\ exec'[w].stage = "paging"
    <2>1. exec[w].job \in JobId
      BY DEF TypeInv, TypeOK, Execution
    <2>2. Made(w) \/ (CreateBatch(w) /\ exec'[w].stage = "paging")
      <3>1. MakesMoves(w)
        BY <1>1, NextMade
      <3>. QED
        BY <3>1 DEF MakesMoves, Made, CloseBatch, LeaveEngine
    <2>. QED
      BY <1>1, <2>1, <2>2, NextMade DEF MadeOnce, CreateBatch
  <1>2. ASSUME NEW w \in Worker, Made(w)' PROVE batch'[exec'[w].job] # "none"
    <2>1. CASE Made(w) /\ batch[exec[w].job] # "none"
      BY <1>1, <1>2, <2>1, BatchStays
    <2>2. CASE CreateBatch(w)
      BY <1>1, <1>2, <2>2 DEF CreateBatch, TypeInv, TypeOK
    <2>. QED
      BY <1>1, <1>2, <2>1, <2>2
  <1>3. ASSUME NEW v \in Worker, NEW w \in Worker, Made(v)', Made(w)',
               exec'[v].job = exec'[w].job
        PROVE  v = w
    <2>1. exec[v].job = exec[w].job
      BY <1>1, <1>3
    <2>2. CASE Made(v) /\ Made(w)
      BY <2>1, <2>2 DEF MadeOnce
    <2>3. CASE CreateBatch(v) /\ CreateBatch(w) /\ exec'[v].stage = "paging"
      BY <2>3 DEF CreateBatch, Advance, TypeInv, TypeOK
    <2>. QED
      BY <1>1, <1>3, <2>1, <2>2, <2>3
  <1>. QED
    BY <1>2, <1>3 DEF MadeOnce

\* A claim comes to its worker by _claim_next alone: who owns a row and goes on with
\* its job owned it already.
LEMMA OwnedBefore ==
  ASSUME TypeInv, Rows, Next, NEW w \in Worker, exec[w].stage # "idle",
         exec'[w].job = exec[w].job, exec'[w].attempt = exec[w].attempt, Owns(w)'
  PROVE  Owns(w)
  <1>1. PICK k \in JobId : k = exec[w].job /\ Moves(k)
    BY JobKept
  <1>2. jobs'[k].status \in Held /\ jobs'[k].worker = w /\ jobs'[k].attempt = exec[w].attempt
    BY <1>1 DEF Owns
  <1>3. CASE Untouched(k) \/ Toggled(k)
    BY <1>1, <1>2, <1>3 DEF Untouched, Toggled, Owns
  <1>4. CASE Ended(k) \/ Claimed(k)
    BY <1>2, <1>4 DEF Ended, Claimed, Held
  <1>5. ASSUME NEW v \in Worker, SettledBy(v, k) PROVE FALSE
    BY <1>2, <1>5 DEF SettledBy, Held
  <1>6. ASSUME NEW l \in Lock, RecoveredUnder(l, k) PROVE FALSE
    BY <1>2, <1>6, RecoveredRow DEF RecoveredUnder, Held
  <1>. QED
    BY <1>1, <1>3, <1>4, <1>5, <1>6 DEF Moves

\* Finish settles the row it finishes; recovery lets go of the rows it takes.
LEMMA FinishedIsLeft ==
  ASSUME TypeInv, NEW w \in Worker, NEW more \in BOOLEAN, Finish(w, more)
  PROVE  exec'[w].stage = "idle" /\ Owns(w) /\ exec[w].stage = "finishing"
  BY NoExecutionType DEF Finish, TypeInv, TypeOK

LEMMA RecoveredIsLeft ==
  ASSUME TypeInv, NEW w \in Worker, NEW l \in Lock, Recover(w, l),
         NEW k \in JobId, k \in Recoverable(l)
  PROVE  /\ jobs[k].status \in Held
         /\ jobs'[k].status \in {"queued", "paused", "failed"}
  BY RecoveredRow DEF Recover, Recoverable

LEMMA NextMadeAgrees ==
  ASSUME TypeInv, Rows, MadeOnce, MadeAgrees, Next
  PROVE  MadeAgrees'
  <1>. SUFFICES ASSUME NEW w \in Worker, Made(w)',
                       exec'[w].stage \in {"returned", "finishing"}, Owns(w)'
                PROVE  batch'[exec'[w].job] = exec'[w].result
    BY DEF MadeAgrees
  <1>1. PICK k \in JobId : k = exec[w].job /\ exec'[w].job = k
    BY NextMade DEF TypeInv, TypeOK, Execution
  <1>2. Owns(w) /\ jobs'[k].status \in Held
    BY <1>1, NextMade, OwnedBefore DEF Owns
  <1>3. CASE CloseBatch(w) /\ exec'[w].result = exec[w].result
    BY <1>1, <1>3 DEF CloseBatch, TypeInv, TypeOK
  <1>4. CASE LeaveEngine(w) /\ exec'[w].result = exec[w].result
    BY <1>1, <1>2, <1>4 DEF LeaveEngine, MadeAgrees, Made
  <1>5. CASE exec'[w] = exec[w] /\ Made(w)
    <2>1. batch[k] = exec[w].result /\ batch[k] # "none"
      BY <1>1, <1>2, <1>5 DEF MadeAgrees, MadeOnce
    <2>2. ASSUME NEW v \in Worker, CreateBatch(v), exec[v].job = k PROVE FALSE
      BY <2>1, <2>2 DEF CreateBatch
    <2>3. ASSUME NEW v \in Worker, CloseBatch(v), exec[v].job = k PROVE FALSE
      <3>1. v = w
        BY <1>1, <1>5, <2>3 DEF CloseBatch, Made, MadeOnce
      <3>. QED
        BY <1>5, <2>3, <3>1 DEF CloseBatch
    <2>4. ASSUME NEW v \in Worker, NEW more \in BOOLEAN, Finish(v, more), exec[v].job = k
          PROVE  FALSE
      <3>1. v = w
        BY <1>1, <1>2, <2>4 DEF Finish, Owns
      <3>. QED
        BY <2>4, <3>1, FinishedIsLeft
    <2>5. ASSUME NEW v \in Worker, NEW l \in Lock, Recover(v, l), k \in Recoverable(l)
          PROVE  FALSE
      BY <1>2, <2>5, RecoveredIsLeft DEF Held
    <2>6. batch'[k] = batch[k]
      BY <2>2, <2>3, <2>4, <2>5, NextBatch DEF BatchMoves
    <2>. QED
      BY <1>1, <1>5, <2>1, <2>6
  <1>. QED
    BY <1>3, <1>4, <1>5, NextMade DEF MakesMoves

\* A job succeeds in a Finish whose result was success over a batch.
LEMMA BecomesSuccess ==
  ASSUME TypeInv, Rows, Next, NEW k \in JobId,
         jobs'[k].status = "success", jobs[k].status # "success"
  PROVE  \E w \in Worker, more \in BOOLEAN :
           /\ Finish(w, more) /\ exec[w].job = k
           /\ LinkedResult(w) = "success" /\ exec[w].result = "success"
           /\ Made(w) /\ batch[k] # "none"
  <1>1. Moves(k)
    <2>1. k # nextId \/ InsertsNothing
      BY NextRows DEF InsertsAlone, InsertsAfter, Inserts
    <2>. QED
      BY <2>1, NextRows, UntouchedMoves DEF InsertsNothing, InsertsAlone, InsertsAfter, Moves
  <1>2. CASE Untouched(k) \/ Toggled(k) \/ Ended(k) \/ Claimed(k)
    BY <1>2 DEF Untouched, Toggled, Ended, Claimed, Held
  <1>3. ASSUME NEW w \in Worker, SettledBy(w, k)
        PROVE  \E more \in BOOLEAN :
                 /\ Finish(w, more) /\ exec[w].job = k
                 /\ LinkedResult(w) = "success" /\ exec[w].result = "success"
                 /\ Made(w) /\ batch[k] # "none"
    <2>1. PICK more \in BOOLEAN : Finish(w, more) /\ FinalStatus(w) = "success"
      BY <1>3 DEF SettledBy
    <2>2. LinkedResult(w) = "success"
      BY <2>1 DEF FinalStatus
    <2>3. exec[w].result = "success" /\ batch[exec[w].job] # "none"
      BY <2>2 DEF LinkedResult
    <2>. QED
      BY <1>3, <2>1, <2>2, <2>3 DEF SettledBy, Finish, Made
  <1>4. ASSUME NEW l \in Lock, RecoveredUnder(l, k) PROVE FALSE
    BY <1>4, RecoveredRow DEF RecoveredUnder
  <1>. QED
    BY <1>1, <1>2, <1>3, <1>4 DEF Moves

LEMMA NextBacked ==
  ASSUME BatchInv, Next
  PROVE  SuccessIsBacked' /\ SuccessUnmade'
  <1>. USE DEF BatchInv
  <1>. SUFFICES ASSUME NEW k \in JobId, jobs'[k].status = "success"
                PROVE  /\ batch'[k] = "success"
                       /\ \A w \in Worker : Made(w)' => exec'[w].job # k
    BY DEF SuccessIsBacked, SuccessUnmade
  <1>1. ASSUME NEW w \in Worker, Made(w)', exec'[w].job = k
        PROVE  /\ exec[w].job = k
               /\ Made(w) \/ batch[k] = "none"
    <2>1. MakesMoves(w) /\ exec[w].job = k
      BY <1>1, NextMade
    <2>. QED
      BY <2>1 DEF MakesMoves, Made, CreateBatch, CloseBatch, LeaveEngine
  <1>2. CASE jobs[k].status = "success"
    <2>1. batch[k] = "success" /\ \A w \in Worker : Made(w) => exec[w].job # k
      BY <1>2 DEF SuccessIsBacked, SuccessUnmade
    <2>2. ASSUME NEW w \in Worker, CloseBatch(w), exec[w].job = k PROVE FALSE
      BY <2>1, <2>2 DEF CloseBatch, Made
    <2>3. ASSUME NEW w \in Worker, NEW more \in BOOLEAN, Finish(w, more), exec[w].job = k
          PROVE  FALSE
      BY <1>2, <2>3 DEF Finish, Owns, Held
    <2>4. ASSUME NEW w \in Worker, NEW l \in Lock, Recover(w, l), k \in Recoverable(l)
          PROVE  FALSE
      BY <1>2, <2>4 DEF Recoverable, Held
    <2>5. batch'[k] = batch[k]
      BY <2>1, <2>2, <2>3, <2>4, NextBatch DEF BatchMoves, CreateBatch
    <2>. QED
      BY <1>1, <2>1, <2>5
  <1>3. CASE jobs[k].status # "success"
    <2>1. PICK w \in Worker, more \in BOOLEAN :
            /\ Finish(w, more) /\ exec[w].job = k
            /\ LinkedResult(w) = "success" /\ exec[w].result = "success"
            /\ Made(w) /\ batch[k] # "none"
      BY <1>3, BecomesSuccess
    <2>2. batch[k] = "success"
      BY <2>1 DEF Finish, MadeAgrees
    <2>3. batch' = batch
      BY <2>1 DEF Finish
    <2>4. ASSUME NEW v \in Worker, Made(v)', exec'[v].job = k PROVE FALSE
      <3>1. Made(v) /\ exec[v].job = k
        BY <1>1, <2>1, <2>4
      <3>2. v = w
        BY <2>1, <3>1 DEF MadeOnce
      <3>. QED
        BY <2>1, <2>4, <3>2, FinishedIsLeft DEF Made
    <2>. QED
      BY <2>2, <2>3, <2>4
  <1>. QED
    BY <1>2, <1>3

LEMMA NextBatchInv ==
  ASSUME BatchInv, [Next]_vars
  PROVE  BatchInv'
  <1>1. CASE UNCHANGED vars
    <2>1. TypeInv'
      BY NextTypeInv DEF BatchInv
    <2>. QED
      BY <1>1, <2>1 DEF vars, BatchInv, Rows, MadeOnce, MadeAgrees, SuccessUnmade,
                        SuccessIsBacked, Made, Owns
  <1>2. CASE Next
    BY <1>2, NextTypeInv, NextRowsKept, NextMadeOnce, NextMadeAgrees, NextBacked
    DEF BatchInv
  <1>. QED
    BY <1>1, <1>2

\* Even when named locks drop and zombies go on writing, a job ends in success only
\* over a batch that did, and no late close of a batch takes it back.
THEOREM SuccessBacked == Spec => []SuccessIsBacked
  <1>1. BatchInv => SuccessIsBacked
    BY DEF BatchInv
  <1>. QED
    BY <1>1, InitBatchInv, NextBatchInv, PTL DEF Spec

-----------------------------------------------------------------------------
(* Batches and jobs, while locks last.                                      *)

Early == {"claimed", "busy", "locked", "engine"}

\* A claim that has not come to its batch finds none.
Unmade ==
  \A w \in Worker : exec[w].stage \in Early /\ Owns(w) => batch[exec[w].job] = "none"

\* What the status of row j says of its batch.
Agrees(j) ==
  /\ jobs[j].status \in {"absent", "queued", "cancelled"} => batch[j] = "none"
  /\ jobs[j].status = "success" => batch[j] = "success"
  /\ jobs[j].status = "failed" => batch[j] \in {"none", "failed"}
  /\ jobs[j].status = "paused" => batch[j] \in {"none", "paused"}
  /\ jobs[j].status = "stopped" => batch[j] \in {"none", "success", "paused"}

AgreeInv == EngineInv /\ BatchInv /\ Unmade /\ \A j \in JobId : Agrees(j)

LEMMA AgreesWhole ==
  ASSUME \A j \in JobId : Agrees(j)
  PROVE  BatchAgrees
  BY DEF Agrees, BatchAgrees

LEMMA InitAgreeInv == Init => AgreeInv
  <1>. SUFFICES ASSUME Init PROVE Unmade /\ \A j \in JobId : Agrees(j)
    BY InitEngineInv, InitBatchInv DEF AgreeInv
  <1>1. \A w \in Worker : exec[w].stage = "idle"
    BY NoExecutionType DEF Init
  <1>2. \A j \in JobId : jobs[j].status = "absent" /\ batch[j] = "none"
    BY DEF Init, NoJob
  <1>. QED
    BY <1>1, <1>2 DEF Unmade, Early, Agrees

\* The engine writes to batches of rows that are held, and leaves the rows alone.
LEMMA EngineWrites ==
  ASSUME EngineInv, NEW w \in Worker, CreateBatch(w) \/ CloseBatch(w)
  PROVE  Owns(w) /\ jobs[exec[w].job].status \in Held /\ jobs' = jobs
  BY DEF CreateBatch, CloseBatch, EngineInv, ClaimHeld, InEngine, Owns

\* The batch of a row that nobody holds does not change.
LEMMA UnheldBatch ==
  ASSUME EngineInv, Next, NEW k \in JobId, jobs[k].status \notin Held
  PROVE  batch'[k] = batch[k]
  <1>1. ASSUME NEW w \in Worker, CreateBatch(w) \/ CloseBatch(w), exec[w].job = k
        PROVE  FALSE
    BY <1>1, EngineWrites
  <1>2. ASSUME NEW w \in Worker, NEW more \in BOOLEAN, Finish(w, more), exec[w].job = k
        PROVE  FALSE
    BY <1>2 DEF Finish, Owns
  <1>3. ASSUME NEW w \in Worker, NEW l \in Lock, Recover(w, l), k \in Recoverable(l)
        PROVE  FALSE
    BY <1>3 DEF Recoverable
  <1>. QED
    BY <1>1, <1>2, <1>3, NextBatch DEF BatchMoves, EngineInv

LEMMA SettledAgrees ==
  ASSUME AgreeInv, BatchInv', Next, NEW k \in JobId, NEW w \in Worker, SettledBy(w, k)
  PROVE  Agrees(k)'
  <1>. USE DEF AgreeInv, BatchInv
  <1>1. exec[w].job = k /\ Owns(w)
    BY DEF SettledBy
  <1>2. CASE RequeueLockBusy(w) /\ jobs'[k].status \in {"queued", "paused"}
    <2>1. batch'[k] = batch[k] /\ batch[k] = "none"
      BY <1>1, <1>2 DEF RequeueLockBusy, Unmade, Early
    <2>. QED
      BY <1>2, <2>1 DEF Agrees
  <1>3. ASSUME NEW more \in BOOLEAN, Finish(w, more), jobs'[k].status = FinalStatus(w)
        PROVE  Agrees(k)'
    <2>1. /\ exec[w].stage = "finishing"
          /\ FinalStatus(w) \in {"success", "failed", "paused", "stopped"}
          /\ k \in JobId
          /\ batch' = IF LinkedResult(w) = "failed" /\ batch[k] # "none"
                      THEN [batch EXCEPT ![k] = "failed"] ELSE batch
      BY <1>1, <1>3, FinalStatusType DEF Finish
    <2>2. CASE FinalStatus(w) = "success"
      <3>1. batch'[k] = "success"
        BY <1>3, <2>2 DEF SuccessIsBacked
      <3>. QED
        BY <1>3, <2>2, <3>1 DEF Agrees
    <2>3. CASE FinalStatus(w) = "failed"
      <3>1. LinkedResult(w) = "failed"
        BY <2>3 DEF FinalStatus
      <3>2. batch'[k] \in {"none", "failed"}
        BY <2>1, <3>1 DEF TypeInv, TypeOK
      <3>. QED
        BY <1>3, <2>3, <3>2 DEF Agrees
    <2>4. ASSUME LinkedResult(w) \in {"success", "paused"}
          PROVE  batch'[k] = LinkedResult(w)
      <3>1. exec[w].result = LinkedResult(w)
        BY <2>4 DEF LinkedResult
      <3>2. Made(w)
        BY <2>1, <2>4, <3>1 DEF Made
      <3>3. batch[k] = LinkedResult(w)
        BY <1>1, <2>1, <3>1, <3>2 DEF MadeAgrees
      <3>. QED
        BY <2>1, <2>4, <3>3
    <2>5. CASE FinalStatus(w) = "paused"
      <3>1. LinkedResult(w) = "paused"
        BY <2>5 DEF FinalStatus
      <3>. QED
        BY <1>3, <2>4, <2>5, <3>1 DEF Agrees
    <2>6. CASE FinalStatus(w) = "stopped"
      <3>1. LinkedResult(w) \in {"success", "paused"}
        BY <2>6, <2>1 DEF FinalStatus, LinkedResult, TypeInv, TypeOK, Execution
      <3>. QED
        BY <1>3, <2>4, <2>6, <3>1 DEF Agrees
    <2>. QED
      BY <2>1, <2>2, <2>3, <2>5, <2>6
  <1>. QED
    BY <1>2, <1>3 DEF SettledBy

LEMMA RecoveredAgrees ==
  ASSUME AgreeInv, NEW k \in JobId, NEW l \in Lock, RecoveredUnder(l, k)
  PROVE  Agrees(k)'
  <1>1. /\ jobs'[k] = Recovered(k)
        /\ batch'[k] = IF batch[k] # "none" THEN Recovered(k).status ELSE "none"
    BY DEF RecoveredUnder
  <1>2. Recovered(k).status \in {"queued", "paused", "failed"}
    BY RecoveredRow DEF AgreeInv, BatchInv
  <1>3. Recovered(k).status = "queued" => batch[k] = "none"
    <2>1. jobs[k] \in Job
      BY RowType DEF AgreeInv, BatchInv
    <2>. QED
      BY <2>1 DEF Recovered, Job
  <1>. QED
    BY <1>1, <1>2, <1>3 DEF Agrees

LEMMA NextAgrees ==
  ASSUME AgreeInv, BatchInv', Next, NEW k \in JobId
  PROVE  Agrees(k)'
  <1>. USE DEF AgreeInv, BatchInv
  <1>1. Agrees(k)
    OBVIOUS
  <1>2. jobs[k].status \notin Held => batch'[k] = batch[k]
    BY UnheldBatch
  <1>3. CASE jobs[k].status = "absent"
    <2>1. jobs'[k].status \in {"absent", "queued"}
      <3>1. ASSUME Moves(k) PROVE jobs'[k].status = "absent"
        BY <1>3, <3>1, MovesKeep
      <3>2. ASSUME NEW t, NEW task, InsertsAlone(t, task)
            PROVE  Moves(k) \/ jobs'[k].status = "queued"
        BY <3>2, UntouchedMoves DEF InsertsAlone, Inserts
      <3>3. ASSUME NEW w \in Worker, InsertsAfter(w)
            PROVE  Moves(k) \/ jobs'[k].status = "queued"
        BY <3>3, UntouchedMoves DEF InsertsAfter, Inserts, Moves
      <3>. QED
        BY <3>1, <3>2, <3>3, NextRows DEF InsertsNothing
    <2>2. batch'[k] = "none"
      BY <1>1, <1>2, <1>3 DEF Agrees, Held
    <2>. QED
      BY <2>1, <2>2 DEF Agrees
  <1>4. CASE jobs[k].status # "absent"
    <2>1. Moves(k)
      BY <1>4, ExistingMoves
    <2>2. CASE Untouched(k)
      BY <1>1, <1>2, <2>2 DEF Untouched, Agrees, Held
    <2>3. CASE Toggled(k) \/ Claimed(k)
      BY <2>3 DEF Toggled, Claimed, Agrees, Held
    <2>4. CASE Ended(k)
      BY <1>1, <1>2, <2>4 DEF Ended, Agrees, Held
    <2>. QED
      BY <2>1, <2>2, <2>3, <2>4, SettledAgrees, RecoveredAgrees DEF Moves
  <1>. QED
    BY <1>3, <1>4

\* Where a worker at the start of its claim comes from.
LEMMA NextEarly ==
  ASSUME TypeInv, Next, NEW w \in Worker, exec'[w].stage \in Early
  PROVE  \/ /\ exec[w].stage \in Early
            /\ exec'[w].job = exec[w].job /\ exec'[w].attempt = exec[w].attempt
         \/ \E j \in JobId : Claim(w, j) /\ exec'[w].job = j
  <1>. USE DEF TypeInv, TypeOK, Execution, Early
  <1>1. ExecMoves(w)
    BY NextExec
  <1>2. ASSUME Execute(w) PROVE exec[w].stage \in Early
    <2>1. CASE Abandon(w) \/ RequeueLockBusy(w) \/ FinishLost(w)
               \/ \E more \in BOOLEAN : Finish(w, more)
      BY <2>1, NoExecutionType DEF Abandon, Leave, RequeueLockBusy, FinishLost, Finish
    <2>2. CASE AcquireLock(w) \/ LockBusy(w) \/ EnterEngine(w)
      BY <2>2 DEF AcquireLock, LockBusy, EnterEngine
    <2>3. CASE CreateBatch(w) \/ CloseBatch(w) \/ LeaveEngine(w) \/ ExecutionError(w)
      BY <2>3 DEF CreateBatch, CloseBatch, LeaveEngine, ExecutionError, Advance
    <2>4. ASSUME NEW r \in {"success", "failed", "paused"}, EnginePages(w, r) PROVE FALSE
      BY <2>4 DEF EnginePages
    <2>. QED
      BY <1>2, <2>1, <2>2, <2>3, <2>4 DEF Execute, Engine
  <1>3. \/ exec'[w] = exec[w] \/ Execute(w) \/ Crash(w)
        \/ \E j \in JobId : Claim(w, j) /\ exec'[w].job = j
    <2>1. ASSUME NEW v \in Worker, NEW j \in JobId, Claim(v, j)
          PROVE  exec'[w] = exec[w] \/ (Claim(w, j) /\ exec'[w].job = j)
      BY <2>1 DEF Claim
    <2>2. ASSUME NEW v \in Worker, Execute(v), v # w PROVE exec'[w] = exec[w]
      BY <2>2 DEF Execute, Engine, Abandon, Leave, AcquireLock, LockBusy, EnterEngine,
         CreateBatch, EnginePages, CloseBatch, LeaveEngine, ExecutionError,
         RequeueLockBusy, Finish, FinishLost, Advance
    <2>3. ASSUME NEW v \in Worker, Crash(v), v # w PROVE exec'[w] = exec[w]
      BY <2>3 DEF Crash, Leave
    <2>4. exec' = exec \/ \E v \in Worker : \/ Execute(v) \/ Crash(v)
                                           \/ \E j \in JobId : Claim(v, j)
      BY DEF Next, Entry, Begin, Refuse, Create, CreateManual, CreateScheduled, Retry, RetryCaughtUp, Resume, Insert,
             Control, RequestPause, WithdrawPause, Stop, Cancel, Dismiss, Restore,
             ControlOnly, Recover, Environment, GoStale, HeartbeatThread, DropLock,
             CliTakes, CliReturns
    <2>. QED
      BY <2>1, <2>2, <2>3, <2>4
  <1>4. ~Crash(w)
    BY NoExecutionType DEF Crash, Leave
  <1>. QED
    BY <1>1, <1>2, <1>3, <1>4 DEF ExecMoves

LEMMA NextUnmade ==
  ASSUME AgreeInv, Next
  PROVE  Unmade'
  <1>. USE DEF AgreeInv, BatchInv
  <1>. SUFFICES ASSUME NEW w \in Worker, exec'[w].stage \in Early, Owns(w)'
                PROVE  batch'[exec'[w].job] = "none"
    BY DEF Unmade
  <1>1. ASSUME NEW j \in JobId, Claim(w, j), exec'[w].job = j
        PROVE  batch'[exec'[w].job] = "none"
    BY <1>1 DEF Claim, Agrees
  <1>2. ASSUME exec[w].stage \in Early,
               exec'[w].job = exec[w].job, exec'[w].attempt = exec[w].attempt
        PROVE  batch'[exec'[w].job] = "none"
    <2>1. PICK k \in JobId : k = exec[w].job
      BY DEF TypeInv, TypeOK, Execution
    <2>2. Owns(w)
      BY <1>2, OwnedBefore DEF Early
    <2>3. batch[k] = "none"
      BY <1>2, <2>1, <2>2 DEF Unmade
    <2>4. ASSUME NEW v \in Worker, CreateBatch(v), exec[v].job = k PROVE FALSE
      <3>1. v = w
        BY <2>1, <2>2, <2>4, EngineWrites DEF Owns
      <3>. QED
        BY <2>4, <3>1 DEF CreateBatch, Advance, TypeInv, TypeOK, Execution, Early
    <2>5. ASSUME NEW v \in Worker, CloseBatch(v), exec[v].job = k PROVE FALSE
      <3>1. v = w
        BY <2>1, <2>2, <2>5, EngineWrites DEF Owns
      <3>. QED
        BY <1>2, <2>5, <3>1 DEF CloseBatch, Early
    <2>. QED
      BY <1>2, <2>1, <2>3, <2>4, <2>5, NextBatch DEF BatchMoves
  <1>. QED
    BY <1>1, <1>2, NextEarly

LEMMA NextAgreeInv ==
  ASSUME AgreeInv, ~LocksDrop, [Next]_vars
  PROVE  AgreeInv'
  <1>1. EngineInv' /\ BatchInv'
    BY NextEngineInv, NextBatchInv DEF AgreeInv
  <1>2. CASE UNCHANGED vars
    BY <1>1, <1>2 DEF vars, AgreeInv, Unmade, Agrees, Owns
  <1>3. CASE Next
    BY <1>1, <1>3, NextUnmade, NextAgrees DEF AgreeInv
  <1>. QED
    BY <1>2, <1>3

\* While named locks last, every row and its batch tell the same story: a job that
\* waits has no batch, so recovery never runs again what has written data, and a job
\* that ended ended as its batch did.
THEOREM BatchesAgree == Spec => []BatchAgrees
  <1>1. CASE ~LocksDrop
    <2>1. AgreeInv /\ [Next]_vars => AgreeInv'
      BY <1>1, NextAgreeInv
    <2>2. AgreeInv => BatchAgrees
      BY AgreesWhole DEF AgreeInv
    <2>. QED
      BY <2>1, <2>2, InitAgreeInv, PTL DEF Spec
  <1>2. CASE LocksDrop
    <2>1. BatchAgrees
      BY <1>2 DEF BatchAgrees
    <2>. QED
      BY <2>1, PTL
  <1>. QED
    BY <1>1, <1>2

-----------------------------------------------------------------------------
(* Continuations.                                                           *)

\* What a retry or a resumption continues is an older row of the same task.
Parents ==
  \A i \in JobId : i < nextId /\ jobs[i].parent # 0 =>
    /\ jobs[i].parent \in JobId /\ jobs[i].parent < i
    /\ jobs[jobs[i].parent].task = jobs[i].task

\* Rows that continue the same row continue a failed one.
ChildOnce ==
  \A i, j \in JobId :
    i < nextId /\ j < nextId /\ i # j /\ jobs[i].parent = jobs[j].parent /\ jobs[i].parent # 0
      => jobs[jobs[i].parent].status = "failed"

ContinueInv == TypeInv /\ Rows /\ Parents /\ ChildOnce

LEMMA ChildOnceWhole == TypeInv /\ ChildOnce => ContinuedOnce
  <1>. SUFFICES ASSUME TypeInv, ChildOnce,
                       NEW i \in Existing, NEW j \in Existing, i # j,
                       jobs[i].parent = jobs[j].parent, jobs[i].parent # 0
                PROVE  jobs[jobs[i].parent].status = "failed"
    BY DEF ContinuedOnce
  <1>1. ASSUME NEW k \in Existing PROVE k \in JobId /\ k < nextId
    BY JobsAssumption DEF Existing, JobId, TypeInv, TypeOK
  <1>2. i \in JobId /\ i < nextId /\ j \in JobId /\ j < nextId
    BY <1>1
  <1>. QED
    BY <1>2 DEF ChildOnce

LEMMA InitContinueInv == Init => ContinueInv
  <1>. SUFFICES ASSUME Init PROVE Parents /\ ChildOnce
    BY InitTypeInv, InitRows DEF ContinueInv
  <1>1. nextId = 1 /\ \A j \in JobId : j \in Nat /\ j >= 1
    BY DEF Init, JobId
  <1>2. ~\E j \in JobId : j < nextId
    BY <1>1
  <1>. QED
    BY <1>2 DEF Parents, ChildOnce

LEMMA FailedStays ==
  ASSUME TypeInv, TypeInv', Rows, Next, NEW k \in JobId, jobs[k].status = "failed"
  PROVE  jobs'[k].status = "failed"
  <1>1. Same(k)
    BY FinalStays DEF Final
  <1>2. jobs[k] \in Job /\ jobs'[k] \in Job
    BY DEF TypeInv, TypeOK
  <1>3. /\ [jobs'[k] EXCEPT !.resolution = "none"].status = jobs'[k].status
        /\ [jobs[k] EXCEPT !.resolution = "none"].status = jobs[k].status
    BY <1>2 DEF Job
  <1>. QED
    BY <1>1, <1>3 DEF Same

\* The rows that exist keep their tasks and parents, and a new one continues nothing,
\* a failed row, or the newest row of its task.
NewContinues(p) ==
  \/ p = 0
  \/ /\ p \in JobId /\ p < nextId /\ jobs[p].task = jobs'[nextId].task
     /\ \/ jobs[p].status = "failed"
        \/ \A k \in JobId : k < nextId /\ k > p => jobs[k].task # jobs[p].task

LEMMA NextParents ==
  ASSUME TypeInv, Rows, Next
  PROVE  /\ \A k \in JobId : k < nextId => Kept(k)
         /\ \/ nextId' = nextId
            \/ /\ nextId \in JobId /\ nextId' = nextId + 1
               /\ NewContinues(jobs'[nextId].parent)
  <1>1. ASSUME NEW k \in JobId, k < nextId PROVE Kept(k)
    <2>1. Moves(k)
      BY <1>1, ExistingMoves DEF Rows, TypeInv, TypeOK, JobId
    <2>. QED
      BY <2>1, MovesKeep
  <1>2. ASSUME NEW s \in Session, NEW t \in Target, NEW task \in JobId,
               NEW p \in 0 .. MaxJobs, Insert(s, NewJob(t, task, p))
        PROVE  /\ nextId \in JobId /\ nextId' = nextId + 1
               /\ jobs'[nextId].parent = p /\ jobs'[nextId].task = task
    <2>1. nextId \in JobId /\ nextId' = nextId + 1
      BY <1>2, JobsAssumption DEF Insert, TypeInv, TypeOK, JobId
    <2>2. jobs'[nextId] = NewJob(t, task, p)
      BY <1>2, <2>1 DEF Insert, TypeInv, TypeOK
    <2>. QED
      BY <2>1, <2>2, NewJobType
  <1>3. ASSUME NEW s \in Session, NEW t \in Target, Create(s, t), InsertsAlone(t, nextId)
        PROVE  /\ nextId \in JobId /\ nextId' = nextId + 1
               /\ NewContinues(jobs'[nextId].parent)
    <2>1. nextId \in JobId /\ 0 \in 0 .. MaxJobs /\ Insert(s, NewJob(t, nextId, 0))
      BY <1>3, JobsAssumption DEF InsertsAlone, Inserts, Create, CreateManual, CreateScheduled
    <2>. QED
      BY <1>2, <2>1 DEF NewContinues
  <1>4. ASSUME NEW s \in Session, NEW j \in JobId, Retry(s, j) \/ Resume(s, j)
        PROVE  /\ nextId \in JobId /\ nextId' = nextId + 1
               /\ NewContinues(jobs'[nextId].parent)
    <2>1. Insert(s, NewJob(jobs[j].target, jobs[j].task, j))
      BY <1>4 DEF Retry, Resume
    <2>2. /\ nextId \in JobId /\ nextId' = nextId + 1
          /\ jobs'[nextId].parent = j /\ jobs'[nextId].task = jobs[j].task
      BY <1>2, <2>1, RowType
    <2>3. j < nextId
      BY <1>4, ContinuedExists
    <2>4. CASE Retry(s, j)
      BY <2>2, <2>3, <2>4 DEF NewContinues, Retry, Retryable
    <2>5. CASE Resume(s, j)
      <3>1. ASSUME NEW k \in JobId, k < nextId, k > j PROVE jobs[k].task # jobs[j].task
        BY <2>2, <2>5, <3>1 DEF Resume, IsCurrent, LatestIds, JobId
      <3>. QED
        BY <2>2, <2>3, <3>1 DEF NewContinues
    <2>. QED
      BY <1>4, <2>4, <2>5
  <1>5. ASSUME NEW w \in Worker, InsertsAfter(w)
        PROVE  /\ nextId \in JobId /\ nextId' = nextId + 1
               /\ NewContinues(jobs'[nextId].parent)
    BY <1>5 DEF InsertsAfter, Inserts, NewContinues
  <1>. QED
    BY <1>1, <1>3, <1>4, <1>5, NextRows DEF InsertsNothing

LEMMA NextContinueInv ==
  ASSUME ContinueInv, [Next]_vars
  PROVE  ContinueInv'
  <1>1. TypeInv'
    BY NextTypeInv DEF ContinueInv
  <1>2. CASE UNCHANGED vars
    BY <1>1, <1>2 DEF vars, ContinueInv, Rows, Parents, ChildOnce
  <1>3. ASSUME Next PROVE Parents' /\ ChildOnce'
    <2>1. /\ nextId \in Nat /\ \A j \in JobId : j \in Nat /\ j # 0
          /\ \A j \in JobId : j < nextId => Kept(j)
      BY <1>3, NextParents DEF ContinueInv, TypeInv, TypeOK, JobId
    <2>2. ASSUME NEW i \in JobId, i < nextId, jobs'[i].parent # 0
          PROVE  LET p == jobs'[i].parent IN
                 /\ p = jobs[i].parent /\ p \in JobId /\ p < i /\ p < nextId
                 /\ jobs'[p].task = jobs'[i].task
      BY <2>1, <2>2 DEF Kept, ContinueInv, Parents
    <2>3. ASSUME nextId \in JobId, NewContinues(jobs'[nextId].parent),
                 jobs'[nextId].parent # 0
          PROVE  LET p == jobs'[nextId].parent IN
                 /\ p \in JobId /\ p < nextId
                 /\ jobs'[p].task = jobs'[nextId].task
                 /\ \A i \in JobId : i < nextId /\ jobs'[i].parent = p =>
                      jobs[p].status = "failed"
      <3>. DEFINE p == jobs'[nextId].parent
      <3>1. p \in JobId /\ p < nextId /\ jobs[p].task = jobs'[nextId].task
        BY <2>3 DEF NewContinues
      <3>2. jobs'[p].task = jobs[p].task
        BY <2>1, <3>1 DEF Kept
      <3>3. ASSUME NEW i \in JobId, i < nextId, jobs'[i].parent = p
            PROVE  jobs[p].status = "failed"
        <4>1. jobs[i].parent = p /\ p < i /\ jobs[p].task = jobs[i].task
          <5>1. jobs[i].parent = p /\ p # 0
            BY <2>1, <2>3, <3>3 DEF Kept
          <5>. HIDE DEF p
          <5>. QED
            BY <3>3, <5>1 DEF ContinueInv, Parents
        <4>2. \/ jobs[p].status = "failed"
              \/ \A k \in JobId : k < nextId /\ k > p => jobs[k].task # jobs[p].task
          BY <2>3 DEF NewContinues
        <4>3. i > p
          BY <2>1, <3>1, <4>1
        <4>. QED
          BY <3>3, <4>1, <4>2, <4>3
      <3>. QED
        BY <3>1, <3>2, <3>3
    <2>4. Parents'
      <3>. SUFFICES ASSUME NEW i \in JobId, i < nextId', jobs'[i].parent # 0
                    PROVE  /\ jobs'[i].parent \in JobId /\ jobs'[i].parent < i
                           /\ jobs'[jobs'[i].parent].task = jobs'[i].task
        BY DEF Parents
      <3>1. CASE i < nextId
        BY <2>2, <3>1
      <3>2. CASE i >= nextId
        <4>1. i = nextId /\ NewContinues(jobs'[nextId].parent)
          BY <1>3, <2>1, <3>2, NextParents DEF ContinueInv
        <4>. QED
          BY <2>3, <4>1
      <3>. QED
        BY <2>1, <3>1, <3>2
    <2>5. ASSUME NEW p \in JobId, jobs[p].status = "failed"
          PROVE  jobs'[p].status = "failed"
      BY <1>1, <1>3, <2>5, FailedStays DEF ContinueInv
    <2>6. ASSUME NEW i \in JobId, NEW j \in JobId, i < j, j < nextId',
                 jobs'[i].parent = jobs'[j].parent, jobs'[i].parent # 0
          PROVE  jobs'[jobs'[i].parent].status = "failed"
      <3>1. CASE j < nextId
        <4>1. i < nextId
          BY <2>1, <2>6, <3>1
        <4>2. /\ jobs[i].parent = jobs'[i].parent /\ jobs[j].parent = jobs'[i].parent
              /\ jobs'[i].parent \in JobId
          BY <2>2, <2>6, <3>1, <4>1
        <4>3. jobs[jobs'[i].parent].status = "failed"
          <5>1. i # j /\ jobs[i].parent = jobs[j].parent /\ jobs[i].parent # 0
            BY <2>1, <2>6, <4>2
          <5>2. jobs[jobs[i].parent].status = "failed"
            BY <3>1, <4>1, <5>1 DEF ContinueInv, ChildOnce
          <5>. QED
            BY <4>2, <5>2
        <4>. QED
          BY <2>5, <4>2, <4>3
      <3>2. CASE j >= nextId
        <4>1. j = nextId /\ NewContinues(jobs'[nextId].parent)
          BY <1>3, <2>1, <2>6, <3>2, NextParents DEF ContinueInv
        <4>2. jobs'[i].parent \in JobId /\ jobs[jobs'[i].parent].status = "failed"
          BY <2>3, <2>6, <4>1
        <4>. QED
          BY <2>5, <4>2
      <3>. QED
        BY <2>1, <3>1, <3>2
    <2>7. ChildOnce'
      <3>. SUFFICES ASSUME NEW i \in JobId, NEW j \in JobId, i < nextId', j < nextId', i # j,
                           jobs'[i].parent = jobs'[j].parent, jobs'[i].parent # 0
                    PROVE  jobs'[jobs'[i].parent].status = "failed"
        BY DEF ChildOnce
      <3>1. i < j \/ j < i
        BY <2>1
      <3>. QED
        BY <2>6, <3>1
    <2>. QED
      BY <2>4, <2>7
  <1>. QED
    BY <1>1, <1>2, <1>3, NextRowsKept DEF ContinueInv

\* A paused execution is continued at most once, whatever snapshot the subquery of
\* _active_job_id reads: only failed ones may have several later executions.
THEOREM ContinuedOnlyOnce == Spec => []ContinuedOnce
  <1>1. ContinueInv => ContinuedOnce
    BY ChildOnceWhole DEF ContinueInv
  <1>. QED
    BY <1>1, InitContinueInv, NextContinueInv, PTL DEF Spec
=============================================================================
