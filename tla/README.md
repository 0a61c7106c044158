# SEEKWAY Data Hub: a TLA+ model

SEEKWAY Data Hub copies business data of Jijia accounts into MySQL.  Operators
create jobs in a web API, a Scheduler creates them on a clock, Workers run them
through the sync engine, one date window after the other, and a checkpoint per
(account, api) says how far the copy has come.  Accounts, configurations, users and
request slots are shared by all of them.  This directory holds the TLA+
modules that model those parts, the TLC runs that check them and the theorems
that TLAPS proves.  `PROJECT.json` maps every definition to the lines it stands
for; paths below are relative to the repository.

## 1. The system

### Components, their state and their operations

`S` is `src/backend/app/services`, `A` is `src/app`.

| component | state | operations |
|---|---|---|
| Job queue and control API (`S/sync_job_service.py`, `sync_job_factory.py`) | table `sync_job` | create (manual, scheduled), retry, resume, pause, withdraw pause, stop, cancel, dismiss, restore |
| Worker (`S/sync_worker.py`, `worker.py`) | the claim of a row (`worker_id`, `attempt_count`, `heartbeat_at`), a heartbeat thread | recover stale rows, claim, lock, run the engine, finish and chain, requeue on a busy lock, crash |
| Named lock (`A/sync_lock.py`) | MySQL `GET_LOCK`, global or one per account | take without waiting, release, vanish with its connection |
| Window planning, chaining, checkpoints (`S/sync_job_planning.py`, `A/sync_context.py`) | table `sync_checkpoint`: `history_backfill` and `update_incremental` | plan, preview, accept, commit, chain |
| Sync engine (`A/sync_engine.py`) | tables `sync_batch`, `raw_data` and friends | create batch, fetch pages and commit them, pause between pages, commit checkpoint, close batch |
| Scheduler (`S/scheduler.py`) | `account_api_policy.next_run_at` | find due policies, create a job or skip, move `next_run_at` |
| API policies and schedules (`S/api_policy_service.py`, `scheduled_plan_service.py`) | table `account_api_policy` | update one, update many, move a whole plan |
| API rate limiter (`A/api_rate_limiter.py`) | table `api_request_rate_limit` | take a slot, defer after a 429 |
| Jijia accounts (`S/jijia_account_service.py`) | table `jijia_account` | create, update, verify, deactivate |
| API config publication (`S/api_config_publish_service.py`) | tables of definitions, versions, publications | preview, publish, freeze a version in a job |
| Worker runtime registry (`S/worker_runtime_service.py`) | table `worker_runtime` | register, heartbeat, mark error, stop |
| Users, sessions, one-time tokens (`S/auth_service.py`) | `user`, `user_session`, `auth_action_token` | register, sign in, change and reset password, invite, resend, revoke |
| Command-line sync (`A/main.py`, `cli.py`) | none of its own | takes the same named lock and runs the engine |
| Discovery of a backfill's start (`A/sale_return_discovery.py`, `cli.py`) | the checkpoint of a backfill that has not begun | scan, bisect, confirm, save |
| Attribution of legacy rows (`S/legacy_sale_return_attribution_service.py`) | the rows of account 0 | plan, move, check, commit, answer |
| Read services, projection, migrations, frontend | none, or data only | see section 10 |

### How they interact

Everything shared lives in MySQL.  The Scheduler and the API handlers never talk
to a Worker: they write rows of `sync_job` that a Worker claims later, and the
control requests (pause, stop) are flags that the Worker reads when it next looks
at its row.  Three mechanisms keep them apart:

1. **The policy row.**  Whoever inserts a job locks the policy of its target
   first (`_load_eligible_target(lock_policy=True)`), then looks for an active job.
2. **The ownership fence.**  A Worker writes its row only while the row still
   carries its `worker_id` and `attempt_count` (`_owns_execution`).
3. **The named lock.**  The engine writes batches, pages and checkpoints in
   transactions that the fence does not cover; only the lock keeps a second Worker,
   recovery, or the command line away meanwhile.

### What makes it hard

* Workers die between any two transactions, or are declared dead and run on.
* Recovery, the heartbeat, the engine and the operator's requests interleave on
  one row; the batch and the checkpoint are committed apart from it.
* Attempts are counted by the claim, refunded on a busy lock, judged by recovery.
* A job is planned when it is queued and executed later: the checkpoint, the
  policy, the configuration or the calendar day may have moved.
* `REPEATABLE READ` snapshots are fixed before the lock that should order them.
* A backfill that runs for days is followed by the changes made meanwhile, from
  the day T0 it was planned on.
* The upstream is paged while it changes, and a page is a transaction of its own.
* A remote call (a verification, a mail, a request) lies between what a handler read
  and what it writes.

`PROJECT.json` lists every hazard at its line.

### What correctness means, per component

* **Job queue**: one active job per target; a live job is the newest of its task;
  a paused execution is continued once; a stop ends the task; final rows are
  evidence and do not change; a job in the queue can be claimed; every job ends.
* **Worker and lock**: one engine per lock; a claim is settled by its owner, or by
  recovery when stale; success only over a batch that succeeded.
* **Windows**: the checkpoint never passes a day that was not fetched; no change is
  lost between backfill and changes; the job that waits has the window that the
  engine will accept; a task that reports success has fetched its range.
* **Scheduler and policies**: a slot of a plan yields one job at most, and is not lost while its job has to wait;
  a policy that was disabled creates nothing.
* **Engine**: a success stands for every record the upstream had when the run began;
  the record count and the history agree with what is stored; every key of a
  parameter source gets its turn.
* **Rate limiter**: two slots of one API are `min_interval` apart, a cooldown is
  never shortened.
* **Discovery**: a saved start never hides a day that the scan found.
* **Accounts**: an account is active only with credentials that were verified.
* **Users and tokens**: a token is used once, and only the newest can be; no session
  outlives its password; somebody can always administer.
* **Publication**: what continues a job runs with the configuration the job froze.
* **Registry**: the row of a worker's name tells what its registered instance does.
* **Attribution**: the rows of account 0 move as a whole, and the answer says so.

## 2. Plan

The most important behaviour came first: the queue, then the windows, then what
feeds them, then what surrounds them.

| order | module | what | composed with |
|---|---|---|---|
| 1 | `SyncJobQueue` | rows, workers, recovery, locks, entries | refines `TargetSlot`, what the queue promises of a target |
| 2 | `SyncWindows` | windows and checkpoints of a target | `MCSyncWindows`: four settings in one run |
| 3 | `SchedulerSlots` | due policies, `next_run_at`, policy updates that race them | creates what 1 calls a scheduled job |
| 4 | `RateLimiter` | slots, cooldowns, tokens, retries of a call | what a request of 5 costs |
| 5 | `ApiSync`, `ParamSource` | pages, transactions, limits; parameters from stored rows | the fetch that 2 takes as one step |
| 6 | `BackfillStart` | the first day of a backfill | the checkpoint 2 begins with |
| 7 | `JobInputs` | credentials and configuration a job runs with | the eligibility that 1 takes as a refusal |
| 8 | `WorkerRuntime` | the registry, and claims under restarted workers | the heartbeat thread of 1 in detail |
| 9 | `Access` | users, sessions, one-time tokens, mail | alone |
| 10 | `LegacyAttribution` | moving the rows of account 0 | alone, beside a sync |

4 to 10 are instances in `MCServices`, see section 6.  A component's theorems are in the
module `<component>Proofs`, and what they say of the instances in `MCSyncWindowsProofs`
and `MCServicesProofs`; the latter also holds those of `RateLimiter`, `ParamSource`,
`JobInputs`, `BackfillStart` and `LegacyAttribution`.

Every safety property of the passing runs is a theorem.  What is left to model: the
projection of sale returns, and parameter sources of JSON arrays.

## 3. SyncJobQueue

One action is one transaction, or one call to the named lock.

| in the code | in the model |
|---|---|
| a row of `sync_job` | `jobs[id]`: target, task, status, worker, attempt, stop, resolution, parent |
| `task_no` | the id of the task's first execution |
| the unique `sync_batch` row of a job | `batch[id]` |
| `heartbeat_at < now - stale_after_seconds` | `id \in stale` |
| `GET_LOCK` | `holder[lock]` |
| the program counter of `run_once` | `exec[w].stage`: claimed, busy, locked, engine, paging, closing, returned, finishing |
| the read view of an entry's transaction | `session[s].snapshot` |

`Create`, `Retry`, `RetryCaughtUp`, `Resume` are the entries; `RequestPause`,
`WithdrawPause`, `Stop`, `Cancel`, `Dismiss`, `Restore` the control requests.
`Claim`, `AcquireLock` or `LockBusy`, `EnterEngine`, `CreateBatch`, `EnginePages`,
`CloseBatch`, `LeaveEngine`, `Finish` follow a Worker through `run_once`, with
`Abandon`, `ExecutionError`, `RequeueLockBusy`, `FinishLost`, `Crash` for the ways
out.  `Recover` is one lock's share of `recover_stale_jobs`.  `DropLock`,
`CliTakes`, `CliReturns`, `GoStale` are the environment.

What was abstracted, and why it is sound:

* Windows are data here: `Finish(w, more)` chains or not.  `SyncWindows` says when.
* Eligibility of a target is a refusal that may always happen (`Refuse`, or the
  action just does not fire), so every answer of the policy check is covered.
* `SKIP LOCKED` and `queued_at` order: any queued row may be claimed first.
* Recovery takes the lock, works and gives it back in one action.  What others
  would see meanwhile, a busy lock, arises from the `Cli` in `queue_fence`.
* The first heartbeat is folded into the claim.  `worker_id` is not cleared by
  `_finish`, as in the code.
* A Worker that restarts uses the same model value again; its old claims are told
  apart by the attempt, as `_owns_execution` does.
* `partial_failed` is a status that `CoreSyncExecutor` never returns, and rows
  without `api_code` are left by migrations: neither can be written by this code.
* A paused request on a job that dies before it has a batch is lost: the row is
  queued again.  The model has this because the code does.

### Runs

All runs bound the rows ever inserted (`MaxJobs`) and the attempts (`MaxAttempts`).
The system may stop when the rows are used up, so `CHECK_DEADLOCK FALSE`.

| run | instance | what it shows |
|---|---|---|
| `queue_one` | 1 worker, 1 target, 3 jobs, 1 attempt | `OneActivePerTarget`, `LiveIsCurrent`, `ContinuedOnce`, `StopEndsTask`, and the refinement of `TargetSlot` (`SlotSpec`): three jobs are the least that can retry, resume and chain in one task |
| `queue_fence` | 2 workers, 2 jobs, 2 attempts, the command line on the lock, locks vanish | `TypeOK`, `SuccessIsBacked`, `FinalRowsFrozen`, `SettledByOwner` with overtaken workers inside the engine; two attempts for refunds and requeueing |
| `queue_live` | 2 workers, 1 job, 2 attempts, snapshot reads, fairness | `EngineIsExclusive`, `BatchAgrees`, and `LiveJobsSettle` with crashes, pauses, requeueing and refunds; jobs meet only at their target and their lock, so one job against two workers has every way to hang |
| `queue_snapshot` | snapshot reads, 2 sessions | violates `OneActivePerTarget`, see section 9 |

`SYMMETRY` permutes the workers in safety runs only.

### Fairness

`Execute(w)` is weakly fair: a Worker that runs goes on to the end of `run_once`
(crashes remain possible at every step, and a crashed Worker polls again after its
restart).  A claim whose owner is gone goes stale, because time passes.  The
worker loop calls `recover_stale_jobs` and then claims; both are owed only while
the lock stays free, because the loop gives up a pass that meets a busy lock.
Nothing is assumed of the operators.  The command line, which may hold the lock
for ever, is switched off where liveness is checked.

### Proofs (`SyncJobQueueProofs`)

Proved for all targets, locks, workers, sessions, `MaxJobs` and `MaxAttempts`:

* `TypeCorrect`, from `TypeInv` = `TypeOK` and `HasResult`: past the pages an
  execution has a result, or `CloseBatch` could write "none".
* `QueuedClaimable`.  A refund undoes the worker's own claim, so the attempts fall
  below the limit; recovery requeues only below it.
* `OneActive` and `LiveCurrent`, if `SnapshotReads = FALSE`, from `SlotInv`:
  `TypeInv`, `Rows` (rows above `nextId` are absent, a task starts at its first
  id), `LiveIsCurrent` and `OneActivePerTarget`.  Neither is inductive alone: a
  retry may hide a live row only if that row is not in `ActiveSeen`, and
  `ActiveSeen` finds newest rows only, so it is complete just because live rows
  are newest.
* `SlotsImplemented`, if `SnapshotReads = FALSE`: initial states map to initial
  states, and every step to `Place`, `Vacate` or a stutter of `TargetSlot`.
* `EngineExclusive`, from `EngineInv`: `TypeInv`, `Rows`, `LockHeld` (from the lock
  to the return a worker holds its lock unless locks drop) and `ClaimHeld` (inside
  the engine the claim is its own), because recovery needs the free lock.
* `SettledOnlyByOwner`, an action property, from `TypeInv` alone: it is the fence,
  and holds when locks drop.
* `StopIsFinal` and `FinalIsFrozen`, action properties, from `TypeInv` and `Rows`: a new
  row takes an id above every row there is, so an insertion rewrites none.  Both hold
  when locks drop and with snapshot reads.
* `SuccessBacked`, locks or no locks, from `BatchInv`: one worker at most makes the
  batch of a job (`MadeOnce`); who made it and still owns the job knows what it says
  (`MadeAgrees`); and nobody who made it lags behind the job's success
  (`SuccessUnmade`), so no late close takes it back.
* `BatchesAgree`, while named locks last, from `AgreeInv`, which is `EngineInv` and
  `BatchInv` together with `Unmade`: before the engine a claimed job has no batch, so
  what recovery or a refund queues again has written nothing.
* `ContinuedOnlyOnce`, with snapshot reads too, from `ContinueInv`: `Parents` (a row
  continues an earlier one of its task) and `ChildOnce` (rows that continue the same row
  continue a failed one).  It needs nothing of `SlotInv`.

## 4. SyncWindows

One (account, api) with a date window, through any number of tasks.

| in the code | in the model |
|---|---|
| checkpoint `history_backfill` | `history`: next start, frozen end, T0 |
| checkpoint `update_incremental` | `update` |
| `request_params`, `window_*`, `task_*` of a job | `jobs[i]`, in the order of ids |
| an engine run | `exec[w]`, with the day it began to fetch |
| rows in the database | `fetched[kind][day]`: when the last complete fetch of that day began |
| the local date | `today` |

`CreateManual`, `CreateScheduled`, `CreateCustom`, `Retry`, `Resume` plan windows;
`Start`, `Commit`, `Finish` run them; `Lose` declares a worker dead; `Midnight`
passes a day.  The definitions `HistoryPlan`, `UpdatePlan`, `ClosedWindows`, `Accepts`
follow the functions of `sync_job_planning.py` and `sync_context.py`.

What was abstracted:

* `NoActiveJob` is a guard.  The queue module is what justifies it, up to the
  finding of section 9.
* Claims and requeueing before a batch are folded into `Start`: such a job is
  queued again exactly as it was.
* A partial fetch counts as nothing, which is conservative: pages may be committed
  without the window being complete.
* Commits of a checkpoint are not fenced by the claim, as in the code.
* Custom ranges are modelled for all shops.
* An api that is not read with `commit_per_page` does not refuse a window whose target
  the checkpoint has passed: it ends as a success without a request
  (`sync_engine.py:517-560`).  The model refuses it like the others.  `WaitingIsNext`
  says that nothing but an overtaken worker makes such a window, the checkpoints stay
  as they are either way, and no shipped configuration is read so.

| run | instance | what it shows |
|---|---|---|
| `windows`, setting "one" | update window, 4 days from the second one on, 4 jobs | the switch from backfill to changes |
| `windows`, setting "renewed" | no update window, custom ranges of a day or two next to the checkpoint, 3 jobs | renewed ends, ranges between them |
| `windows`, setting "ranges" | one custom range of up to 3 days, 4 jobs | ranges of several windows, the last one short, with every pause, failure, resumption and retry |
| `windows`, setting "overtaken" | 2 workers, 3 jobs, declared dead while they run | checkpoints that go back |
| `windows_shops` | manual tasks for some shops | violates `HistoryHasNoGap`, see section 9 |

`MCSyncWindows` puts the four settings, instances of `SyncWindows` (of
`SyncWindowsProofs`, so that its lemmas can be cited) with other constants, into one run,
which checks `HistoryHasNoGap`, `NothingMissed`,
`CustomFollowsPreview`, `NextIsWaiting`, `SuccessIsCovered` and
`CheckpointsOnlyAdvance`.  The bounds let a task chain through a whole window and a
short one, let the backfill reach its end and switch, and leave days for a renewal.
`InBounds` cuts "one" after two executions that did not succeed; "renewed" after its
second day, since a renewed end shows within two, which also keeps its custom ranges
within one window; and "overtaken" after its third, by which a checkpoint can go back
over a whole window.  "ranges" has the constants of "renewed" and no other task than one
custom range, asked for when all the days it may name are there: days 1 to 3 make a
window of two days and one of one, and four jobs let either be paused, fail and be
retried, the first one also after the chain has gone on to the second.

The last three properties are those of `SyncWindows` (`WaitingIsNext`,
`SuccessMeansCovered`, `CheckpointsAdvance`) outside of "overtaken": a worker that
was declared dead may really set a checkpoint back, which makes the engine refuse the
window that waits and costs fetches, but, as the other three show, no data.

`NothingMissed` depends on the lags of the configuration.  It holds with `Lag` at
most 1 and `UpdateLag` at least 1, as `config/api_config.example.yaml` has them.

### Proofs (`SyncWindowsProofs`)

* `TypeCorrect`, from `TypeInv` = `TypeOK` and `Watermark` (the checkpoint is
  within the days that exist).
* `HistoryComplete`, if no task is for some shops only: every day before the
  checkpoint was fetched, for every window length, lag, number of workers and
  days, locks or no locks.  `GapInv` adds `AllShops` and `WorkerCovered(w)`: what a
  worker is about to commit was fetched, and its window began at or below a
  covered point.  The checkpoint may go back: the days fetched stay.
* `ChangesCaptured`, if no task is for some shops only, `Lag <= 1` and
  `UpdateLag >= 1`, for any number of workers and lost claims.  The two bounds are the
  code's own premise, not the proof's: with a longer lag the days between the frozen end
  and T0 belong to neither the backfill nor the changes, and with an update window that
  does not lag the changes made after its fetch on the same day are lost.  The api that
  ships with an update window has 1 for both (`config/api_config.example.yaml:2609,
  2618`).  `SwitchInv` says of every planned window, every checkpoint and every worker
  about to commit what it stands for: up to which change date all is captured
  (`CapturedTo`), that a window of changes starts at a captured date (`PlanInv`), that a
  frozen end and its T0 are never more than a day apart, and that a fetch is not older
  than the day of its execution.
* `PreviewFollowed`, for every range and window length, from `CustomRows`: a row of a
  custom range holds the window at its index of `ClosedWindows` over the range of its
  task.  `ClosedWindows` is a function of the range, so its windows are computed, not
  unfolded.
* `NextWindowWaits` (`WaitingIsNext`) and `CheckpointsForward` (`CheckpointsAdvance`),
  if a lost claim stops its worker, from `AcceptInv`: `OwnInv` (one active job, and it
  is the newest of its task and the one its worker runs), `CheckInv` and `RowsInv` (what
  the checkpoints and the plans may be beside each other), `ActiveInv` (the active job's
  window is the one the engine will accept, or it is being committed) and `WorkInv`.
  These are the formulas that the run checks outside of "overtaken"
  (`NextIsWaiting`, `CheckpointsOnlyAdvance`).

* `SuccessCovered` (`SuccessMeansCovered`): a task that reports success has fetched all
  days of its range since it was created, whatever other tasks, retries and moves of the
  frozen end came in between.  `CoverInv` says of every row, by its index, which part of
  its task's range is behind it and by which fetches (`RowCover`): the days before its
  window by its own kind, the days a frozen end cut off by the changes, up to the update
  checkpoint; and that a row which succeeded has its window behind the checkpoint
  (`Passed`).  `CoverSetting` names the conditions: lost claims stop their workers
  (`~LocksDrop`), tasks ask for all shops (`~SomeShops`), and an api with an update window
  has `Lag <= 1` and `UpdateLag <= Lag`.  The shipped configuration has 1 for both.
  `UpdateLag <= Lag` is needed: with changes that lag behind the backfill (0 and 1) TLC
  finds a task that succeeds without its last day.  `Lag <= 1` is what the argument uses,
  as in `ChangesCaptured`; TLC found no counterexample with a lag of 2 on small instances.

`MCSyncWindowsProofs` brings the last three into the composition: `WaitingHolds`,
`CheckpointsStay` and `SuccessHolds` state `NextIsWaiting`, `CheckpointsOnlyAdvance` and
`SuccessIsCovered` of `MCSpec`.  `InstancesFit` shows that these settings are of the kind
the theorems are about.

## 5. SchedulerSlots

The plan of a policy, the Scheduler and the operators.

| in the code | in the model |
|---|---|
| `account_api_policy` | `policy[p]`: enabled, plan, next |
| `schedule_expr` | a plan that fires at `Offset + k * Every`: a daily time, or a cron expression of one period |
| `schedule_slot_key` | the pair of policy and slot in `slots` |
| the policies found by a scan, and its `current` | `pass[s]` |
| an ORM session of `update_account_policy` between its read and its flush | `edit[e]` |
| an active job of the target | `p \in active`, which `SyncJobQueue` explains |
| what `create_scheduled_job` refuses until somebody acts: `API_CONFIG_DISABLED`, `API_READ_ONLY_UNCONFIRMED`; `BACKFILL_CHECKPOINT_INVALID` | `obstacle[p]`: "api"; "window" |

`Scan` and `Handle` (`Enqueue`, `Consume`, `Blocked`, `Refused`, `Skip`, `Fail`) are a pass;
`ReadPolicy` and `WritePolicy` a PUT request, `UpdateBatch` a batch of them,
`SwitchAccount`, `Obstruct`, `OtherJob`, `JobEnds`, `Tick`, `Crash` the surroundings.
`Merged` is the UPDATE that SQLAlchemy emits: only the columns whose value differs
from the one that was read.  The order of a pass (by time, then id) is left open.
Window fields of a policy have one legal value and are left out.

An obstacle comes and goes as often as it likes: another configuration is published,
or somebody repairs the row.  The order of the checks is that of the code: an "api"
obstacle is met before the slot key is looked up, a "window" one only where a job would
be planned.  Either leaves the slot due, to be refused again at every poll.  `Fail` is
what remains, an error of the moment.  Edits are allowed whatever the obstacle is: of
the two reasons behind "api", only the disabled api makes an update refuse to enable.

| run | instance | what it shows |
|---|---|---|
| `sched_race` | 1 policy, 2 plans that share instants, 2 schedulers, 1 late editor | `SlotOnce`, `BlockedSlotIsKept`, `PlannedRuns` |
| `sched_live` | 2 policies, 1 plan, 1 scheduler, batch edits | `CatchUpOnce`, `NextOnPlan`, and `DueIsServed` under fairness |
| `sched_merge` | 1 late editor and batch edits | violates `PlannedRuns`, see section 9 |

Three instants (`MaxNow = 3`) let a slot be handled, brought back by a late write and
found again; two let an instant be missed.  Fairness: a scheduler goes on with its
pass and with polling, and an active job ends.  Errors of the moment, crashes and jobs
of others are bounded (`MaxFails`, `MaxOther`; in `sched_live` only scheduled jobs block
a target), obstacles are not.  What stays due for ever in the code, a slot whose job is
refused at every poll, stays due in the model: `DueIsServed` promises nothing for a
policy that an obstacle keeps coming back to, and for every other one that its due slot
is served, given up or edited.  A paused job blocks its target until its operator acts:
`JobEnds` stands for that too.

`PlannedRuns` in `sched_race` and `CatchUpOnce` need what their comments say: a late
write may skip instants of the new plan when its `next_run_at` happens to equal the
old one, because the column is then not written; `NextOnPlan` is therefore checked
with batch edits, which hold the row locks.

### Proofs (`SchedulerSlotsProofs`)

`NextRunLater` is the lemma everything rests on: for every period and offset, what
`_next_run_at` computes is an instant of the plan and later than its argument.

* `SlotsAreOnce` needs nothing else: the key is looked up in the transaction that
  inserts the job, and the policy lock orders the schedulers.
* `EnqueuesAreAllowed` needs that a pass works with a time behind the clock
  (`ScanIsPast`): a policy due at the scan and still due when locked is due now.
* `CatchUpIsOnce` is not inductive: two jobs are compared when the second is
  created, so the invariant must say what the first left behind.  `NextIsLater` does:
  the next run of a policy is later than every pass that created a job for it.
  Forwards and batches keep it, because both compute the next run from a time not
  behind those passes; a late write does not, hence `Editor = {}`.
* `NextIsOnPlan` (`Editor = {}`) follows from `NextRunLater` over the two ways a row
  changes (`RowsChange`).
* `PlansRun` assumes that requests neither overlap nor run in batches.  `EditFresh`
  says what an open request may still rely on: enabled and plan are as it read them,
  and the next run has not vanished; so a merge of columns gives what was meant.
  `sched_merge` shows that the assumption is needed.
* `BlockedStaysDue`, an action property, if edits do not run in batches (a batch may
  move a policy whose target is busy): only `Handle` moves the next run of a policy that
  no edit writes, and where the target is busy or the job is refused it does so only past
  a slot that has its job.
* `EnqueuedWhileAllowed` is stated by the theorem `EnqueuesAreAllowed` only.

## 6. The surroundings: MCServices

Seven modules and the rate limiter share no state in the code, and each needs a small
instance only.  `MCServices` checks them in one run, `services`: it EXTENDS
`RateLimiter`, INSTANCEs the others, and a variable `focus` says from the first state
on which of them a behaviour follows; what it does not follow keeps the value 0.
Properties are of the form `focus = "x" => X!Inv`.  `Symmetry` permutes `Actor`, the
callers, requests, engines, jobs or runs of the instance, of which none is named.

### RateLimiter (`api_rate_limiter.py`, `api_client.py`, `auth.py`, `retry.py`)

`next` is `next_allowed_at` of a row; a call is `ask`, `take`, `sent`, `told`, `defer`
in turn.  `ReadNow` is apart from `Take`, `Wait` and `Defer` because the transaction
reads the database clock before it waits for the row.  `slot` and `cool` remember what
was given and noted.  `SlotsAreSpaced`: no slot within the interval of an earlier one
nor before the end of a cooldown.  2 callers, 4 instants, 2 attempts, intervals 1 and 2,
a cooldown of 2: enough for a cooldown behind a slot, in front of one, and for a
transaction that works with an old time.

### ApiSync and ParamSource (`sync_engine.py`, `raw_json_param_source.py`)

One API copied by one call of the engine: `Begin`, then `Answer`, `LookUp`, `Write`,
`NextPage` for each page, then `Succeed` or `Truncated`, `LogFailure`, `Close`.  A page
is its own transaction (`commit = "pages"`) or a part of the one of the API (`tx`).  The
upstream list changes under it: `Appear`, `Touch`, `Vanish`.  Faults: a request that
fails, a connection lost before or after the commit, a lost answer of the last commit, a
death.  `VouchedIsStored`: a success and its checkpoint stand for every record of the
list at the beginning of the run, in that version or a newer one.  `StoreAgrees`: the
count counts the stored records, and a history keeps every snapshot.  Six settings cover
history and snapshots, totals and short pages, page limits that suffice or do not, and
an unpaged API; 3 records on pages of 2, 1 change, 2 runs (which overlap in the
setting whose worker was declared dead).

`ParamSource` chooses the keys an API asks for: by `offset`, by `missing` rows, or by
`refresh`ed ones.  `EveryKeyGetsItsTurn` bounds the wait of a key by the number of keys,
in successful runs, for keys that do not arrive in front of the offset, or of a key that
is being asked for.  3 keys, 2 per
run, 5 runs; fewer keys without an answer than the limit.

### BackfillStart (`sale_return_discovery.py`, `cli.py`)

A scan in coarse windows, a bisection, a confirmation, and the save, each request a
step, beside the plan, start and commit of a job.  `NothingSkipped`: of the days the
saved scan was to find none is behind the checkpoint without having been fetched.
Checked with `BesideJobs = FALSE`; `backfill_race` shows what happens otherwise.
4 days, windows of 3 to scan and 2 to fetch, a floor on day 2, 1 change.

### JobInputs (`jijia_account_service.py`, `api_config_publish_service.py`)

What a job runs with.  A request reads the account (`Open`) and writes later, and only
the columns that differ from what it read (`Status`).  `ActiveIsVerified`: an account is
active only with verified credentials.  `RunsAgree`: a job runs with verified
credentials, and what continues it with the same configuration.  Checked with `Overlap =
FALSE`; `account_race` shows what happens otherwise.

### WorkerRuntime (`worker_runtime_service.py`, `sync_worker.py`)

Two starts of one worker name, two jobs, two attempts, heartbeat threads that outlive
their execution, no named lock.  `RowsTellTheTruth`: the registry shows the job that the
registered instance runs, and none while it looks for the next, whatever an older
instance and late heartbeats try to write.

### Access (`auth_service.py`, `api/deps.py`, `api/v1/auth.py`, `users.py`, `invitations.py`)

A handler that locks the user row first is one action; a handler that mails is two, with
the lock held between (`pending`); a request with a session reads it in advance
(`request`).  `LiveIsNewest`, `LiveSessionsAreCurrent`, `AdminRemains`,
`UsedBeforeSuccessor`, `ActivityAdvances` state what the code of each is about.
2 users, 3 tokens, 2 sessions, 2 passwords.

### LegacyAttribution (`legacy_sale_return_attribution_service.py`)

Two runs of the command, one legacy batch, and a sync of the target account beside them
(its lock does not exclude the command).  `MovedWhole`: rows, history, logs and
checkpoint move together; snapshots keep their history; who is told of a success has it,
and who is not is told to restore.

### Stories

The states of `Access` and `JobInputs` would not fit the run as products, so the
constraint `InStory` follows them inside one of several stories: tokens resent, revoked,
used and lost; two administrators; failed logins around registration and reset; the
clock over one session; operators on one account; jobs, publications and one operator.
What a story bounds grows, or is opened and undone by steps of its own, so that what
a story can do is reached through states inside it.  Not covered are behaviours that
need two stories, say a lock-out in the middle of two administrators' race: their
actions touch different columns of a row.

### Proofs (`MCServicesProofs`, `AccessProofs`, `ApiSyncProofs`, `WorkerRuntimeProofs`)

`SlotsSpaced` of `RateLimiter`, for every number of callers, pace and cooldown.  It rests
on `RateInv`: `LimiterTypes`, `ReadBefore` (a time that was read lies in the past) and
`RowRemembers` (the row is never before the end of a slot given or of a cooldown
noted).  The row alone decides who sends, so `RowRemembers` is what makes an old time
harmless: a slot is taken only if the row is due at the time that was read, and the row
moves from there.

`AccessProofs`, for any users, requests, tokens, sessions and passwords, rests on one
inductive invariant, `IInv`:

* `TokenInv`: tokens that are stored were issued before (`IssuedFirst`), one that is
  being mailed is newer than every other of its user, and what can still be used,
  expired or not, is the newest of its kind (`OutstandingIsNewest`).  `LiveIsNewest`
  alone is not inductive: a mail commits its token later than it numbered it.
* `SessionInv`: `CreatedOnce` (nobody else enters a user whose invitation is being
  mailed) and `SessionsCurrent` (a session that is not revoked has the password and the
  active status of its user, whether or not its time is over).
* `ClockInv`: a session idles when its last activity says, and what a request read of a
  session's absolute end is still true.

`AdminStays`, `SuccessorBars` and `ActivityForward` are action properties that follow
from it step by step: an administrator is taken away only under all administrators' locks;
a mail holds the user's lock until its token is stored; an activity is written only if
it is newer.

`ApiSyncProofs`, for any set of records and list of them, page size, engines, changes and
runs: `TypeCorrect`, `VouchedStored`, `StoreRight`.  Neither property is inductive: what a
success will vouch for is spread over a list that changes, a page in memory, an open
transaction and the tables.  `IInv` says of each run and of the store it works on (`Seen`,
its transaction or the tables):

* `StoreOk`: no snapshot is newer than its record, the count is right, a history holds
  every snapshot, for the tables and for what an open transaction would make of them.
* `WriteOk`: the page in hand has one version of a record, not older than the one stored,
  and the records it looked up are still those that are stored, or the count would drift.
* `WalkOk`: how many records a run can have got by page n, and how long the list was.  It
  is what makes the end of the pages mean the end of the list: a run is done when it got
  as many records as the list had, or when a page came back short.
* `CoverOk`: a record the run began with is stored, or on the page in hand, or on a place
  of the list behind it.  `Touch` moves nothing and `Appear` moves the others back, so they
  keep it (a record that moves to the front is no longer one the run began with); a record
  that vanishes moves those behind it forward, and marks the run (`shifted`).

`Bounds` names what that needs of the settings: runs overlap only where a page is a
transaction and a history is kept (an API of snapshots may store an older version over a
newer one, section 8); short pages mean the end only if the upstream serves full ones and
no page limit ends the run before the list (with `stop_on_short_page` neither the
capacity nor the truncation check applies).  `SyncBounds` shows that the six settings of
`MCServices` are of this kind.

`ParamSource`, for every finite set of more than one key, every limit of more than one and
any number of runs (`KeysAreServed`).  The bound on the wait is not inductive; what is, is
that every wait has moved something on:

* `OffsetOk` (mode "offset"): the offset is not past a key that waits, and a run that
  passes it over asks for a full page in front of it, so from its second wait on a key
  saw the offset move by the limit each time: `2 * (waits - 1) <= offset <= Rank(k)`.
* `PassedOver` (the scans): a run that passes over a key that was never asked for asks for
  a full page of keys that are not stored either, since the order puts those first
  (`FrontIsNew`); fewer of them are hollow than the limit, so at least one is stored, and
  all if the waiting key alone is hollow: `waits - 1`, or twice that, is at most the
  number of stored keys, to which the key itself and the hollow ones do not belong.

`Pages` is the lemma both rest on: the positions of a finite ordered set fill an interval,
so a page from a position on is full if somebody is behind it.  The first wait is free: a
key may arrive while a run is under way that found nothing to ask for.  That is why a
single key, or a limit of one, may wait once more than there are keys.

`JobInputs`, if requests of operators do not overlap (`Overlap = FALSE`; `account_race` is
what happens otherwise): `AnswersProven` (an answer that accepts was
given for the credentials its request holds) makes `ActiveIsVerified` inductive, and
`JobsOk` follows a chain of executions: each has the snapshot of the one it continues and
ran, if it ran, with it, under credentials that were proven then.

`WorkerRuntimeProofs`: `ClaimsAreHeld` (a running job is the execution of the instance
that claimed it, or of one that is gone, and the heartbeat threads of a gone instance are
gone) makes `RowsTellTheTruth` inductive: who writes a row without being its instance,
or about an execution that is over, finds no row to write.

`BackfillStart`, for any calendar, floor, window sizes, scans and changes (`NothingLeftBehind`),
rests on `BackfillInv`: a scan has passed none of the days that had data all along (`ScanOk`:
they lie between its cursor or its lower end and the end of its range, and have data still,
so a probe that finds nothing proves that none of them is in it, a bisected prefix
included), and a job that runs began at the checkpoint, which is never below its lower
bound (`JobOk`).  `BesideJobs = FALSE` is used in one place: `Save` leaves the checkpoint of a
running job alone.  A job that was planned before the save is harmless, because `StartsAt`
compares its window with the checkpoint when it starts.

`LegacyAttribution`, for any runs, batches and contents (`MovedAsWhole`), rests on
`AttributionInv`: who is between the lock and its release holds it (`HoldsLock`), so what a run
found of account 0 is still there when it commits (`PlansHold`); what belongs to the sync's
batch is the target's (`NewRows`), so no batch of the plan is the sync's; and what a run
has said agrees with what it did, at every step (`Told`).  `AfterOk` is the move itself: from
tables that agree, and the rows the plan found, it makes tables that agree.

Each names in `Bounds` what it needs of the constants; TLC checked each `IInv` on the
instance of the run before it was proved.

`AllTyped` states the types of all modules (`TypesOK`).  `BackfillDays` strengthens
`BackfillInv` for it: scans, jobs and the checkpoint stay within the calendar, if it has a
day and the configured start lies in it or behind its end (`Calendar`).

`MCServices` takes `AccessProofs`, `ApiSyncProofs` and `WorkerRuntimeProofs` as its
instances `Users`, `Sync` and `Registry` instead of the bare modules, so that
`MCServicesProofs` can cite their lemmas: its theorems are about `MCSpec` and the
properties of the run, with the constants `MCServices` gives, but for any actors, any
clock and any of the constants it leaves to its configuration, and without the constraint
`InStory`: the stories bound what TLC visits, the theorems do not.

## 7. What is proved and what is only checked

Proved: the theorems of sections 3 to 6, under the assumptions named in the modules
(`JobsAssumption`, `TargetAssumption`, `WorkerAssumption`, `ModeAssumption`,
`DaysAssumption`, `SwitchAssumption`, `PolicyAssumption`, `PlanAssumption`,
`PaceAssumption`, `ScanAssumption`, `InputsAssumption`, `ParamsAssumption`,
`BatchesAssumption`; `Bounds` of the modules that are instances) and, where a theorem
restricts a constant (`SnapshotReads`, `LocksDrop`, `Batches`, `Editor`, `SomeShops`,
`Lag`, `UpdateLag`, `Limit`...), under what its ASSUME says.  Each restriction is either the switch
of a disagreement of section 9, or one whose loss the run beside it shows.

Only model-checked: `LiveJobsSettle` and `DueIsServed`, since liveness under fairness is
beyond the prover, and the five disagreements of section 9, which are counterexamples.

## 8. Observations

Behaviour met while modelling that no run refutes, because nobody promises otherwise.

Queue and windows:

* `task_status` of a task stays "in progress" when chaining is refused because the
  policy was disabled, or a retry went on with the old `window_index`.
* A history task planned a day later than the one whose retry froze the end gets, when
  it is retried itself, a window of changes for its last days: it reports success with
  those days fetched as change dates only.
* The engine's acceptance of a window is a second line of defence:
  `HistoryHasNoGap` and `NothingMissed` hold without it in these runs.
* A `pause_requested` job without a batch is requeued by recovery.

Engine:

* A record that is deleted upstream, or moves to the end, while pages are read shifts
  those behind it past the next page: they are missed without an error.  `Vanish` marks
  such runs, and `VouchedIsStored` does not hold for them.
* With `stop_on_short_page` neither the capacity nor the truncation check applies, so a
  page limit ends the run as a success.
* An API of snapshots may store an older version over a newer one when runs overlap.
* A lost answer of the commit leaves a success and a failure in the log of one API.
* A record that the primary-key filter drops is missing from the count of a paged API
  with a total, which then fails in every run.
* Keys that arrive in front of an offset are skipped.  As many keys without an answer as
  the limit starve all later ones in the mode "missing"; a key that always fails blocks
  those behind it; without `auto_advance` every run asks for the same keys.
* An API defers on 429 and 509, the token endpoint on 429 only.  Nothing bounds a
  Retry-After from above, and nothing orders the callers that wait: one may starve.

Discovery, accounts, configuration:

* A start before `default_start` makes planning refuse (BACKFILL_CHECKPOINT_INVALID)
  until somebody corrects the row.  A later, narrower scan may raise the start.
* The verification compares status and credentials, not a version: a status that changed
  twice goes unseen.
* A retry keeps the end of the old window and takes the new configuration: after
  `date_window.days` was changed such a retry is refused until the checkpoint moves.
* Default policies are created for the APIs published at that moment; a publication at
  the same time may leave an account without one.

Registry:

* The row of a worker that lost its claim says "running" until its next idle heartbeat.
* `_heartbeat_loop` catches the loss of ownership only; any other error ends the thread
  silently, and the job becomes stale under a running worker.

Users:

* `change_password` compares with a copy of the user read earlier, so of two changes at
  the same time, both with the old password, both succeed.
* `update_user` writes the columns that differ from such a copy; it may also activate an
  invited user without a password, who then counts as an administrator that remains.
* Registration clears the failure count, not the lock; the end of a lock keeps the count.
* The bootstrap of an administrator checks and creates without a lock, and an invitation
  it left blocks a second one.

Attribution:

* After a committed move a lock or connection that cannot be released is reported as an
  error with `restoreRequired` false although the rows moved.
* A legacy batch whose process died stays "running" and blocks the move.
* The proof of `MovedAsWhole` never uses the postflight checks: the lock, the plan's checks
  of its batches and account 0 having no other writer suffice.  They are a second line
  of defence.
* The statistics and the projection of the rows are not moved.

## 9. Disagreements between the code and what is said of it

* `queue_snapshot`: the docstring of `_active_job_id` promises a locking read, but
  the nested subquery is a consistent read of a snapshot fixed before the policy
  lock.  Two entries can both create an active job.
* `windows_shops`: a manual task that continues the checkpoint for some shops
  advances the checkpoint of the whole account, and the other shops' days are
  never fetched.
* `sched_merge`: `update_account_policy` promises to compute the next run again, but
  merges its changed columns into whatever was committed since its unlocked read: an
  enabled plan may be left without a next run, and never runs.
* `backfill_race`: `_save_discovered_backfill_start` speaks of a backfill that has not
  begun, but takes the checkpoint of one whose first job runs: that job's commit moves
  it behind days the scan found.
* `account_race`: `update_account` promises a new verification of new credentials, but
  an account read as pending gets no status written: a verification of the old
  credentials that commits meanwhile leaves it active with the new ones.

## 10. Not modelled

* Read services, catalog and plan views, previews, the dashboard: SELECTs only.
* Projection of sale returns, parsing of configuration and documentation: rows or files
  go in and come out, no state is shared.
* Migrations 0003 and 0007 and the preflight checks: they inspect a schema while the
  services are stopped.
* The frontend: a client without a state of the system.
* Of modelled components: CSRF tokens, cleaning of old sessions, creation of an account
  with its default policies; request building and field extraction, JSON-array
  parameter sources, the date windows of an API with a parameter source, `mock_sync` and
  probes; the token cache file of the command line.
* Row-lock deadlocks (`_finish` against `retry_job`): MySQL rolls one transaction back,
  which is a refused entry or a worker that dies, both steps of `SyncJobQueue`.
