--------------------------- MODULE SchedulerSlots ---------------------------
(***************************************************************************)
(* The plan of an (account, api) policy and the Scheduler that turns it     *)
(* into jobs (backend/app/services/scheduler.py, create_scheduled_job),     *)
(* raced by the operators who edit policies (api_policy_service.py) and     *)
(* deactivate accounts.                                                     *)
(*                                                                         *)
(* A plan fires at the instants Offset + k * Every: a daily time, or a cron *)
(* expression of one period.  A slot is the next_run_at a job was created   *)
(* for.  Jobs are what SyncJobQueue makes of them; here a policy just has,  *)
(* or has not, an active job.                                               *)
(***************************************************************************)
EXTENDS Naturals, FiniteSets

CONSTANTS
  Policy,
  Account,
  AccountOf,   \* the account of a policy
  Plan,        \* schedule expressions
  Manual,      \* schedule_mode manual_only
  Every,       \* period of a plan
  Offset,      \* first instant of a plan
  None,        \* NULL in next_run_at
  Scheduler,   \* scheduler processes: one, or two while one replaces the other
  Editor,      \* PUT requests for one policy open at a time
  Batches,     \* TRUE: policies are also updated in batches
  MaxNow,      \* bound: the last instant
  MaxOther,    \* bound: jobs that others create
  MaxFails     \* bound: errors while handling a policy, and crashes

ASSUME PolicyAssumption == AccountOf \in [Policy -> Account]
ASSUME PlanAssumption ==
  /\ Every \in [Plan -> Nat \ {0}]
  /\ Offset \in [Plan -> Nat]
  /\ Manual \notin Plan
  /\ None \notin Nat
ASSUME BoundAssumption == {MaxNow, MaxOther, MaxFails} \subseteq Nat /\ Batches \in BOOLEAN

VARIABLES
  now,       \* the clock
  policy,    \* the account_api_policy rows
  account,   \* status of each account
  obstacle,  \* why no job of a policy can be planned, until somebody sees to it
  active,    \* policies whose target has an active job
  slots,     \* scheduled jobs: policy, slot, and the time of the pass
  pass,      \* what a scheduler has still to handle, and the time it scanned at
  edit,      \* PUT requests between their read and their write
  others,    \* jobs created by others so far
  fails      \* errors and crashes so far

vars == <<now, policy, account, obstacle, active, slots, pass, edit, others, fails>>

Row == [enabled : BOOLEAN, plan : Plan \cup {Manual}, next : Nat \cup {None}]

\* "api": the platform has disabled the api, or it is not verified as read-only;
\* "window": the checkpoint is not one the configured window can be planned from.
Obstacle == {"none", "api", "window"}

NoEdit == [open |-> FALSE]

\* _next_run_at: the first instant of the plan after t.
NextRun(p, t) ==
  IF p = Manual THEN None
  ELSE IF t < Offset[p] THEN Offset[p]
  ELSE Offset[p] + ((t - Offset[p]) \div Every[p] + 1) * Every[p]

\* build_default_policy: off, and run by hand.
Init ==
  /\ now = 0
  /\ policy = [p \in Policy |-> [enabled |-> FALSE, plan |-> Manual, next |-> None]]
  /\ account = [a \in Account |-> "active"]
  /\ obstacle = [p \in Policy |-> "none"]
  /\ active = {}
  /\ slots = {}
  /\ pass = [s \in Scheduler |-> [at |-> 0, due |-> {}]]
  /\ edit = [e \in Editor |-> NoEdit]
  /\ others = 0
  /\ fails = 0

-----------------------------------------------------------------------------
(* The Scheduler.                                                          *)

Due(p, t) ==
  /\ policy[p].enabled /\ policy[p].plan # Manual
  /\ policy[p].next # None /\ policy[p].next <= t
  /\ account[AccountOf[p]] = "active"

\* enqueue_due_jobs: the due policies, in a transaction of their own.
Scan(s) ==
  /\ pass[s].due = {}
  /\ pass' = [pass EXCEPT ![s] = [at |-> now, due |-> {p \in Policy : Due(p, now)}]]
  /\ UNCHANGED <<now, policy, account, obstacle, active, slots, edit, others, fails>>

Existing(p) == \E j \in slots : j.policy = p /\ j.slot = policy[p].next

Handled(s, p) == pass' = [pass EXCEPT ![s].due = @ \ {p}]

\* A slip: only the slot itself is passed, the missed ones are worked off.
ForwardOne(s, p) ==
  policy' = [policy EXCEPT ![p].next = NextRun(policy[p].plan, policy[p].next)]

Forward(s, p) ==
  policy' = [policy EXCEPT ![p].next = NextRun(policy[p].plan, pass[s].at)]

\* A slip: the scan is trusted, the policy is not read again.
StillDueScanned(s, p) == p \in pass[s].due /\ policy[p].next # None

\* _enqueue_policy: the policy, read again and locked, must still be due.
StillDue(s, p) == p \in pass[s].due /\ Due(p, pass[s].at)

\* A slip: the slot key is not looked up.
EnqueueAgain(s, p) ==
  /\ StillDue(s, p)
  /\ p \notin active
  /\ obstacle[p] = "none"
  /\ slots' = slots \cup {[policy |-> p, slot |-> policy[p].next, at |-> pass[s].at]}
  /\ active' = active \cup {p}
  /\ Forward(s, p)
  /\ Handled(s, p)
  /\ UNCHANGED <<now, account, obstacle, edit, others, fails>>

\* create_scheduled_job created the job of the slot.
Enqueue(s, p) ==
  /\ StillDue(s, p)
  /\ ~Existing(p)
  /\ p \notin active
  /\ obstacle[p] = "none"
  /\ slots' = slots \cup {[policy |-> p, slot |-> policy[p].next, at |-> pass[s].at]}
  /\ active' = active \cup {p}
  /\ Forward(s, p)
  /\ Handled(s, p)
  /\ UNCHANGED <<now, account, obstacle, edit, others, fails>>

\* The slot has its job already.
SlotHasJob(p) == obstacle[p] # "api" /\ Existing(p)

\* There is no window left to fetch (INCREMENTAL_CAUGHT_UP, HISTORY_CAUGHT_UP).
MayBeCaughtUp(p) == obstacle[p] = "none" /\ ~Existing(p) /\ p \notin active

\* A slip: a slot without a window is handled, but not passed.
ConsumeKeeps(s, p) ==
  /\ StillDue(s, p)
  /\ SlotHasJob(p) \/ MayBeCaughtUp(p)
  /\ IF SlotHasJob(p) THEN Forward(s, p) ELSE UNCHANGED policy
  /\ Handled(s, p)
  /\ UNCHANGED <<now, account, obstacle, active, slots, edit, others, fails>>

\* Either way the slot is done with.
Consume(s, p) ==
  /\ StillDue(s, p)
  /\ SlotHasJob(p) \/ MayBeCaughtUp(p)
  /\ Forward(s, p)
  /\ Handled(s, p)
  /\ UNCHANGED <<now, account, obstacle, active, slots, edit, others, fails>>

\* A slip: a blocked slot is passed over.
BlockedForward(s, p) ==
  /\ StillDue(s, p)
  /\ obstacle[p] # "api"
  /\ ~Existing(p) /\ p \in active
  /\ Forward(s, p)
  /\ Handled(s, p)
  /\ UNCHANGED <<now, account, obstacle, active, slots, edit, others, fails>>

\* The target has an active job: the slot stays due.
Blocked(s, p) ==
  /\ StillDue(s, p)
  /\ obstacle[p] # "api"
  /\ ~Existing(p) /\ p \in active
  /\ Handled(s, p)
  /\ UNCHANGED <<now, policy, account, obstacle, active, slots, edit, others, fails>>

\* No longer due: disabled, moved, deactivated or handled by another.
Skip(s, p) ==
  /\ p \in pass[s].due
  /\ ~Due(p, pass[s].at)
  /\ Handled(s, p)
  /\ UNCHANGED <<now, policy, account, obstacle, active, slots, edit, others, fails>>

\* _load_eligible_target refuses the api before anything is looked up, _job_window
\* the checkpoint after that: the slot stays due, and is tried at every poll.
Refused(s, p) ==
  /\ StillDue(s, p)
  /\ \/ obstacle[p] = "api"
     \/ obstacle[p] = "window" /\ ~Existing(p) /\ p \notin active
  /\ Handled(s, p)
  /\ UNCHANGED <<now, policy, account, obstacle, active, slots, edit, others, fails>>

\* An error of the moment (the database, a lock timeout) rolls back this policy.
Fail(s, p) ==
  /\ p \in pass[s].due
  /\ fails < MaxFails
  /\ fails' = fails + 1
  /\ Handled(s, p)
  /\ UNCHANGED <<now, policy, account, obstacle, active, slots, edit, others>>

Handle(s, p) ==
  \/ Enqueue(s, p) \/ Consume(s, p) \/ Blocked(s, p)
  \/ Refused(s, p) \/ Skip(s, p) \/ Fail(s, p)

\* The process dies in the middle of a pass.
Crash(s) ==
  /\ pass[s].due # {}
  /\ fails < MaxFails
  /\ fails' = fails + 1
  /\ pass' = [pass EXCEPT ![s].due = {}]
  /\ UNCHANGED <<now, policy, account, obstacle, active, slots, edit, others>>

-----------------------------------------------------------------------------
(* The operators.                                                          *)

\* A slip: the row that was disabled keeps its next_run_at.
AppliedKeepsNext(enabled, plan) ==
  [enabled |-> enabled, plan |-> plan, next |-> NextRun(plan, now)]

\* _validated_policy_values and _apply_policy, computed at this moment.
Applied(enabled, plan) ==
  [enabled |-> enabled, plan |-> plan,
   next |-> IF enabled THEN NextRun(plan, now) ELSE None]

\* A slip: the next run is computed again only when the plan is another.
ReadPolicySamePlan(e, p, enabled, plan) ==
  /\ ~edit[e].open
  /\ account[AccountOf[p]] = "active"
  /\ edit' = [edit EXCEPT ![e] =
       [open |-> TRUE, policy |-> p, seen |-> policy[p],
        new |-> IF plan = policy[p].plan
                THEN [Applied(enabled, plan) EXCEPT !.next = policy[p].next]
                ELSE Applied(enabled, plan)]]
  /\ UNCHANGED <<now, policy, account, obstacle, active, slots, pass, others, fails>>

\* update_account_policy, up to the flush: the row is read without a lock.
ReadPolicy(e, p, enabled, plan) ==
  /\ ~edit[e].open
  /\ account[AccountOf[p]] = "active"
  /\ edit' = [edit EXCEPT ![e] = [open |-> TRUE, policy |-> p, seen |-> policy[p],
                                  new |-> Applied(enabled, plan)]]
  /\ UNCHANGED <<now, policy, account, obstacle, active, slots, pass, others, fails>>

\* The UPDATE of the session writes the columns that differ from what was read.
Merged(row, seen, new) ==
  [enabled |-> IF new.enabled = seen.enabled THEN row.enabled ELSE new.enabled,
   plan |-> IF new.plan = seen.plan THEN row.plan ELSE new.plan,
   next |-> IF new.next = seen.next THEN row.next ELSE new.next]

WritePolicy(e) ==
  /\ edit[e].open
  /\ policy' = [policy EXCEPT ![edit[e].policy] = Merged(@, edit[e].seen, edit[e].new)]
  /\ edit' = [edit EXCEPT ![e] = NoEdit]
  /\ UNCHANGED <<now, account, obstacle, active, slots, pass, others, fails>>

\* batch_update_account_policies: the rows are locked when they are read.
UpdateBatch(ps, enabled, plan) ==
  /\ Batches
  /\ \A p \in ps : account[AccountOf[p]] = "active"
  /\ policy' = [p \in Policy |-> IF p \in ps THEN Applied(enabled, plan) ELSE policy[p]]
  /\ UNCHANGED <<now, account, obstacle, active, slots, pass, edit, others, fails>>

\* deactivate_account; a verification makes it active again.
SwitchAccount(a) ==
  /\ account' = [account EXCEPT ![a] = IF @ = "active" THEN "inactive" ELSE "active"]
  /\ UNCHANGED <<now, policy, obstacle, active, slots, pass, edit, others, fails>>

\* Another configuration is published, which disables the api or begins later than
\* the checkpoint's lower bound; the next one, or a repair, takes it back.
Obstruct(p, o) ==
  /\ obstacle' = [obstacle EXCEPT ![p] = o]
  /\ UNCHANGED <<now, policy, account, active, slots, pass, edit, others, fails>>

\* A manual job, a retry, a resumption.
OtherJob(p) ==
  /\ p \notin active
  /\ others < MaxOther
  /\ others' = others + 1
  /\ active' = active \cup {p}
  /\ UNCHANGED <<now, policy, account, obstacle, slots, pass, edit, fails>>

JobEnds(p) ==
  /\ p \in active
  /\ active' = active \ {p}
  /\ UNCHANGED <<now, policy, account, obstacle, slots, pass, edit, others, fails>>

Tick ==
  /\ now < MaxNow
  /\ now' = now + 1
  /\ UNCHANGED <<policy, account, obstacle, active, slots, pass, edit, others, fails>>

Edits ==
  \/ \E e \in Editor, p \in Policy, enabled \in BOOLEAN, plan \in Plan \cup {Manual} :
       ReadPolicy(e, p, enabled, plan)
  \/ \E e \in Editor : WritePolicy(e)
  \/ \E ps \in SUBSET Policy \ {{}}, enabled \in BOOLEAN, plan \in Plan \cup {Manual} :
       UpdateBatch(ps, enabled, plan)

Passes(s) == Scan(s) \/ \E p \in Policy : Handle(s, p)

Next ==
  \/ \E s \in Scheduler : Passes(s) \/ Crash(s)
  \/ Edits
  \/ \E a \in Account : SwitchAccount(a)
  \/ \E p \in Policy, o \in Obstacle : Obstruct(p, o)
  \/ \E p \in Policy : OtherJob(p) \/ JobEnds(p)
  \/ Tick

Spec == Init /\ [][Next]_vars

\* A scheduler polls and handles what it found; every active job ends (of the
\* queue, but for a paused one, which waits for its operator).
FairSpec ==
  /\ Spec
  /\ \A s \in Scheduler : WF_vars(Passes(s))
  /\ \A p \in Policy : WF_vars(JobEnds(p))

-----------------------------------------------------------------------------
(* Properties.                                                             *)

\* Every variable holds a value of its table or process.
TypeOK ==
  /\ now \in Nat
  /\ policy \in [Policy -> Row]
  /\ account \in [Account -> {"active", "inactive"}]
  /\ obstacle \in [Policy -> Obstacle]
  /\ active \subseteq Policy
  /\ slots \subseteq {j \in [policy : Policy, slot : Nat, at : Nat] : j.slot <= j.at}
  /\ pass \in [Scheduler -> [at : Nat, due : SUBSET Policy]]
  /\ edit \in [Editor -> {NoEdit} \cup
                 [open : {TRUE}, policy : Policy, seen : Row, new : Row]]
  /\ others \in Nat /\ fails \in Nat

\* One job for a policy and a planned instant, though an edit may bring a slot
\* back that was handled, and two schedulers overlap ("每个策略每个计划时刻至多
\* 创建一个任务").
SlotOnce ==
  \A i, j \in slots : i.policy = j.policy /\ i.slot = j.slot => i = j

\* However many instants were missed, one job makes up for them: the next job is
\* for an instant after the pass that created the last one.  An edit whose write
\* came late could bring a missed instant back: only batches are at work here.
CatchUpOnce ==
  Editor = {} =>
    \A i, j \in slots : i.policy = j.policy /\ i.slot < j.slot => i.at < j.slot

\* What is planned comes to run: an enabled policy with a plan has a next run.
PlannedRuns ==
  \A p \in Policy :
    policy[p].enabled /\ policy[p].plan # Manual => policy[p].next # None

\* n is an instant of plan p.
InstantOf(p, n) == \E k \in 0 .. n : n = Offset[p] + k * Every[p]

\* The next run is an instant of the plan that is in force.
NextOnPlan ==
  \A p \in Policy :
    LET r == policy[p] IN
    r.next # None => r.enabled /\ r.plan # Manual /\ InstantOf(r.plan, r.next)

\* A scheduled job is created only while its policy is enabled, its account
\* active and its instant come, whatever changed since the scan.
EnqueuedWhileAllowed ==
  [][\A j \in slots' \ slots :
       Due(j.policy, now) /\ j.slot = policy[j.policy].next]_vars

\* A due slot is lost neither to an active job nor to a refusal: unless edited, it
\* is passed only when it has its job, or the target had none and a window could be
\* planned ("活动任务阻塞时保留 due").
BlockedSlotIsKept ==
  [][\A p \in Policy :
       (p \in active \/ obstacle[p] # "none")
         /\ edit' = edit /\ policy'[p].next # policy[p].next
         => \E j \in slots : j.policy = p /\ j.slot = policy[p].next]_vars

\* A due slot is served, given up or edited, once no obstacle is left for good: only
\* what is refused at every poll stays due for ever.  Blocked targets, obstacles that
\* go away, obstacles and errors of the other policies, a caught-up checkpoint and
\* crashes do not leave a slot behind ("避免 Worker 热循环").
DueIsServed ==
  \A p \in Policy, t \in 1 .. MaxNow :
    <>[](obstacle[p] = "none") =>
      ((Due(p, now) /\ policy[p].next = t) ~> ~(Due(p, now) /\ policy[p].next = t))

=============================================================================
