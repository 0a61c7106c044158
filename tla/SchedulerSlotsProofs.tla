------------------------ MODULE SchedulerSlotsProofs ------------------------
(***************************************************************************)
(* Theorems about SchedulerSlots for every set of policies, plans,         *)
(* schedulers and requests.                                                *)
(***************************************************************************)
EXTENDS SchedulerSlots, TLAPS

-----------------------------------------------------------------------------
(* Plans.                                                                   *)

\* The quotient of the next instant.
LEMMA Quotient ==
  ASSUME NEW d \in Nat, NEW e \in Nat \ {0}
  PROVE  /\ d \div e \in Nat
         /\ d < (d \div e + 1) * e
         /\ d \div e + 1 <= (d \div e + 1) * e
  OBVIOUS

LEMMA NextRunManual ==
  ASSUME NEW t
  PROVE  NextRun(Manual, t) = None
  BY DEF NextRun

\* A plan has a next instant, which is after the given time.
LEMMA NextRunLater ==
  ASSUME NEW p \in Plan, NEW t \in Nat
  PROVE  /\ NextRun(p, t) \in Nat
         /\ NextRun(p, t) > t
         /\ InstantOf(p, NextRun(p, t))
  <1>1. Offset[p] \in Nat /\ Every[p] \in Nat \ {0} /\ p # Manual
    BY PlanAssumption
  <1>2. CASE t < Offset[p]
    <2>1. NextRun(p, t) = Offset[p]
      BY <1>1, <1>2 DEF NextRun
    <2>2. Offset[p] = Offset[p] + 0 * Every[p] /\ 0 \in 0 .. Offset[p]
      BY <1>1
    <2>. QED
      BY <1>1, <1>2, <2>1, <2>2 DEF InstantOf
  <1>3. CASE ~(t < Offset[p])
    <2>. DEFINE q == (t - Offset[p]) \div Every[p]
    <2>1. NextRun(p, t) = Offset[p] + (q + 1) * Every[p]
      BY <1>1, <1>3 DEF NextRun
    <2>2. t - Offset[p] \in Nat
      BY <1>1, <1>3
    <2>3. q \in Nat /\ t - Offset[p] < (q + 1) * Every[p] /\ q + 1 <= (q + 1) * Every[p]
      BY <1>1, <2>2, Quotient, Zenon
    <2>. HIDE DEF q
    <2>4. (q + 1) * Every[p] \in Nat
      BY <1>1, <2>3
    <2>5. q + 1 \in 0 .. NextRun(p, t)
      BY <1>1, <2>1, <2>3, <2>4
    <2>6. InstantOf(p, NextRun(p, t))
      BY <2>1, <2>5 DEF InstantOf
    <2>. QED
      BY <1>1, <2>1, <2>3, <2>4, <2>6
  <1>. QED
    BY <1>2, <1>3

LEMMA NextRunType ==
  ASSUME NEW p \in Plan \cup {Manual}, NEW t \in Nat
  PROVE  NextRun(p, t) \in Nat \cup {None}
  BY NextRunLater, NextRunManual

-----------------------------------------------------------------------------
(* Type correctness.                                                       *)

\* What a passed slot leaves behind.
LEMMA ForwardType ==
  ASSUME TypeOK, NEW s \in Scheduler, NEW p \in Policy, Forward(s, p)
  PROVE  policy' \in [Policy -> Row]
  <1>1. policy[p] \in Row /\ pass[s].at \in Nat
    BY DEF TypeOK
  <1>2. NextRun(policy[p].plan, pass[s].at) \in Nat \cup {None}
    BY <1>1, NextRunType DEF Row
  <1>3. [policy[p] EXCEPT !.next = NextRun(policy[p].plan, pass[s].at)] \in Row
    BY <1>1, <1>2 DEF Row
  <1>. QED
    BY <1>3 DEF Forward, TypeOK

LEMMA HandledType ==
  ASSUME TypeOK, NEW s \in Scheduler, NEW p \in Policy, Handled(s, p)
  PROVE  pass' \in [Scheduler -> [at : Nat, due : SUBSET Policy]]
  BY DEF Handled, TypeOK

LEMMA AppliedType ==
  ASSUME TypeOK, NEW enabled \in BOOLEAN, NEW plan \in Plan \cup {Manual}
  PROVE  Applied(enabled, plan) \in Row
  <1>1. NextRun(plan, now) \in Nat \cup {None}
    BY NextRunType DEF TypeOK
  <1>. QED
    BY <1>1 DEF Applied, Row

LEMMA MergedType ==
  ASSUME NEW row \in Row, NEW seen \in Row, NEW new \in Row
  PROVE  Merged(row, seen, new) \in Row
  BY DEF Merged, Row

\* A slot that is still due has come, for its row and its account.
LEMMA DueSlot ==
  ASSUME TypeOK, NEW s \in Scheduler, NEW p \in Policy, StillDue(s, p)
  PROVE  /\ policy[p].next \in Nat
         /\ policy[p].next <= pass[s].at
         /\ policy[p].enabled
         /\ policy[p].plan \in Plan
         /\ pass[s].at \in Nat
  BY DEF StillDue, Due, TypeOK, Row

LEMMA InitType == Init => TypeOK
  BY PolicyAssumption DEF Init, TypeOK, Row, Obstacle

LEMMA NextType ==
  ASSUME TypeOK, [Next]_vars
  PROVE  TypeOK'
  <1>1. CASE UNCHANGED vars
    BY <1>1 DEF vars, TypeOK
  <1>2. ASSUME NEW s \in Scheduler, Scan(s) PROVE TypeOK'
    BY <1>2 DEF Scan, TypeOK
  <1>3. ASSUME NEW s \in Scheduler, NEW p \in Policy, Enqueue(s, p) PROVE TypeOK'
    <2>1. policy' \in [Policy -> Row] /\ pass' \in [Scheduler -> [at : Nat, due : SUBSET Policy]]
      BY <1>3, ForwardType, HandledType DEF Enqueue
    <2>2. [policy |-> p, slot |-> policy[p].next, at |-> pass[s].at]
            \in {j \in [policy : Policy, slot : Nat, at : Nat] : j.slot <= j.at}
      BY <1>3, DueSlot DEF Enqueue
    <2>. QED
      BY <1>3, <2>1, <2>2 DEF Enqueue, TypeOK
  <1>4. ASSUME NEW s \in Scheduler, NEW p \in Policy, Consume(s, p) PROVE TypeOK'
    <2>1. policy' \in [Policy -> Row] /\ pass' \in [Scheduler -> [at : Nat, due : SUBSET Policy]]
      BY <1>4, ForwardType, HandledType DEF Consume
    <2>. QED
      BY <1>4, <2>1 DEF Consume, TypeOK
  <1>5. ASSUME NEW s \in Scheduler, NEW p \in Policy, Blocked(s, p) \/ Refused(s, p) \/ Skip(s, p) \/ Fail(s, p)
        PROVE  TypeOK'
    <2>1. pass' \in [Scheduler -> [at : Nat, due : SUBSET Policy]]
      BY <1>5, HandledType DEF Blocked, Refused, Skip, Fail
    <2>2. fails' \in Nat
      BY <1>5 DEF Blocked, Refused, Skip, Fail, TypeOK
    <2>3. UNCHANGED <<now, policy, account, obstacle, active, slots, edit, others>>
      BY <1>5 DEF Blocked, Refused, Skip, Fail
    <2>. QED
      BY <2>1, <2>2, <2>3 DEF TypeOK
  <1>6. ASSUME NEW s \in Scheduler, Crash(s) PROVE TypeOK'
    <2>1. pass' \in [Scheduler -> [at : Nat, due : SUBSET Policy]]
      BY <1>6 DEF Crash, TypeOK
    <2>2. fails' \in Nat
      BY <1>6 DEF Crash, TypeOK
    <2>3. UNCHANGED <<now, policy, account, obstacle, active, slots, edit, others>>
      BY <1>6 DEF Crash
    <2>. QED
      BY <2>1, <2>2, <2>3 DEF TypeOK
  <1>7. ASSUME NEW e \in Editor, NEW p \in Policy, NEW enabled \in BOOLEAN,
               NEW plan \in Plan \cup {Manual}, ReadPolicy(e, p, enabled, plan)
        PROVE  TypeOK'
    <2>1. Applied(enabled, plan) \in Row
      BY AppliedType
    <2>. QED
      BY <1>7, <2>1 DEF ReadPolicy, TypeOK
  <1>8. ASSUME NEW e \in Editor, WritePolicy(e) PROVE TypeOK'
    <2>1. edit[e] \in [open : {TRUE}, policy : Policy, seen : Row, new : Row]
      <3>1. edit[e] \in {NoEdit} \cup [open : {TRUE}, policy : Policy, seen : Row, new : Row]
        BY DEF TypeOK
      <3>2. edit[e] # NoEdit
        BY <1>8 DEF WritePolicy, NoEdit
      <3>. QED
        BY <3>1, <3>2
    <2>2. Merged(policy[edit[e].policy], edit[e].seen, edit[e].new) \in Row
      BY <2>1, MergedType DEF TypeOK
    <2>. QED
      BY <1>8, <2>1, <2>2 DEF WritePolicy, TypeOK
  <1>9. ASSUME NEW ps \in SUBSET Policy, NEW enabled \in BOOLEAN,
               NEW plan \in Plan \cup {Manual}, UpdateBatch(ps, enabled, plan)
        PROVE  TypeOK'
    <2>1. Applied(enabled, plan) \in Row
      BY AppliedType
    <2>. QED
      BY <1>9, <2>1 DEF UpdateBatch, TypeOK
  <1>10. ASSUME NEW a \in Account, SwitchAccount(a) PROVE TypeOK'
    BY <1>10 DEF SwitchAccount, TypeOK
  <1>11. ASSUME NEW p \in Policy, NEW o \in Obstacle, Obstruct(p, o) PROVE TypeOK'
    BY <1>11 DEF Obstruct, TypeOK
  <1>12. ASSUME NEW p \in Policy, OtherJob(p) \/ JobEnds(p) PROVE TypeOK'
    <2>1. active' \subseteq Policy
      BY <1>12 DEF OtherJob, JobEnds, TypeOK
    <2>2. others' \in Nat
      BY <1>12 DEF OtherJob, JobEnds, TypeOK
    <2>3. UNCHANGED <<now, policy, account, obstacle, slots, pass, edit, fails>>
      BY <1>12 DEF OtherJob, JobEnds
    <2>. QED
      BY <2>1, <2>2, <2>3 DEF TypeOK
  <1>13. CASE Tick
    <2>1. now' \in Nat
      BY <1>13 DEF Tick, TypeOK
    <2>2. UNCHANGED <<policy, account, obstacle, active, slots, pass, edit, others, fails>>
      BY <1>13 DEF Tick
    <2>. QED
      BY <2>1, <2>2 DEF TypeOK
  <1>. QED
    BY <1>1, <1>2, <1>3, <1>4, <1>5, <1>6, <1>7, <1>8, <1>9, <1>10, <1>11, <1>12, <1>13
       DEF Next, Passes, Handle, Edits

\* Every variable keeps to the values of its table or process.
THEOREM TypeCorrect == Spec => []TypeOK
  BY InitType, NextType, PTL DEF Spec

-----------------------------------------------------------------------------
(* A slot yields one job.                                                  *)

LEMMA SlotsGrow ==
  ASSUME [Next]_vars
  PROVE  \/ slots' = slots
         \/ \E s \in Scheduler, p \in Policy : Enqueue(s, p)
  BY DEF Next, vars, Passes, Handle, Edits, Scan, Consume, Blocked, Refused, Skip, Fail, Crash,
         ReadPolicy, WritePolicy, UpdateBatch, SwitchAccount, Obstruct, OtherJob, JobEnds, Tick

\* A policy and an instant have at most one scheduled job, however late the edits
\* and however many the schedulers.
THEOREM SlotsAreOnce == Spec => []SlotOnce
  <1>1. Init => SlotOnce
    BY DEF Init, SlotOnce
  <1>2. ASSUME SlotOnce, [Next]_vars PROVE SlotOnce'
    <2>1. CASE slots' = slots
      BY <1>2, <2>1 DEF SlotOnce
    <2>2. ASSUME NEW s \in Scheduler, NEW p \in Policy, Enqueue(s, p) PROVE SlotOnce'
      <3>1. slots' = slots \cup {[policy |-> p, slot |-> policy[p].next, at |-> pass[s].at]}
        BY <2>2 DEF Enqueue
      <3>2. \A j \in slots : ~(j.policy = p /\ j.slot = policy[p].next)
        BY <2>2 DEF Enqueue, Existing
      <3>. QED
        BY <1>2, <3>1, <3>2 DEF SlotOnce
    <2>. QED
      BY <1>2, <2>1, <2>2, SlotsGrow
  <1>. QED
    BY <1>1, <1>2, PTL DEF Spec

-----------------------------------------------------------------------------
(* A pass works with the time of its scan, which is behind the clock.       *)

ScanIsPast == \A s \in Scheduler : pass[s].at <= now

LEMMA NextScanIsPast ==
  ASSUME TypeOK, ScanIsPast, [Next]_vars
  PROVE  ScanIsPast'
  <1>1. CASE UNCHANGED <<now, pass>>
    BY <1>1 DEF ScanIsPast
  <1>2. ASSUME NEW s \in Scheduler, Scan(s) PROVE ScanIsPast'
    BY <1>2 DEF Scan, ScanIsPast, TypeOK
  <1>3. ASSUME NEW s \in Scheduler, NEW p \in Policy, Handled(s, p), UNCHANGED now
        PROVE  ScanIsPast'
    BY <1>3 DEF Handled, ScanIsPast, TypeOK
  <1>4. ASSUME NEW s \in Scheduler, Crash(s) PROVE ScanIsPast'
    BY <1>4 DEF Crash, ScanIsPast, TypeOK
  <1>5. CASE Tick
    BY <1>5 DEF Tick, ScanIsPast, TypeOK
  <1>6. ASSUME NEW s \in Scheduler, NEW p \in Policy, Handle(s, p)
        PROVE  Handled(s, p) /\ UNCHANGED now
    BY <1>6 DEF Handle, Enqueue, Consume, Blocked, Refused, Skip, Fail
  <1>7. CASE Edits \/ (\E a \in Account : SwitchAccount(a))
               \/ (\E p \in Policy, o \in Obstacle : Obstruct(p, o))
               \/ \E p \in Policy : OtherJob(p) \/ JobEnds(p)
    <2>1. UNCHANGED <<now, pass>>
      BY <1>7 DEF Edits, ReadPolicy, WritePolicy, UpdateBatch, SwitchAccount, Obstruct, OtherJob, JobEnds
    <2>. QED
      BY <1>1, <2>1
  <1>. QED
    BY <1>1, <1>2, <1>3, <1>4, <1>5, <1>6, <1>7 DEF Next, Passes, vars

\* A scheduled job is created only for a policy that is due at that moment,
\* whatever was edited, deactivated or handled by another since the scan.
THEOREM EnqueuesAreAllowed == Spec => EnqueuedWhileAllowed
  <1>1. Init => TypeOK /\ ScanIsPast
    BY InitType DEF Init, ScanIsPast
  <1>2. TypeOK /\ ScanIsPast /\ [Next]_vars => (TypeOK /\ ScanIsPast)'
    BY NextType, NextScanIsPast
  <1>3. ASSUME TypeOK, ScanIsPast, [Next]_vars
        PROVE  \A j \in slots' \ slots : Due(j.policy, now) /\ j.slot = policy[j.policy].next
    <2>1. ASSUME NEW s \in Scheduler, NEW p \in Policy, Enqueue(s, p),
                 NEW j \in slots' \ slots
          PROVE  Due(j.policy, now) /\ j.slot = policy[j.policy].next
      <3>1. j.policy = p /\ j.slot = policy[p].next
        BY <2>1 DEF Enqueue
      <3>2. Due(p, pass[s].at)
        BY <2>1 DEF Enqueue, StillDue
      <3>3. policy[p].next <= pass[s].at /\ policy[p].next \in Nat /\ pass[s].at \in Nat
        BY <1>3, <2>1, DueSlot DEF Enqueue
      <3>4. policy[p].next <= now
        BY <1>3, <3>3 DEF ScanIsPast, TypeOK
      <3>. QED
        BY <3>1, <3>2, <3>4 DEF Due
    <2>. QED
      BY <1>3, <2>1, SlotsGrow
  <1>. QED
    BY <1>1, <1>2, <1>3, PTL DEF Spec, EnqueuedWhileAllowed

-----------------------------------------------------------------------------
(* Without an edit between its read and its write, rows change only by a    *)
(* pass and by a batch; both compute the next run from a time they know.    *)

LEMMA RowsChange ==
  ASSUME Editor = {}, [Next]_vars
  PROVE  \/ policy' = policy
         \/ \E s \in Scheduler, p \in Policy : StillDue(s, p) /\ Forward(s, p)
         \/ \E ps \in SUBSET Policy, enabled \in BOOLEAN, plan \in Plan \cup {Manual} :
              UpdateBatch(ps, enabled, plan)
  <1>1. CASE Edits
    BY <1>1 DEF Edits
  <1>2. ASSUME NEW s \in Scheduler, NEW p \in Policy, Handle(s, p)
        PROVE  policy' = policy \/ (StillDue(s, p) /\ Forward(s, p))
    BY <1>2 DEF Handle, Enqueue, Consume, Blocked, Refused, Skip, Fail
  <1>3. CASE \/ UNCHANGED vars \/ Tick
             \/ \E s \in Scheduler : Scan(s) \/ Crash(s)
             \/ \E a \in Account : SwitchAccount(a)
             \/ \E p \in Policy, o \in Obstacle : Obstruct(p, o)
             \/ \E p \in Policy : OtherJob(p) \/ JobEnds(p)
    BY <1>3 DEF vars, Tick, Scan, Crash, SwitchAccount, Obstruct, OtherJob, JobEnds
  <1>. QED
    BY <1>1, <1>2, <1>3 DEF Next, Passes

\* The next run is an instant of the plan in force, across forwards of late
\* passes and changes of plan.
THEOREM NextIsOnPlan ==
  ASSUME Editor = {}
  PROVE  Spec => []NextOnPlan
  <1>1. Init => NextOnPlan
    BY DEF Init, NextOnPlan
  <1>2. ASSUME TypeOK, NextOnPlan, [Next]_vars PROVE NextOnPlan'
    <2>1. CASE policy' = policy
      BY <1>2, <2>1 DEF NextOnPlan
    <2>2. ASSUME NEW s \in Scheduler, NEW p \in Policy, StillDue(s, p), Forward(s, p)
          PROVE  NextOnPlan'
      <3>1. policy[p].enabled /\ policy[p].plan \in Plan /\ pass[s].at \in Nat
        BY <1>2, <2>2, DueSlot
      <3>2. InstantOf(policy[p].plan, NextRun(policy[p].plan, pass[s].at))
        BY <3>1, NextRunLater
      <3>3. /\ policy' = [policy EXCEPT ![p].next = NextRun(policy[p].plan, pass[s].at)]
            /\ policy \in [Policy -> Row]
        BY <1>2, <2>2 DEF Forward, TypeOK
      <3>4. /\ policy'[p].enabled = policy[p].enabled
            /\ policy'[p].plan = policy[p].plan
            /\ policy'[p].next = NextRun(policy[p].plan, pass[s].at)
        BY <3>3 DEF Row
      <3>5. \A q \in Policy : q # p => policy'[q] = policy[q]
        BY <3>3
      <3>6. policy[p].plan # Manual
        BY <3>1, PlanAssumption
      <3>. QED
        BY <1>2, <3>1, <3>2, <3>4, <3>5, <3>6 DEF NextOnPlan
    <2>3. ASSUME NEW ps \in SUBSET Policy, NEW enabled \in BOOLEAN,
                 NEW plan \in Plan \cup {Manual}, UpdateBatch(ps, enabled, plan)
          PROVE  NextOnPlan'
      <3>1. \A q \in Policy :
              policy'[q] = IF q \in ps THEN Applied(enabled, plan) ELSE policy[q]
        BY <2>3 DEF UpdateBatch
      <3>2. ASSUME Applied(enabled, plan).next # None
            PROVE  /\ Applied(enabled, plan).enabled
                   /\ Applied(enabled, plan).plan # Manual
                   /\ InstantOf(Applied(enabled, plan).plan, Applied(enabled, plan).next)
        <4>1. enabled /\ plan # Manual /\ Applied(enabled, plan).next = NextRun(plan, now)
          BY <3>2, NextRunManual DEF Applied
        <4>2. InstantOf(plan, NextRun(plan, now))
          BY <1>2, <4>1, NextRunLater DEF TypeOK
        <4>. QED
          BY <4>1, <4>2 DEF Applied
      <3>. QED
        BY <1>2, <3>1, <3>2 DEF NextOnPlan
    <2>. QED
      BY <1>2, <2>1, <2>2, <2>3, RowsChange
  <1>. QED
    BY <1>1, <1>2, TypeCorrect, PTL DEF Spec

-----------------------------------------------------------------------------
(* One job makes up for the missed instants.                                *)

\* No pass looks back: what is planned next is later than every pass that
\* created a job for the policy.
NextIsLater ==
  \A j \in slots :
    /\ j.at <= now
    /\ policy[j.policy].next # None => j.at < policy[j.policy].next

CatchUpInv == TypeOK /\ ScanIsPast /\ NextIsLater /\ CatchUpOnce

LEMMA ClockAdvances ==
  ASSUME TypeOK, [Next]_vars
  PROVE  now \in Nat /\ now' \in Nat /\ now <= now'
  <1>1. now' = now \/ now' = now + 1
    BY DEF Next, vars, Passes, Handle, Edits, Scan, Enqueue, Consume, Blocked, Refused, Skip, Fail,
           Crash, ReadPolicy, WritePolicy, UpdateBatch, SwitchAccount, Obstruct, OtherJob, JobEnds, Tick
  <1>. QED
    BY <1>1 DEF TypeOK

\* Every job is for an instant that had come when it was created.
LEMMA SlotType ==
  ASSUME TypeOK, NEW j \in slots
  PROVE  j.policy \in Policy /\ j.slot \in Nat /\ j.at \in Nat /\ j.slot <= j.at
  BY DEF TypeOK

\* A forward moves the row of p past the pass, and no other row.
LEMMA ForwardPast ==
  ASSUME TypeOK, NEW s \in Scheduler, NEW p \in Policy, StillDue(s, p), Forward(s, p)
  PROVE  /\ policy'[p].next \in Nat
         /\ pass[s].at < policy'[p].next
         /\ \A q \in Policy : q # p => policy'[q] = policy[q]
  <1>1. policy[p].plan \in Plan /\ pass[s].at \in Nat
    BY DueSlot
  <1>2. /\ policy' = [policy EXCEPT ![p].next = NextRun(policy[p].plan, pass[s].at)]
        /\ policy \in [Policy -> Row]
    BY DEF Forward, TypeOK
  <1>3. policy'[p].next = NextRun(policy[p].plan, pass[s].at)
    BY <1>2 DEF Row
  <1>. QED
    BY <1>1, <1>2, <1>3, NextRunLater

LEMMA ForwardKeepsLater ==
  ASSUME TypeOK, NextIsLater, NEW s \in Scheduler, NEW p \in Policy,
         StillDue(s, p), Forward(s, p), NEW j \in slots
  PROVE  policy'[j.policy].next # None => j.at < policy'[j.policy].next
  <1>1. j.policy \in Policy /\ j.at \in Nat
    BY SlotType
  <1>2. CASE j.policy = p
    <2>1. policy[p].next \in Nat /\ policy[p].next <= pass[s].at /\ pass[s].at \in Nat
      BY DueSlot
    <2>2. j.at < policy[p].next
      BY <1>2, <2>1, PlanAssumption DEF NextIsLater
    <2>3. policy'[p].next \in Nat /\ pass[s].at < policy'[p].next
      BY ForwardPast
    <2>. QED
      BY <1>1, <1>2, <2>1, <2>2, <2>3
  <1>3. CASE j.policy # p
    BY <1>1, <1>3, ForwardPast DEF NextIsLater
  <1>. QED
    BY <1>2, <1>3

LEMMA BatchKeepsLater ==
  ASSUME TypeOK, NextIsLater, NEW ps \in SUBSET Policy, NEW enabled \in BOOLEAN,
         NEW plan \in Plan \cup {Manual}, UpdateBatch(ps, enabled, plan), NEW j \in slots
  PROVE  policy'[j.policy].next # None => j.at < policy'[j.policy].next
  <1>1. j.policy \in Policy /\ j.at \in Nat /\ now \in Nat /\ j.at <= now
    BY SlotType DEF TypeOK, NextIsLater
  <1>2. policy'[j.policy] = IF j.policy \in ps THEN Applied(enabled, plan) ELSE policy[j.policy]
    BY <1>1 DEF UpdateBatch
  <1>3. ASSUME Applied(enabled, plan).next # None
        PROVE  j.at < Applied(enabled, plan).next
    <2>1. plan \in Plan /\ Applied(enabled, plan).next = NextRun(plan, now)
      BY <1>3, NextRunManual DEF Applied
    <2>. QED
      BY <1>1, <2>1, NextRunLater
  <1>. QED
    BY <1>2, <1>3 DEF NextIsLater

LEMMA NextIsLaterStep ==
  ASSUME Editor = {}, CatchUpInv, [Next]_vars
  PROVE  NextIsLater'
  <1>1. TypeOK /\ ScanIsPast /\ NextIsLater
    BY DEF CatchUpInv
  <1>2. ASSUME NEW j \in slots
        PROVE  policy'[j.policy].next # None => j.at < policy'[j.policy].next
    <2>1. CASE policy' = policy
      BY <1>1, <2>1 DEF NextIsLater
    <2>. QED
      BY <1>1, <2>1, ForwardKeepsLater, BatchKeepsLater, RowsChange
  <1>3. \A j \in slots : j.at <= now'
    BY <1>1, ClockAdvances, SlotType DEF NextIsLater
  <1>4. ASSUME NEW s \in Scheduler, NEW p \in Policy, Enqueue(s, p), NEW j \in slots' \ slots
        PROVE  j.at <= now' /\ j.at < policy'[j.policy].next
    <2>1. j.policy = p /\ j.at = pass[s].at /\ pass[s].at \in Nat
      BY <1>1, <1>4 DEF Enqueue, TypeOK
    <2>2. pass[s].at < policy'[p].next
      BY <1>1, <1>4, ForwardPast DEF Enqueue
    <2>3. pass[s].at <= now'
      BY <1>1, <2>1, ClockAdvances DEF ScanIsPast
    <2>. QED
      BY <2>1, <2>2, <2>3
  <1>. QED
    BY <1>2, <1>3, <1>4, SlotsGrow DEF NextIsLater

LEMMA CatchUpStep ==
  ASSUME Editor = {}, CatchUpInv, [Next]_vars
  PROVE  CatchUpOnce'
  <1>1. TypeOK /\ NextIsLater /\ CatchUpOnce
    BY DEF CatchUpInv
  <1>2. CASE slots' = slots
    BY <1>1, <1>2 DEF CatchUpOnce
  <1>3. ASSUME NEW s \in Scheduler, NEW p \in Policy, Enqueue(s, p) PROVE CatchUpOnce'
    <2>. DEFINE new == [policy |-> p, slot |-> policy[p].next, at |-> pass[s].at]
    <2>1. slots' = slots \cup {new}
      BY <1>3 DEF Enqueue
    <2>2. policy[p].next \in Nat /\ policy[p].next # None
      BY <1>1, <1>3, DueSlot, PlanAssumption DEF Enqueue
    <2>3. \A i \in slots : i.policy = p => i.at < new.slot
      BY <1>1, <2>2 DEF NextIsLater
    <2>4. \A i \in slots : i.policy = p => ~(new.slot < i.slot)
      BY <1>1, <2>2, <2>3, SlotType
    <2>5. ~(new.slot < new.slot)
      BY <2>2
    <2>6. new.policy = p
      OBVIOUS
    <2>. HIDE DEF new
    <2>7. ASSUME NEW i \in slots', NEW j \in slots', i.policy = j.policy, i.slot < j.slot
          PROVE  i.at < j.slot
      BY <1>1, <2>1, <2>3, <2>4, <2>5, <2>6, <2>7 DEF CatchUpOnce
    <2>. QED
      BY <2>7 DEF CatchUpOnce
  <1>. QED
    BY <1>2, <1>3, SlotsGrow

\* However many instants were missed, however many schedulers and restarts, one
\* job makes up for all of them.
THEOREM CatchUpIsOnce == Spec => []CatchUpOnce
  <1>1. CASE Editor = {}
    <2>1. Init => CatchUpInv
      BY InitType DEF Init, CatchUpInv, ScanIsPast, NextIsLater, CatchUpOnce
    <2>2. CatchUpInv /\ [Next]_vars => CatchUpInv'
      BY <1>1, NextType, NextScanIsPast, NextIsLaterStep, CatchUpStep DEF CatchUpInv
    <2>3. CatchUpInv => CatchUpOnce
      BY DEF CatchUpInv
    <2>. QED
      BY <2>1, <2>2, <2>3, PTL DEF Spec
  <1>2. CASE Editor # {}
    <2>1. CatchUpOnce
      BY <1>2 DEF CatchUpOnce
    <2>. QED
      BY <2>1, PTL
  <1>. QED
    BY <1>1, <1>2

-----------------------------------------------------------------------------
(* Planned policies run, as long as requests for policies do not overlap:   *)
(* the forwards of the schedulers alone never meet an edit in a way that    *)
(* loses the next run.                                                      *)

Planned(r) == r.enabled /\ r.plan # Manual => r.next # None

\* What an open request read still holds, but for the instant of the next run.
EditFresh ==
  \A e \in Editor :
    edit[e].open =>
      /\ edit[e].seen.enabled = policy[edit[e].policy].enabled
      /\ edit[e].seen.plan = policy[edit[e].policy].plan
      /\ edit[e].seen.next # None => policy[edit[e].policy].next # None
      /\ Planned(edit[e].new)

RunsInv == TypeOK /\ EditFresh /\ PlannedRuns

LEMMA AppliedPlanned ==
  ASSUME TypeOK, NEW enabled \in BOOLEAN, NEW plan \in Plan \cup {Manual}
  PROVE  Planned(Applied(enabled, plan))
  <1>1. plan # Manual => NextRun(plan, now) # None
    BY NextRunLater, PlanAssumption DEF TypeOK
  <1>. QED
    BY <1>1 DEF Planned, Applied

LEMMA OpenEdit ==
  ASSUME TypeOK, NEW e \in Editor, edit[e].open
  PROVE  edit[e] \in [open : {TRUE}, policy : Policy, seen : Row, new : Row]
  <1>1. edit[e] \in {NoEdit} \cup [open : {TRUE}, policy : Policy, seen : Row, new : Row]
    BY DEF TypeOK
  <1>2. edit[e] # NoEdit
    BY DEF NoEdit
  <1>. QED
    BY <1>1, <1>2

\* A pass leaves the plan of a row alone, and gives it a next run.
LEMMA ForwardPlanned ==
  ASSUME TypeOK, NEW s \in Scheduler, NEW p \in Policy, StillDue(s, p), Forward(s, p),
         NEW q \in Policy
  PROVE  /\ policy'[q].enabled = policy[q].enabled
         /\ policy'[q].plan = policy[q].plan
         /\ policy[q].next # None => policy'[q].next # None
  <1>1. CASE q # p
    BY <1>1, ForwardPast
  <1>2. CASE q = p
    <2>1. policy'[p].next # None
      BY ForwardPast, PlanAssumption
    <2>2. /\ policy' = [policy EXCEPT ![p].next = NextRun(policy[p].plan, pass[s].at)]
          /\ policy \in [Policy -> Row]
      BY DEF Forward, TypeOK
    <2>3. policy'[p].enabled = policy[p].enabled /\ policy'[p].plan = policy[p].plan
      BY <2>2 DEF Row
    <2>. QED
      BY <1>2, <2>1, <2>3
  <1>. QED
    BY <1>1, <1>2

\* A merge into a row that still holds what was read gives what was meant.
LEMMA MergePlanned ==
  ASSUME NEW row, NEW seen, NEW new, Planned(new),
         seen.enabled = row.enabled, seen.plan = row.plan,
         seen.next # None => row.next # None
  PROVE  Planned(Merged(row, seen, new))
  <1>1. /\ Merged(row, seen, new).enabled = new.enabled
        /\ Merged(row, seen, new).plan = new.plan
        /\ Merged(row, seen, new).next = IF new.next = seen.next THEN row.next ELSE new.next
    BY DEF Merged
  <1>. QED
    BY <1>1 DEF Planned

LEMMA RunsStep ==
  ASSUME ~Batches, \A e, f \in Editor : e = f, RunsInv, [Next]_vars
  PROVE  EditFresh' /\ PlannedRuns'
  <1>1. TypeOK /\ EditFresh /\ PlannedRuns
    BY DEF RunsInv
  <1>2. CASE UNCHANGED <<policy, edit>>
    BY <1>1, <1>2 DEF EditFresh, PlannedRuns, Planned
  <1>3. ASSUME NEW s \in Scheduler, NEW p \in Policy, StillDue(s, p), Forward(s, p),
               UNCHANGED edit
        PROVE  EditFresh' /\ PlannedRuns'
    <2>1. PlannedRuns'
      BY <1>1, <1>3, ForwardPlanned DEF PlannedRuns
    <2>2. ASSUME NEW e \in Editor, edit[e].open
          PROVE  /\ edit[e].seen.enabled = policy'[edit[e].policy].enabled
                 /\ edit[e].seen.plan = policy'[edit[e].policy].plan
                 /\ edit[e].seen.next # None => policy'[edit[e].policy].next # None
                 /\ Planned(edit[e].new)
      <3>1. edit[e].policy \in Policy
        BY <1>1, <2>2, OpenEdit
      <3>. QED
        BY <1>1, <1>3, <2>2, <3>1, ForwardPlanned DEF EditFresh
    <2>3. EditFresh'
      BY <1>3, <2>2 DEF EditFresh, Planned
    <2>. QED
      BY <2>1, <2>3
  <1>4. ASSUME NEW e \in Editor, NEW p \in Policy, NEW enabled \in BOOLEAN,
               NEW plan \in Plan \cup {Manual}, ReadPolicy(e, p, enabled, plan)
        PROVE  EditFresh' /\ PlannedRuns'
    <2>1. policy' = policy
      BY <1>4 DEF ReadPolicy
    <2>2. edit'[e] = [open |-> TRUE, policy |-> p, seen |-> policy[p],
                      new |-> Applied(enabled, plan)]
      BY <1>1, <1>4 DEF ReadPolicy, TypeOK
    <2>3. Planned(Applied(enabled, plan))
      BY <1>1, AppliedPlanned
    <2>4. \A f \in Editor : f = e
      OBVIOUS
    <2>5. /\ edit'[e].seen = policy[p] /\ edit'[e].policy = p
          /\ edit'[e].new = Applied(enabled, plan)
      BY <2>2
    <2>6. EditFresh'
      BY <2>1, <2>3, <2>4, <2>5 DEF EditFresh, Planned
    <2>. QED
      BY <1>1, <2>1, <2>6 DEF PlannedRuns
  <1>5. ASSUME NEW e \in Editor, WritePolicy(e) PROVE EditFresh' /\ PlannedRuns'
    <2>1. edit[e].open /\ edit[e].policy \in Policy
      BY <1>1, <1>5, OpenEdit DEF WritePolicy
    <2>2. Planned(Merged(policy[edit[e].policy], edit[e].seen, edit[e].new))
      BY <1>1, <2>1, MergePlanned DEF EditFresh
    <2>3. \A q \in Policy :
            policy'[q] = IF q = edit[e].policy
                         THEN Merged(policy[edit[e].policy], edit[e].seen, edit[e].new)
                         ELSE policy[q]
      BY <1>1, <1>5 DEF WritePolicy, TypeOK
    <2>4. PlannedRuns'
      BY <1>1, <2>2, <2>3 DEF PlannedRuns, Planned
    <2>5. \A f \in Editor : f = e
      OBVIOUS
    <2>6. ~edit'[e].open
      BY <1>1, <1>5 DEF WritePolicy, TypeOK, NoEdit
    <2>7. EditFresh'
      BY <2>5, <2>6 DEF EditFresh
    <2>. QED
      BY <2>4, <2>7
  <1>6. ASSUME NEW s \in Scheduler, NEW p \in Policy, Handle(s, p)
        PROVE  \/ UNCHANGED <<policy, edit>>
               \/ StillDue(s, p) /\ Forward(s, p) /\ UNCHANGED edit
    BY <1>6 DEF Handle, Enqueue, Consume, Blocked, Refused, Skip, Fail
  <1>7. CASE \/ UNCHANGED vars \/ Tick
             \/ \E s \in Scheduler : Scan(s) \/ Crash(s)
             \/ \E a \in Account : SwitchAccount(a)
             \/ \E p \in Policy, o \in Obstacle : Obstruct(p, o)
             \/ \E p \in Policy : OtherJob(p) \/ JobEnds(p)
    <2>1. UNCHANGED <<policy, edit>>
      BY <1>7 DEF vars, Tick, Scan, Crash, SwitchAccount, Obstruct, OtherJob, JobEnds
    <2>. QED
      BY <1>2, <2>1
  <1>8. CASE Edits
    BY <1>4, <1>5, <1>8 DEF Edits, UpdateBatch
  <1>. QED
    BY <1>2, <1>3, <1>6, <1>7, <1>8 DEF Next, Passes

\* Where requests for policies come one at a time and not in batches, every
\* enabled plan has a next run, however the schedulers interleave with them.
THEOREM PlansRun ==
  ASSUME ~Batches, \A e, f \in Editor : e = f
  PROVE  Spec => []PlannedRuns
  <1>1. Init => RunsInv
    <2>1. Init => \A e \in Editor : ~edit[e].open
      BY DEF Init, NoEdit
    <2>2. Init => \A p \in Policy : ~policy[p].enabled
      BY DEF Init
    <2>3. Init => EditFresh /\ PlannedRuns
      BY <2>1, <2>2 DEF EditFresh, PlannedRuns
    <2>. QED
      BY <2>3, InitType DEF RunsInv
  <1>2. RunsInv /\ [Next]_vars => RunsInv'
    BY NextType, RunsStep DEF RunsInv
  <1>3. RunsInv => PlannedRuns
    BY DEF RunsInv
  <1>. QED
    BY <1>1, <1>2, <1>3, PTL DEF Spec
-----------------------------------------------------------------------------
(* A blocked slot is kept.                                                 *)

\* The write of a request closes it, so it is no stutter of edit.
LEMMA WriteCloses ==
  ASSUME TypeOK, NEW e \in Editor, WritePolicy(e)
  PROVE  edit' # edit
  <1>1. edit[e] # NoEdit
    BY OpenEdit DEF WritePolicy, NoEdit
  <1>2. edit'[e] = NoEdit
    BY DEF WritePolicy, TypeOK
  <1>. QED
    BY <1>1, <1>2

\* A pass moves only the row it handles, whose target then has no active job and
\* meets no obstacle, or whose slot has its job.
LEMMA PassMoves ==
  ASSUME TypeOK, NEW s \in Scheduler, NEW p \in Policy, Handle(s, p),
         NEW q \in Policy, q \in active \/ obstacle[q] # "none",
         policy'[q].next # policy[q].next
  PROVE  \E j \in slots : j.policy = q /\ j.slot = policy[q].next
  <1>1. CASE Enqueue(s, p)
    <2>1. q # p /\ StillDue(s, p) /\ Forward(s, p)
      BY <1>1 DEF Enqueue
    <2>2. policy'[q] = policy[q]
      BY <2>1, ForwardPast
    <2>. QED
      BY <2>2
  <1>2. CASE Consume(s, p)
    <2>1. StillDue(s, p) /\ Forward(s, p)
      BY <1>2 DEF Consume
    <2>2. q = p
      BY <2>1, ForwardPast
    <2>. QED
      BY <1>2, <2>2 DEF Consume, SlotHasJob, MayBeCaughtUp, Existing
  <1>3. CASE Blocked(s, p) \/ Refused(s, p) \/ Skip(s, p) \/ Fail(s, p)
    BY <1>3 DEF Blocked, Refused, Skip, Fail
  <1>. QED
    BY <1>1, <1>2, <1>3 DEF Handle

\* While a target has an active job, or its job is refused for a lasting reason, its
\* due slot stays due, unless the slot has its job already or an operator edits the
\* policy, whatever the schedulers do, in whatever order, and wherever they crash.
THEOREM BlockedStaysDue ==
  ASSUME ~Batches
  PROVE  Spec => BlockedSlotIsKept
  <1>1. ASSUME TypeOK, [Next]_vars
        PROVE  \A p \in Policy :
                 (p \in active \/ obstacle[p] # "none")
                   /\ edit' = edit /\ policy'[p].next # policy[p].next
                   => \E j \in slots : j.policy = p /\ j.slot = policy[p].next
    <2>. SUFFICES ASSUME NEW q \in Policy, q \in active \/ obstacle[q] # "none",
                         edit' = edit, policy'[q].next # policy[q].next
                  PROVE  \E j \in slots : j.policy = q /\ j.slot = policy[q].next
      OBVIOUS
    <2>1. ~Edits
      <3>1. ~\E e \in Editor : WritePolicy(e)
        BY <1>1, WriteCloses
      <3>. QED
        BY <3>1 DEF Edits, ReadPolicy, UpdateBatch
    <2>2. policy' # policy
      OBVIOUS
    <2>3. PICK s \in Scheduler, p \in Policy : Handle(s, p)
      BY <1>1, <2>1, <2>2
         DEF Next, vars, Passes, Scan, Crash, SwitchAccount, Obstruct, OtherJob, JobEnds, Tick
    <2>. QED
      BY <1>1, <2>3, PassMoves
  <1>. QED
    BY <1>1, TypeCorrect, PTL DEF Spec, BlockedSlotIsKept
=============================================================================
