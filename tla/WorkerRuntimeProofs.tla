------------------------ MODULE WorkerRuntimeProofs ------------------------
(***************************************************************************)
(* Theorems about WorkerRuntime for every set of instances, names and jobs, *)
(* and any number of attempts.                                              *)
(***************************************************************************)
EXTENDS WorkerRuntime, TLAPS

\* What the constants have to be.
Bounds ==
  /\ NameOf \in [Instance -> Name]
  /\ NoJob \notin Job
  /\ MaxAttempts \in Nat

-----------------------------------------------------------------------------
(* The inductive invariant.                                                 *)

Execution == [job : Job \cup {NoJob}, attempt : 0 .. MaxAttempts]
RowType == [instance : Instance \cup {Nobody},
            status : {"none", "idle", "running", "stopped"}, job : Job \cup {NoJob}]
JobType == [status : {"queued", "running", "success", "failed"},
            worker : Instance \cup {Nobody}, attempt : 0 .. MaxAttempts]

Types ==
  /\ row \in [Name -> RowType]
  /\ job \in [Job -> JobType]
  /\ silent \subseteq Job
  /\ pc \in [Instance -> {"new", "loop", "recover", "claim", "run", "gone"}]
  /\ exec \in [Instance -> Execution]
  /\ threads \in [Instance -> SUBSET Execution]

\* A running job is the execution of the instance that claimed it, for as long as that
\* lives; the heartbeat threads end with it.
ClaimsAreHeld ==
  /\ \A j \in Job : \A i \in Instance :
       job[j].status = "running" /\ job[j].worker = i =>
         \/ pc[i] = "run" /\ exec[i] = [job |-> j, attempt |-> job[j].attempt]
         \/ pc[i] = "gone"
  /\ \A j \in Job : job[j].status = "running" => job[j].attempt > 0
  /\ \A i \in Instance : pc[i] = "gone" => threads[i] = {}

IInv == Types /\ ClaimsAreHeld /\ RowsTellTheTruth

-----------------------------------------------------------------------------
(* What the invariant says of one instance.                                 *)

Runs(j, i) == job[j].status = "running" /\ job[j].worker = i

Good(i) ==
  /\ \A j \in Job : Runs(j, i) =>
       /\ \/ pc[i] = "run" /\ exec[i] = [job |-> j, attempt |-> job[j].attempt]
          \/ pc[i] = "gone"
       /\ Registered(i) => row[NameOf[i]].job = j \/ row[NameOf[i]].status = "stopped"
  /\ pc[i] \in {"recover", "claim"} /\ Registered(i) => row[NameOf[i]].status = "idle"

Counted ==
  /\ \A j \in Job : job[j].status = "running" => job[j].attempt > 0
  /\ \A i \in Instance : pc[i] = "gone" => threads[i] = {}

LEMMA Parts ==
  IInv <=> Types /\ Counted /\ \A i \in Instance : Good(i)
  BY DEF IInv, ClaimsAreHeld, RowsTellTheTruth, ClaimsAreShown, IdleIsShown, Good, Runs, Counted

LEMMA Whole ==
  ASSUME Types', Counted', \A i \in Instance : Good(i)'
  PROVE  IInv'
  BY DEF IInv, ClaimsAreHeld, RowsTellTheTruth, ClaimsAreShown, IdleIsShown, Good, Runs, Counted

\* An instance that is not busy, or that lost its execution, has no running job.
LEMMA FreeHands ==
  ASSUME Bounds, IInv, NEW i \in Instance,
         \/ pc[i] \notin {"run", "gone"}
         \/ pc[i] = "run" /\ ~Owns(i, exec[i])
  PROVE  \A j \in Job : ~Runs(j, i)
  <1>. SUFFICES ASSUME NEW j \in Job, Runs(j, i)
                PROVE  FALSE
    OBVIOUS
  <1>1. pc[i] = "run" /\ exec[i] = [job |-> j, attempt |-> job[j].attempt]
    BY Parts DEF Good
  <1>2. job[j] \in JobType
    BY DEF IInv, Types
  <1>3. job[j] = [status |-> "running", worker |-> i, attempt |-> job[j].attempt]
    BY <1>2 DEF JobType, Runs
  <1>4. Owns(i, exec[i])
    BY <1>1, <1>3 DEF Owns, Bounds
  <1>. QED
    BY <1>1, <1>4

\* Whoever owns an execution is running it, and no other.
LEMMA OwnedIsRun ==
  ASSUME Bounds, IInv, NEW i \in Instance, NEW e \in Execution, Owns(i, e), pc[i] # "gone"
  PROVE  /\ e.job \in Job /\ job[e.job].attempt = e.attempt /\ e.attempt > 0
         /\ pc[i] = "run" /\ exec[i] = e
         /\ \A j \in Job : Runs(j, i) => j = e.job
  <1>1. e.job \in Job /\ job[e.job] = [status |-> "running", worker |-> i, attempt |-> e.attempt]
    BY DEF Owns, Execution
  <1>2. Runs(e.job, i) /\ job[e.job].attempt = e.attempt
    BY <1>1 DEF Runs
  <1>3. \A j \in Job : Runs(j, i) =>
          pc[i] = "run" /\ exec[i] = [job |-> j, attempt |-> job[j].attempt]
    BY Parts DEF Good
  <1>4. e = [job |-> e.job, attempt |-> e.attempt]
    BY DEF Execution
  <1>5. e.attempt > 0
    BY <1>1, <1>2, Parts DEF Counted, Runs
  <1>6. pc[i] = "run" /\ exec[i] = e
    BY <1>1, <1>2, <1>3, <1>4
  <1>7. ASSUME NEW j \in Job, Runs(j, i)
        PROVE  j = e.job
    <2>1. exec[i] = [job |-> j, attempt |-> job[j].attempt]
      BY <1>3, <1>7
    <2>2. exec[i].job = j
      BY <2>1
    <2>. QED
      BY <1>6, <2>2
  <1>. QED
    BY <1>1, <1>2, <1>5, <1>6, <1>7

\* An instance that does nothing in a step stays right.
LEMMA Others ==
  ASSUME Bounds, IInv, NEW k \in Instance, pc'[k] = pc[k], exec'[k] = exec[k],
         \A j \in Job : Runs(j, k)' => job'[j] = job[j],
         Registered(k)' => Registered(k) /\ row'[NameOf[k]] = row[NameOf[k]]
  PROVE  Good(k)'
  <1>1. Good(k)
    BY Parts
  <1>2. \A j \in Job : Runs(j, k)' => Runs(j, k)
    BY DEF Runs
  <1>. QED
    BY <1>1, <1>2 DEF Good

\* The row of an instance that gets through, and the rows of the others.
LEMMA TouchedRow ==
  ASSUME Bounds, Types, NEW i \in Instance, NEW status \in {"idle", "running", "stopped"},
         NEW j \in Job \cup {NoJob}, Touch(i, status, j)
  PROVE  /\ row' \in [Name -> RowType]
         /\ row'[NameOf[i]].status = status /\ row'[NameOf[i]].job = j
         /\ \A k \in Instance : k # i /\ Registered(k)' =>
              Registered(k) /\ row'[NameOf[k]] = row[NameOf[k]]
  <1>. DEFINE n == NameOf[i]
              new == [[row[n] EXCEPT !.status = status] EXCEPT !.job = j]
  <1>1. n \in Name /\ row \in [Name -> RowType] /\ row[n] \in RowType /\ row[n].instance = i
    BY DEF Bounds, Types, Touch, Registered
  <1>2. /\ new \in RowType /\ new.instance = i /\ new.status = status /\ new.job = j
    BY <1>1 DEF RowType
  <1>3. row' = [row EXCEPT ![n] = new]
    BY <1>1 DEF Touch
  <1>. HIDE DEF new, n
  <1>4. row'[n] = new /\ \A m \in Name : m # n => row'[m] = row[m]
    BY <1>1, <1>3
  <1>5. ASSUME NEW k \in Instance, k # i, Registered(k)'
        PROVE  Registered(k) /\ row'[NameOf[k]] = row[NameOf[k]]
    <2>1. NameOf[k] \in Name /\ row'[NameOf[k]].instance = k
      BY <1>5 DEF Bounds, Registered
    <2>2. NameOf[k] # n
      BY <1>2, <1>4, <1>5, <2>1
    <2>. QED
      BY <1>4, <2>1, <2>2 DEF Registered
  <1>. QED
    BY <1>1, <1>2, <1>3, <1>4, <1>5 DEF n

-----------------------------------------------------------------------------
(* The steps of the main thread.                                            *)

LEMMA StartStep ==
  ASSUME Bounds, IInv, NEW i \in Instance, Start(i)
  PROVE  IInv'
  <1>. DEFINE new == [instance |-> i, status |-> "idle", job |-> NoJob]
  <1>1. /\ pc[i] = "new" /\ pc' = [pc EXCEPT ![i] = "loop"]
        /\ row' = [row EXCEPT ![NameOf[i]] = new] /\ UNCHANGED <<job, silent, exec, threads>>
    BY DEF Start, Go
  <1>2. Types /\ Counted
    BY Parts
  <1>3. NameOf[i] \in Name /\ new \in RowType /\ new.instance = i
    BY DEF Bounds, RowType
  <1>4. Types'
    BY <1>1, <1>2, <1>3 DEF Types
  <1>5. \A j \in Job : ~Runs(j, i)
    BY <1>1, FreeHands
  <1>6. Good(i)'
    BY <1>1, <1>2, <1>5 DEF Good, Runs, Types
  <1>7. ASSUME NEW k \in Instance, k # i
        PROVE  Good(k)'
    <2>1. Registered(k)' => Registered(k) /\ row'[NameOf[k]] = row[NameOf[k]]
      <3>. HIDE DEF new
      <3>. QED
        BY <1>1, <1>2, <1>3, <1>7 DEF Registered, Types, Bounds
    <2>. QED
      BY <1>1, <1>2, <1>7, <2>1, Others DEF Types
  <1>8. Counted'
    BY <1>1, <1>2 DEF Counted, Types
  <1>. QED
    BY <1>4, <1>6, <1>7, <1>8, Whole

LEMMA TouchIdleStep ==
  ASSUME Bounds, IInv, NEW i \in Instance, TouchIdle(i)
  PROVE  IInv'
  <1>1. /\ pc[i] = "loop" /\ pc' = [pc EXCEPT ![i] = "recover"]
        /\ Touch(i, "idle", NoJob) /\ UNCHANGED <<job, silent, exec, threads>>
    BY DEF TouchIdle, Go
  <1>2. Types /\ Counted
    BY Parts
  <1>3. /\ row' \in [Name -> RowType] /\ row'[NameOf[i]].status = "idle"
        /\ \A k \in Instance : k # i /\ Registered(k)' =>
             Registered(k) /\ row'[NameOf[k]] = row[NameOf[k]]
    BY <1>1, <1>2, TouchedRow
  <1>4. Types'
    BY <1>1, <1>2, <1>3 DEF Types
  <1>5. Good(i)'
    BY <1>1, <1>3, FreeHands DEF Good, Runs
  <1>6. \A k \in Instance : k # i => Good(k)'
    BY <1>1, <1>2, <1>3, Others DEF Types
  <1>7. Counted'
    BY <1>1, <1>2 DEF Counted, Types
  <1>. QED
    BY <1>4, <1>5, <1>6, <1>7, Whole

\* Recovering ends claims and nothing else.
LEMMA RecoverStep ==
  ASSUME Bounds, IInv, NEW i \in Instance, Recover(i) \/ NothingToClaim(i)
  PROVE  IInv'
  <1>1. /\ pc[i] \in {"recover", "claim"} /\ UNCHANGED <<row, exec, threads>>
        /\ \E stage \in {"claim", "loop"} :
             /\ pc' = [pc EXCEPT ![i] = stage]
             /\ stage = "claim" => pc[i] = "recover"
    BY DEF Recover, NothingToClaim, Go
  <1>2. Types /\ Counted /\ Good(i)
    BY Parts
  <1>3. \/ UNCHANGED <<job, silent>>
        \/ /\ job' = [j \in Job |-> IF j \in silent THEN Recovered(j) ELSE job[j]]
           /\ silent' = {}
    BY DEF Recover, NothingToClaim
  <1>4. \A j \in Job : Recovered(j) \in JobType /\ Recovered(j).status # "running"
    BY <1>2 DEF Recovered, JobType, Types
  <1>5. /\ job' \in [Job -> JobType] /\ silent' \subseteq Job
        /\ \A j \in Job : job'[j].status = "running" => job'[j] = job[j]
    BY <1>2, <1>3, <1>4 DEF Types
  <1>6. Types'
    BY <1>1, <1>2, <1>5 DEF Types
  <1>7. \A j \in Job : ~Runs(j, i)'
    BY <1>1, <1>5, FreeHands DEF Runs
  <1>8. Good(i)'
    BY <1>1, <1>2, <1>7 DEF Good, Types, Registered
  <1>9. ASSUME NEW k \in Instance, k # i
        PROVE  Good(k)'
    <2>1. pc'[k] = pc[k] /\ exec'[k] = exec[k]
      BY <1>1, <1>2, <1>9 DEF Types
    <2>2. \A j \in Job : Runs(j, k)' => job'[j] = job[j]
      BY <1>5 DEF Runs
    <2>3. Registered(k)' => Registered(k) /\ row'[NameOf[k]] = row[NameOf[k]]
      BY <1>1 DEF Registered
    <2>. QED
      BY <2>1, <2>2, <2>3, Others
  <1>10. Counted'
    BY <1>1, <1>2, <1>5 DEF Counted, Types
  <1>. QED
    BY <1>6, <1>8, <1>9, <1>10, Whole

LEMMA ClaimStep ==
  ASSUME Bounds, IInv, NEW i \in Instance, NEW j \in Job, Claim(i, j)
  PROVE  IInv'
  <1>. DEFINE n == job[j].attempt + 1
              e == [job |-> j, attempt |-> job[j].attempt + 1]
              claimed == [status |-> "running", worker |-> i, attempt |-> job[j].attempt + 1]
  <1>1. /\ pc[i] = "claim" /\ pc' = [pc EXCEPT ![i] = "run"]
        /\ job[j].attempt < MaxAttempts
        /\ job' = [job EXCEPT ![j] = claimed] /\ Touch(i, "running", j)
        /\ exec' = [exec EXCEPT ![i] = e]
        /\ threads' = [threads EXCEPT ![i] = @ \cup {exec'[i]}] /\ silent' = silent
    BY DEF Claim, Candidate, Go
  <1>2. Types /\ Counted
    BY Parts
  <1>3. /\ row' \in [Name -> RowType] /\ row'[NameOf[i]].job = j
        /\ \A k \in Instance : k # i /\ Registered(k)' =>
             Registered(k) /\ row'[NameOf[k]] = row[NameOf[k]]
    BY <1>1, <1>2, TouchedRow
  <1>4. n \in 0 .. MaxAttempts /\ n > 0
    <2>1. job[j].attempt \in 0 .. MaxAttempts
      BY <1>2 DEF Types, JobType
    <2>. QED
      BY <1>1, <2>1 DEF Bounds
  <1>5. claimed \in JobType /\ e \in Execution
    BY <1>4 DEF JobType, Execution
  <1>6. claimed.worker = i /\ claimed.attempt = n /\ e = [job |-> j, attempt |-> n]
    OBVIOUS
  <1>. HIDE DEF n, e, claimed
  <1>7. Types'
    BY <1>1, <1>2, <1>3, <1>5 DEF Types
  <1>8. exec'[i] = e /\ job'[j] = claimed /\ \A m \in Job : m # j => job'[m] = job[m]
    BY <1>1, <1>2 DEF Types
  <1>9. \A m \in Job : Runs(m, i)' => m = j
    BY <1>1, <1>8, FreeHands DEF Runs
  <1>10. Good(i)'
    BY <1>1, <1>2, <1>3, <1>6, <1>8, <1>9 DEF Good, Types
  <1>11. ASSUME NEW k \in Instance, k # i
         PROVE  Good(k)'
    <2>1. \A m \in Job : Runs(m, k)' => job'[m] = job[m]
      BY <1>6, <1>8, <1>11 DEF Runs
    <2>. QED
      BY <1>1, <1>2, <1>3, <1>11, <2>1, Others DEF Types
  <1>12. Counted'
    BY <1>1, <1>2, <1>4, <1>6, <1>8 DEF Counted, Types
  <1>. QED
    BY <1>7, <1>10, <1>11, <1>12, Whole

LEMMA ClaimInvalidStep ==
  ASSUME Bounds, IInv, NEW i \in Instance, NEW j \in Job, ClaimInvalid(i, j)
  PROVE  IInv'
  <1>. DEFINE failed == [[job[j] EXCEPT !.status = "failed"] EXCEPT !.worker = Nobody]
  <1>1. /\ pc[i] = "claim" /\ pc' = [pc EXCEPT ![i] = "loop"] /\ Touch(i, "idle", NoJob)
        /\ UNCHANGED <<silent, exec, threads>>
    BY DEF ClaimInvalid, Go
  <1>2. Types /\ Counted
    BY Parts
  <1>3. job' = [job EXCEPT ![j] = failed]
    BY <1>2 DEF ClaimInvalid, Types
  <1>4. failed \in JobType /\ failed.status = "failed"
    BY <1>2 DEF Types, JobType
  <1>5. /\ row' \in [Name -> RowType]
        /\ \A k \in Instance : k # i /\ Registered(k)' =>
             Registered(k) /\ row'[NameOf[k]] = row[NameOf[k]]
    BY <1>1, <1>2, TouchedRow
  <1>. HIDE DEF failed
  <1>6. Types'
    BY <1>1, <1>2, <1>3, <1>4, <1>5 DEF Types
  <1>7. \A m \in Job : job'[m].status = "running" => job'[m] = job[m]
    BY <1>2, <1>3, <1>4 DEF Types
  <1>8. Good(i)'
    BY <1>1, <1>2, <1>7, FreeHands DEF Good, Runs, Types
  <1>9. ASSUME NEW k \in Instance, k # i
        PROVE  Good(k)'
    <2>1. \A m \in Job : Runs(m, k)' => job'[m] = job[m]
      BY <1>7 DEF Runs
    <2>. QED
      BY <1>1, <1>2, <1>5, <1>9, <2>1, Others DEF Types
  <1>10. Counted'
    BY <1>1, <1>2, <1>7 DEF Counted, Types
  <1>. QED
    BY <1>6, <1>8, <1>9, <1>10, Whole

LEMMA EndedThread ==
  ASSUME Types, NEW i \in Instance, EndThread(i)
  PROVE  /\ threads' \in [Instance -> SUBSET Execution]
         /\ \A k \in Instance : threads'[k] \subseteq threads[k]
  BY DEF Types, EndThread

LEMMA SettleStep ==
  ASSUME Bounds, IInv, NEW i \in Instance, NEW status \in {"success", "failed", "queued"},
         Settle(i, status)
  PROVE  IInv'
  <1>. DEFINE e == exec[i]
              n == IF status = "queued" THEN job[e.job].attempt - 1 ELSE job[e.job].attempt
              settled == [status |-> status, worker |-> IF status = "queued" THEN Nobody ELSE i,
                          attempt |-> n]
  <1>1. /\ pc[i] = "run" /\ Owns(i, e) /\ pc' = [pc EXCEPT ![i] = "loop"]
        /\ job' = [job EXCEPT ![e.job] = settled] /\ silent' = silent \ {e.job}
        /\ Touch(i, "idle", NoJob) /\ EndThread(i)
        /\ exec' = [exec EXCEPT ![i] = NoExecution]
    BY DEF Settle, Go
  <1>2. Types /\ Counted /\ e \in Execution
    BY Parts DEF Types
  <1>3. /\ e.job \in Job /\ job[e.job].attempt = e.attempt /\ e.attempt > 0
        /\ \A j \in Job : Runs(j, i) => j = e.job
    BY <1>1, <1>2, OwnedIsRun
  <1>4. settled \in JobType /\ settled.status # "running"
    <2>1. job[e.job].attempt \in 0 .. MaxAttempts
      BY <1>2, <1>3 DEF Types, JobType
    <2>2. n \in 0 .. MaxAttempts
      BY <1>3, <2>1 DEF Bounds
    <2>. HIDE DEF n
    <2>. QED
      BY <2>2 DEF JobType
  <1>5. /\ row' \in [Name -> RowType]
        /\ \A k \in Instance : k # i /\ Registered(k)' =>
             Registered(k) /\ row'[NameOf[k]] = row[NameOf[k]]
    BY <1>1, <1>2, TouchedRow
  <1>6. /\ threads' \in [Instance -> SUBSET Execution]
        /\ \A k \in Instance : threads'[k] \subseteq threads[k]
    BY <1>1, <1>2, EndedThread
  <1>7. NoExecution \in Execution
    BY DEF NoExecution, Execution, Bounds
  <1>. HIDE DEF e, n, settled
  <1>8. Types'
    BY <1>1, <1>2, <1>3, <1>4, <1>5, <1>6, <1>7 DEF Types
  <1>9. /\ \A m \in Job : job'[m].status = "running" => job'[m] = job[m]
        /\ job'[e.job].status # "running"
    BY <1>1, <1>2, <1>3, <1>4 DEF Types
  <1>10. Good(i)'
    <2>1. \A m \in Job : ~Runs(m, i)'
      BY <1>3, <1>9 DEF Runs
    <2>. QED
      BY <1>1, <1>2, <2>1 DEF Good, Types
  <1>11. ASSUME NEW k \in Instance, k # i
         PROVE  Good(k)'
    <2>1. \A m \in Job : Runs(m, k)' => job'[m] = job[m]
      BY <1>9 DEF Runs
    <2>. QED
      BY <1>1, <1>2, <1>5, <1>11, <2>1, Others DEF Types
  <1>12. Counted'
    BY <1>1, <1>2, <1>6, <1>9 DEF Counted, Types
  <1>. QED
    BY <1>8, <1>10, <1>11, <1>12, Whole

LEMMA LostStep ==
  ASSUME Bounds, IInv, NEW i \in Instance, Lost(i)
  PROVE  IInv'
  <1>1. /\ pc[i] = "run" /\ ~Owns(i, exec[i]) /\ EndThread(i)
        /\ pc' = [pc EXCEPT ![i] = "loop"] /\ UNCHANGED <<row, job, silent, exec>>
    BY DEF Lost, Go
  <1>2. Types /\ Counted
    BY Parts
  <1>3. /\ threads' \in [Instance -> SUBSET Execution]
        /\ \A k \in Instance : threads'[k] \subseteq threads[k]
    BY <1>1, <1>2, EndedThread
  <1>4. Types'
    BY <1>1, <1>2, <1>3 DEF Types
  <1>5. \A j \in Job : ~Runs(j, i)
    BY <1>1, FreeHands
  <1>6. Good(i)'
    BY <1>1, <1>2, <1>5 DEF Good, Runs, Types
  <1>7. ASSUME NEW k \in Instance, k # i
        PROVE  Good(k)'
    BY <1>1, <1>2, <1>7, Others DEF Types, Registered
  <1>8. Counted'
    BY <1>1, <1>2, <1>3 DEF Counted, Types
  <1>. QED
    BY <1>4, <1>6, <1>7, <1>8, Whole

\* The process ends, with or without saying so.
LEMMA GoneStep ==
  ASSUME Bounds, IInv, NEW i \in Instance,
         \/ Leave(i)
         \/ pc[i] # "new" /\ Die(i)
  PROVE  IInv'
  <1>. DEFINE stopped == [[row[NameOf[i]] EXCEPT !.status = "stopped"] EXCEPT !.job = NoJob]
  <1>1. /\ pc' = [pc EXCEPT ![i] = "gone"] /\ exec' = [exec EXCEPT ![i] = NoExecution]
        /\ threads' = [threads EXCEPT ![i] = {}] /\ UNCHANGED <<job, silent>>
    BY DEF Leave, Die, Go
  <1>2. Types /\ Counted /\ Good(i)
    BY Parts
  <1>3. NameOf[i] \in Name /\ row[NameOf[i]] \in RowType
    BY <1>2 DEF Bounds, Types
  <1>4. /\ stopped \in RowType /\ stopped.instance = row[NameOf[i]].instance
        /\ stopped.status = "stopped"
    BY <1>3 DEF RowType
  <1>5. \/ row' = row /\ (Registered(i) => Die(i))
        \/ Registered(i) /\ row' = [row EXCEPT ![NameOf[i]] = stopped]
    BY <1>2 DEF Leave, Die, Types
  <1>. HIDE DEF stopped
  <1>6. row' \in [Name -> RowType] /\ NoExecution \in Execution
    BY <1>2, <1>3, <1>4, <1>5 DEF Types, NoExecution, Execution, Bounds
  <1>7. Types'
    BY <1>1, <1>2, <1>6 DEF Types
  <1>8. Good(i)'
    <2>1. pc'[i] = "gone"
      BY <1>1, <1>2 DEF Types
    <2>2. CASE row' = row
      BY <1>1, <1>2, <2>1, <2>2 DEF Good, Runs, Registered
    <2>3. CASE row' = [row EXCEPT ![NameOf[i]] = stopped]
      <3>1. row'[NameOf[i]].status = "stopped"
        BY <1>2, <1>3, <1>4, <2>3 DEF Types
      <3>. QED
        BY <2>1, <3>1 DEF Good
    <2>. QED
      BY <1>5, <2>2, <2>3
  <1>9. ASSUME NEW k \in Instance, k # i
        PROVE  Good(k)'
    <2>1. Registered(k)' => Registered(k) /\ row'[NameOf[k]] = row[NameOf[k]]
      <3>1. CASE row' = row
        BY <3>1 DEF Registered
      <3>2. CASE Registered(i) /\ row' = [row EXCEPT ![NameOf[i]] = stopped]
        <4>1. row'[NameOf[i]].instance = i /\ \A m \in Name : m # NameOf[i] => row'[m] = row[m]
          BY <1>2, <1>3, <1>4, <3>2 DEF Types, Registered
        <4>2. NameOf[k] \in Name
          BY DEF Bounds
        <4>. QED
          BY <1>9, <4>1, <4>2 DEF Registered
      <3>. QED
        BY <1>5, <3>1, <3>2
    <2>. QED
      BY <1>1, <1>2, <1>9, <2>1, Others DEF Types
  <1>10. Counted'
    BY <1>1, <1>2 DEF Counted, Types
  <1>. QED
    BY <1>7, <1>8, <1>9, <1>10, Whole

-----------------------------------------------------------------------------
(* The heartbeat threads, and time.                                         *)

\* A late thread gets through only while it beats for what is running.
LEMMA BeatStep ==
  ASSUME Bounds, IInv, NEW i \in Instance, NEW e \in threads[i], Beat(i, e)
  PROVE  IInv'
  <1>1. /\ Owns(i, e) /\ Touch(i, "running", e.job) /\ silent' = silent \ {e.job}
        /\ \E left \in {threads[i], threads[i] \ {e}} : threads' = [threads EXCEPT ![i] = left]
        /\ UNCHANGED <<job, pc, exec>>
    BY DEF Beat
  <1>2. Types /\ Counted
    BY Parts
  <1>3. e \in Execution /\ pc[i] # "gone"
    BY <1>2 DEF Types, Counted
  <1>4. /\ e.job \in Job /\ pc[i] = "run"
        /\ \A j \in Job : Runs(j, i) => j = e.job
    BY <1>1, <1>3, OwnedIsRun
  <1>5. /\ row' \in [Name -> RowType] /\ row'[NameOf[i]].job = e.job
        /\ \A k \in Instance : k # i /\ Registered(k)' =>
             Registered(k) /\ row'[NameOf[k]] = row[NameOf[k]]
    BY <1>1, <1>2, <1>4, TouchedRow
  <1>6. /\ threads' \in [Instance -> SUBSET Execution]
        /\ \A k \in Instance : threads'[k] \subseteq threads[k]
    BY <1>1, <1>2 DEF Types
  <1>7. Types'
    BY <1>1, <1>2, <1>5, <1>6 DEF Types
  <1>8. Good(i)'
    <2>1. Good(i)
      BY Parts
    <2>. QED
      BY <1>1, <1>4, <1>5, <2>1 DEF Good, Runs
  <1>9. \A k \in Instance : k # i => Good(k)'
    BY <1>1, <1>5, Others
  <1>10. Counted'
    BY <1>1, <1>2, <1>6 DEF Counted
  <1>. QED
    BY <1>7, <1>8, <1>9, <1>10, Whole

LEMMA QuietStep ==
  ASSUME Bounds, IInv,
         \/ \E i \in Instance : \E e \in threads[i] : EndBeat(i, e)
         \/ \E j \in Job : Silence(j)
  PROVE  IInv'
  <1>1. UNCHANGED <<row, job, pc, exec>>
    BY DEF EndBeat, Silence
  <1>2. Types /\ Counted /\ \A i \in Instance : Good(i)
    BY Parts
  <1>3. /\ threads' \in [Instance -> SUBSET Execution]
        /\ \A k \in Instance : threads'[k] \subseteq threads[k]
        /\ silent' \subseteq Job
    BY <1>2 DEF EndBeat, Silence, Types
  <1>4. Types'
    BY <1>1, <1>2, <1>3 DEF Types
  <1>5. \A i \in Instance : Good(i)'
    BY <1>1, <1>2 DEF Good, Runs, Registered
  <1>6. Counted'
    BY <1>1, <1>2, <1>3 DEF Counted
  <1>. QED
    BY <1>4, <1>5, <1>6, Whole

-----------------------------------------------------------------------------
(* The theorems.                                                            *)

LEMMA InitHolds ==
  ASSUME Bounds, Init
  PROVE  IInv
  <1>1. Types
    BY DEF Init, Types, RowType, JobType, Execution, NoExecution, Bounds
  <1>2. Counted /\ \A i \in Instance : Good(i)
    BY DEF Init, Counted, Good, Runs
  <1>. QED
    BY <1>1, <1>2, Parts

LEMMA StepHolds ==
  ASSUME Bounds, IInv, [Next]_vars
  PROVE  IInv'
  <1>1. CASE UNCHANGED vars
    BY <1>1 DEF vars, IInv, Types, ClaimsAreHeld, RowsTellTheTruth, ClaimsAreShown, IdleIsShown,
                Registered
  <1>2. ASSUME NEW i \in Instance, Refused(i) \/ Stop(i) \/ Die(i)
        PROVE  IInv'
    BY <1>2, GoneStep DEF Refused, Stop, Die
  <1>. QED
    BY <1>1, <1>2, StartStep, TouchIdleStep, RecoverStep, ClaimStep, ClaimInvalidStep, SettleStep,
       LostStep, BeatStep, QuietStep DEF Next

LEMMA Promises ==
  ASSUME IInv
  PROVE  TypeOK /\ RowsTellTheTruth
  BY DEF IInv, Types, TypeOK, RowType, JobType, Execution

THEOREM Inductive ==
  ASSUME Bounds
  PROVE  Spec => []IInv
  BY InitHolds, StepHolds, PTL DEF Spec

\* Rows, jobs and executions hold values of their tables.
THEOREM TypeCorrect ==
  ASSUME Bounds
  PROVE  Spec => []TypeOK
  BY Inductive, Promises, PTL

\* Whatever an older instance or a late heartbeat thread tries to write, the registry shows
\* what the registered instance of a name does.
THEOREM RegistryIsTrue ==
  ASSUME Bounds
  PROVE  Spec => []RowsTellTheTruth
  BY Inductive, Promises, PTL
=============================================================================
