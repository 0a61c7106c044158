--------------------------- MODULE WorkerRuntime ---------------------------
(***************************************************************************)
(* The registry of worker processes (worker_runtime_service.py) next to the *)
(* claims it reports: one row per worker name, taken over by each new start *)
(* of that name while the old process may still be running, written in the  *)
(* same transaction as every claim, heartbeat and settlement                *)
(* (sync_worker.py) by the main thread and the heartbeat thread.            *)
(*                                                                          *)
(* Of SyncJobQueue only what a claim is remains: a status, a holder and an  *)
(* attempt.  The named lock is left out: it may be lost, so recovery is     *)
(* stopped by nothing but a fresh heartbeat.                                *)
(***************************************************************************)
EXTENDS Integers

CONSTANTS
  Instance,     \* starts of a worker, each with an id of its own
  Name,         \* worker names
  NameOf,       \* the name each instance starts with
  Job,
  MaxAttempts   \* max_attempts of every job

VARIABLES
  row,      \* worker_runtimes, per name
  job,      \* sync_jobs: status, worker_id, attempt_count
  silent,   \* jobs whose last heartbeat is older than stale_after_seconds
  pc,       \* where the main thread of each instance is
  exec,     \* the execution each instance claimed last
  threads   \* heartbeat threads of each instance, by execution; some outlive it

vars == <<row, job, silent, pc, exec, threads>>

Nobody == "nobody"
NoJob == "none"
NoExecution == [job |-> NoJob, attempt |-> 0]

Init ==
  /\ row = [n \in Name |-> [instance |-> Nobody, status |-> "none", job |-> NoJob]]
  /\ job = [j \in Job |-> [status |-> "queued", worker |-> Nobody, attempt |-> 0]]
  /\ silent = {}
  /\ pc = [i \in Instance |-> "new"]
  /\ exec = [i \in Instance |-> NoExecution]
  /\ threads = [i \in Instance |-> {}]

Go(i, stage) == pc' = [pc EXCEPT ![i] = stage]

\* touch_worker_runtime: only the registered instance gets through; any other one
\* raises, which rolls the whole transaction back.
Registered(i) == row[NameOf[i]].instance = i

\* A slip: an older instance writes the row too.
TouchAny(i, status, j) ==
  row' = [row EXCEPT ![NameOf[i]].status = status, ![NameOf[i]].job = j]

Touch(i, status, j) ==
  /\ Registered(i)
  /\ row' = [row EXCEPT ![NameOf[i]].status = status, ![NameOf[i]].job = j]

\* _owns_execution
Owns(i, e) ==
  e.job # NoJob /\ job[e.job] = [status |-> "running", worker |-> i, attempt |-> e.attempt]

\* stop_worker_runtime, in the finally of main: silent when another instance registered.
\* The daemon threads end with the process.
Leave(i) ==
  /\ Go(i, "gone")
  /\ exec' = [exec EXCEPT ![i] = NoExecution]
  /\ threads' = [threads EXCEPT ![i] = {}]
  /\ row' = IF Registered(i)
            THEN [row EXCEPT ![NameOf[i]].status = "stopped", ![NameOf[i]].job = NoJob]
            ELSE row
  /\ UNCHANGED <<job, silent>>

-----------------------------------------------------------------------------
(* The main thread: run_worker_loop.                                        *)

\* start_worker_runtime: the row is taken over whatever it says.
Start(i) ==
  /\ pc[i] = "new"
  /\ Go(i, "loop")
  /\ row' = [row EXCEPT ![NameOf[i]] = [instance |-> i, status |-> "idle", job |-> NoJob]]
  /\ UNCHANGED <<job, silent, exec, threads>>

\* heartbeat_runtime
TouchIdle(i) ==
  /\ pc[i] = "loop"
  /\ Touch(i, "idle", NoJob)
  /\ Go(i, "recover")
  /\ UNCHANGED <<job, silent, exec, threads>>

\* recover_stale_jobs, with or without success: the lock may be busy.
Recovered(j) ==
  [status |-> IF job[j].attempt < MaxAttempts THEN "queued" ELSE "failed",
   worker |-> Nobody, attempt |-> job[j].attempt]

Recover(i) ==
  /\ pc[i] = "recover"
  /\ \/ /\ job' = [j \in Job |-> IF j \in silent THEN Recovered(j) ELSE job[j]]
        /\ silent' = {}
        /\ Go(i, "claim")
     \/ Go(i, "loop") /\ UNCHANGED <<job, silent>>
  /\ UNCHANGED <<row, exec, threads>>

\* _claim_candidate_statement
Candidate(j) == job[j].status = "queued" /\ job[j].attempt < MaxAttempts

\* _claim_next: the claim and the row are one transaction.
Claim(i, j) ==
  /\ pc[i] = "claim"
  /\ Candidate(j)
  /\ job' = [job EXCEPT ![j] = [status |-> "running", worker |-> i, attempt |-> @.attempt + 1]]
  /\ Touch(i, "running", j)
  /\ exec' = [exec EXCEPT ![i] = [job |-> j, attempt |-> job[j].attempt + 1]]
  /\ threads' = [threads EXCEPT ![i] = @ \cup {exec'[i]}]
  /\ Go(i, "run")
  /\ UNCHANGED silent

\* A job without an API fails when it is claimed.
ClaimInvalid(i, j) ==
  /\ pc[i] = "claim"
  /\ Candidate(j)
  /\ job' = [job EXCEPT ![j].status = "failed", ![j].worker = Nobody]
  /\ Touch(i, "idle", NoJob)
  /\ Go(i, "loop")
  /\ UNCHANGED <<silent, exec, threads>>

NothingToClaim(i) ==
  /\ pc[i] = "claim"
  /\ \A j \in Job : ~Candidate(j)
  /\ Go(i, "loop")
  /\ UNCHANGED <<row, job, silent, exec, threads>>

\* run_once waits for the heartbeat thread a limited time only: the thread may
\* still be inside one last heartbeat when the main thread goes on.
EndThread(i) ==
  \E left \in {threads[i], threads[i] \ {exec[i]}} : threads' = [threads EXCEPT ![i] = left]

\* _finish, and _requeue_lock_busy, which gives the attempt back.
Settle(i, status) ==
  /\ pc[i] = "run"
  /\ Owns(i, exec[i])
  /\ job' = [job EXCEPT ![exec[i].job] =
       [status |-> status, worker |-> IF status = "queued" THEN Nobody ELSE i,
        attempt |-> IF status = "queued" THEN @.attempt - 1 ELSE @.attempt]]
  /\ silent' = silent \ {exec[i].job}
  /\ Touch(i, "idle", NoJob)
  /\ EndThread(i)
  /\ exec' = [exec EXCEPT ![i] = NoExecution]
  /\ Go(i, "loop")

\* The claim was recovered under the worker: it drops the execution, and its row
\* is right again with the heartbeat of the next round.
Lost(i) ==
  /\ pc[i] = "run"
  /\ ~Owns(i, exec[i])
  /\ EndThread(i)
  /\ Go(i, "loop")
  /\ UNCHANGED <<row, job, silent, exec>>

\* The instance lost its name, or its database failed: main runs its finally.
Refused(i) ==
  /\ \/ pc[i] \in {"loop", "claim"}
     \/ pc[i] = "run" /\ Owns(i, exec[i])
  /\ ~Registered(i)
  /\ Leave(i)

\* A stop signal between two jobs, or an exception at any point.
Stop(i) == pc[i] \notin {"new", "gone"} /\ Leave(i)

\* The process is killed, and says nothing.
Die(i) ==
  /\ pc[i] \notin {"new", "gone"}
  /\ Go(i, "gone")
  /\ exec' = [exec EXCEPT ![i] = NoExecution]
  /\ threads' = [threads EXCEPT ![i] = {}]
  /\ UNCHANGED <<row, job, silent>>

-----------------------------------------------------------------------------
(* The heartbeat of an execution: the thread, and the check between pages.  *)

\* A heartbeat that is not refused; a thread that is not needed any more ends after it.
Beat(i, e) ==
  /\ e \in threads[i]
  /\ Owns(i, e)
  /\ Touch(i, "running", e.job)
  /\ silent' = silent \ {e.job}
  /\ threads' = [threads EXCEPT ![i] = IF pc[i] = "run" /\ e = exec[i] THEN @ ELSE @ \ {e}]
  /\ UNCHANGED <<job, pc, exec>>

\* _SyncJobOwnershipLost ends the thread; so does the RuntimeError of the registry,
\* which _heartbeat_loop does not catch.
EndBeat(i, e) ==
  /\ e \in threads[i]
  /\ ~Owns(i, e) \/ ~Registered(i)
  /\ threads' = [threads EXCEPT ![i] = @ \ {e}]
  /\ UNCHANGED <<row, job, silent, pc, exec>>

\* Time passes without a heartbeat of the job.
Silence(j) ==
  /\ job[j].status = "running" /\ j \notin silent
  /\ silent' = silent \cup {j}
  /\ UNCHANGED <<row, job, pc, exec, threads>>

-----------------------------------------------------------------------------
Next ==
  \/ \E i \in Instance :
       \/ Start(i) \/ TouchIdle(i) \/ Recover(i) \/ NothingToClaim(i)
       \/ \E j \in Job : Claim(i, j) \/ ClaimInvalid(i, j)
       \/ \E status \in {"success", "failed", "queued"} : Settle(i, status)
       \/ Lost(i) \/ Refused(i) \/ Stop(i) \/ Die(i)
       \/ \E e \in threads[i] : Beat(i, e) \/ EndBeat(i, e)
  \/ \E j \in Job : Silence(j)

Spec == Init /\ [][Next]_vars

TypeOK ==
  /\ row \in [Name -> [instance : Instance \cup {Nobody},
                       status : {"none", "idle", "running", "stopped"}, job : Job \cup {NoJob}]]
  /\ job \in [Job -> [status : {"queued", "running", "success", "failed"},
                      worker : Instance \cup {Nobody}, attempt : 0 .. MaxAttempts]]
  /\ silent \subseteq Job
  /\ pc \in [Instance -> {"new", "loop", "recover", "claim", "run", "gone"}]
  /\ \A i \in Instance : {exec[i]} \cup threads[i] \subseteq
       [job : Job \cup {NoJob}, attempt : 0 .. MaxAttempts]

\* A running job is shown by the row of its worker's name as long as the worker is
\* the registered instance of that name, or has said that it stopped.
ClaimsAreShown ==
  \A j \in Job : \A i \in Instance :
    job[j].status = "running" /\ job[j].worker = i /\ Registered(i) =>
      row[NameOf[i]].job = j \/ row[NameOf[i]].status = "stopped"

\* A worker that went on to look for a job is not shown running an old one.
IdleIsShown ==
  \A i \in Instance :
    pc[i] \in {"recover", "claim"} /\ Registered(i) => row[NameOf[i]].status = "idle"

\* The registry shows what the registered instance of a name does, whatever an
\* older instance of the name and late heartbeat threads still try to write.
RowsTellTheTruth == ClaimsAreShown /\ IdleIsShown
=============================================================================
