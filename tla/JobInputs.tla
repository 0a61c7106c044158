----------------------------- MODULE JobInputs -----------------------------
(***************************************************************************)
(* What a job runs with: the credentials of its account, which operators    *)
(* change, verify and deactivate (jijia_account_service.py), and the         *)
(* configuration of its API, which is published while jobs wait and run      *)
(* (api_config_publish_service.py, api_config_registry.py).  A job keeps the *)
(* configuration it was entered with, and hands it on (sync_job_factory.py,  *)
(* sync_worker.py).                                                         *)
(*                                                                          *)
(* One account, one API, whose policy is enabled.  The queue is SyncJobQueue *)
(* in short: one active job, claimed and settled.                            *)
(***************************************************************************)
EXTENDS Integers, Sequences

CONSTANTS
  Request,          \* sessions of operators
  Endpoint,         \* method and path an API may be published with
  MaxCredentials,   \* bound: credentials ever given to the account
  MaxVersions,      \* bound: publications of the API
  MaxJobs,          \* bound: jobs ever entered
  Overlap           \* TRUE: a request may write what it read before another's commit


VARIABLES
  account,  \* status, credentials, and how many were ever issued
  proven,   \* credentials that the upstream accepted in a verification
  config,   \* the published row of the API
  request,  \* what each session has read
  jobs      \* the jobs of the target, in the order of their ids

vars == <<account, proven, config, request, jobs>>

NoRequest == [kind |-> "none", status |-> "pending", cred |-> 0, accepted |-> FALSE]

\* create_account: new credentials have to be verified.
Init ==
  /\ account = [status |-> "pending", cred |-> 1, issued |-> 1]
  /\ proven = {}
  /\ config \in [version : {1}, body : {1}, endpoint : Endpoint, enabled : BOOLEAN]
  /\ request = [r \in Request |-> NoRequest]
  /\ jobs = << >>

Free(r) == request[r].kind = "none"
Close(r) == request' = [request EXCEPT ![r] = NoRequest]

\* Nobody changed the account since the request read it.
Fresh(r) == request[r].status = account.status /\ request[r].cred = account.cred

-----------------------------------------------------------------------------
(* The account.                                                             *)

\* A request that ends without writing.
GiveUp(r) ==
  /\ ~Free(r)
  /\ Close(r)
  /\ UNCHANGED <<account, proven, config, jobs>>

\* A request reads the account; what it read is what it compares and writes with.
Open(r, kind) ==
  /\ Free(r)
  /\ request' = [request EXCEPT ![r] =
       [NoRequest EXCEPT !.kind = kind, !.status = account.status, !.cred = account.cred]]
  /\ UNCHANGED <<account, proven, config, jobs>>

\* The session writes a status only when it differs from the one it read.
Status(r, new) == IF new = request[r].status THEN account.status ELSE new

\* update_account: new credentials are to be verified; they are encrypted anew, so
\* they differ from all earlier ones.
Update(r) ==
  /\ request[r].kind = "update" /\ account.issued < MaxCredentials
  /\ Overlap \/ Fresh(r)
  /\ account' = [account EXCEPT !.status = Status(r, "pending"), !.cred = account.issued + 1,
                                !.issued = @ + 1]
  /\ Close(r)
  /\ UNCHANGED <<proven, config, jobs>>

\* deactivate_account.
Deactivate(r) ==
  /\ request[r].kind = "deactivate"
  /\ Overlap \/ Fresh(r)
  /\ account' = [account EXCEPT !.status = Status(r, "inactive")]
  /\ Close(r)
  /\ UNCHANGED <<proven, config, jobs>>

\* verify_account: the token request, outside of any transaction.
Ask(r) ==
  /\ request[r].kind = "verify"
  /\ \E accepted \in BOOLEAN :
       /\ request' = [request EXCEPT ![r].kind = "answered", ![r].accepted = accepted]
       /\ proven' = IF accepted THEN proven \cup {request[r].cred} ELSE proven
  /\ UNCHANGED <<account, config, jobs>>

\* A slip: only the status is compared.
UnchangedStatus(r) == account.status = request[r].status

\* The locked account is still the one that was verified.
Unchanged(r) == account.cred = request[r].cred /\ account.status = request[r].status

\* verify_account: the answer is written, or refused (ACCOUNT_VERIFY_STALE).
Verify(r) ==
  /\ request[r].kind = "answered"
  /\ account' = IF Unchanged(r)
                THEN [account EXCEPT !.status = IF request[r].accepted THEN "active" ELSE "failed"]
                ELSE account
  /\ Close(r)
  /\ UNCHANGED <<proven, config, jobs>>

-----------------------------------------------------------------------------
(* The configuration.                                                       *)

\* publish_api_configs: a changed configuration gets a new version; one that is no
\* longer published is disabled.  What is not changed keeps its version.
Publish ==
  /\ config.version < MaxVersions
  /\ \/ \E e \in Endpoint :
          config' = [version |-> config.version + 1, body |-> config.version + 1,
                     endpoint |-> e, enabled |-> TRUE]
     \/ /\ config.enabled
        /\ config' = [config EXCEPT !.version = @ + 1, !.enabled = FALSE]
  /\ UNCHANGED <<account, proven, request, jobs>>

-----------------------------------------------------------------------------
(* The jobs.                                                                *)

Waiting == {j \in DOMAIN jobs : jobs[j].status \in {"queued", "running", "paused"}}
Frozen == [body |-> config.body, endpoint |-> config.endpoint]

\* A job: the execution it goes on from, its configuration, what it was run with.
Entered(from, snapshot) ==
  [status |-> "queued", from |-> from, snapshot |-> snapshot, ran |-> 0, cred |-> 0]

\* _eligible_account, of the status that was read.
Eligible(status) == status = "active" /\ config.enabled

\* create_manual_job: the account was read before, unlocked, and may have changed; the
\* job gets the configuration that its window was planned with.
Create(r) ==
  /\ request[r].kind = "create"
  /\ IF Eligible(request[r].status) /\ Waiting = {} /\ Len(jobs) < MaxJobs
       THEN jobs' = Append(jobs, Entered(0, Frozen))
       ELSE UNCHANGED jobs
  /\ Close(r)
  /\ UNCHANGED <<account, proven, config>>

\* retry_job: the new execution takes the configuration that is published now.
Retry(r, j) ==
  /\ request[r].kind = "create"
  /\ j \in DOMAIN jobs /\ jobs[j].status = "failed"
  /\ Eligible(request[r].status) /\ Waiting = {} /\ Len(jobs) < MaxJobs
  /\ jobs' = Append(jobs, Entered(0, Frozen))
  /\ Close(r)
  /\ UNCHANGED <<account, proven, config>>

\* A slip: what continues takes the configuration that is published now.
ContinuedWithNew(j) == Entered(j, Frozen)

\* The next window of a success, and what resumes a pause, keep the configuration.
Continued(j) == Entered(j, jobs[j].snapshot)

\* _resumable_job
Resumable(j) == jobs[j].status = "paused"

\* resume_job: the account is read again under the lock of the policy.
Resume(j) ==
  /\ Resumable(j) /\ Eligible(account.status)
  /\ Len(jobs) < MaxJobs
  /\ jobs' = Append([jobs EXCEPT ![j].status = "ended"], Continued(j))
  /\ UNCHANGED <<account, proven, config, request>>

\* _execute_locked: the account is read when the engine starts; the endpoint must be
\* the one that is published, with its rate limit.
MayRun(j) ==
  /\ account.status = "active"
  /\ config.enabled /\ config.endpoint = jobs[j].snapshot.endpoint

Begin(j) ==
  /\ jobs[j].status = "queued" /\ MayRun(j)
  /\ jobs' = [jobs EXCEPT ![j].status = "running", ![j].ran = jobs[j].snapshot.body,
                          ![j].cred = account.cred]
  /\ UNCHANGED <<account, proven, config, request>>

Refuse(j) ==
  /\ jobs[j].status = "queued" /\ ~MayRun(j)
  /\ jobs' = [jobs EXCEPT ![j].status = "failed"]
  /\ UNCHANGED <<account, proven, config, request>>

\* lock_chain_target_if_eligible
MayChain == Eligible(account.status)

\* _finish and _requeue: a success is followed by the next window while the account
\* and the configuration still allow it.
Settle(j) ==
  /\ jobs[j].status = "running"
  /\ \/ \E status \in {"failed", "paused", "ended", "queued"} :
          jobs' = [jobs EXCEPT ![j].status = status]
     \/ /\ MayChain /\ Len(jobs) < MaxJobs
        /\ jobs' = Append([jobs EXCEPT ![j].status = "ended"], Continued(j))
  /\ UNCHANGED <<account, proven, config, request>>

Next ==
  \/ \E r \in Request :
       \/ \E kind \in {"update", "deactivate", "verify", "create"} : Open(r, kind)
       \/ GiveUp(r) \/ Update(r) \/ Deactivate(r) \/ Ask(r) \/ Verify(r) \/ Create(r)
       \/ \E j \in DOMAIN jobs : Retry(r, j)
  \/ \E j \in DOMAIN jobs : Resume(j) \/ Begin(j) \/ Refuse(j) \/ Settle(j)
  \/ Publish

Spec == Init /\ [][Next]_vars

-----------------------------------------------------------------------------
(* Properties.                                                              *)

TypeOK ==
  /\ account.status \in {"pending", "active", "failed", "inactive"}
  /\ account.cred = account.issued
  /\ config.version \in 1 .. MaxVersions /\ config.body <= config.version
  /\ \A j \in DOMAIN jobs : jobs[j].from < j /\ jobs[j].cred <= account.issued

\* An account is active only with credentials that were verified: a change forces a
\* new verification ("凭证变化后强制重新验证"), also one that comes while the old
\* credentials are being verified.
ActiveIsVerified == account.status = "active" => account.cred \in proven

\* A job that ran did so with verified credentials, and the windows that continue it
\* ran with the same configuration, whatever was published in between.
RunsAgree ==
  \A j \in DOMAIN jobs :
    jobs[j].ran # 0 =>
      /\ jobs[j].cred \in proven
      /\ jobs[j].from # 0 => jobs[j].ran = jobs[jobs[j].from].ran

=============================================================================
