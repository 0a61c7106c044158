-------------------------- MODULE MCServicesProofs --------------------------
(***************************************************************************)
(* The theorems about Access, ApiSync and WorkerRuntime, brought into the   *)
(* composition that is model-checked: the properties its run names hold of  *)
(* MCSpec, for any values of what MCServices leaves open, any number of     *)
(* actors, and outside of the stories too.  JobInputs, ParamSource,         *)
(* BackfillStart and LegacyAttribution are proved here, inside the          *)
(* composition, and so is RateLimiter, which it extends, for any number of  *)
(* callers, every pace and every cooldown.                                  *)
(***************************************************************************)
EXTENDS MCServices, FiniteSetTheorems, TLAPS

-----------------------------------------------------------------------------
(* Access.                                                                  *)

UsersInv == focus = "users" => Users!IInv

LEMMA UsersBounds == Users!Bounds
  BY DEF Users!Bounds

LEMMA UsersInit ==
  ASSUME MCInit
  PROVE  UsersInv
  BY UsersBounds, Users!InitHolds DEF MCInit, UsersInv

LEMMA UsersMoves ==
  ASSUME [MCNext]_MCvars, focus = "users"
  PROVE  [Users!Next]_Users!vars
  <1>1. CASE MCNext
    BY <1>1 DEF MCNext
  <1>2. CASE UNCHANGED MCvars
    BY <1>2 DEF MCvars, OfUsers, Users!vars
  <1>. QED
    BY <1>1, <1>2

LEMMA FocusStays ==
  ASSUME [MCNext]_MCvars
  PROVE  focus' = focus
  BY DEF MCNext, MCvars

LEMMA UsersStep ==
  ASSUME UsersInv, [MCNext]_MCvars
  PROVE  /\ UsersInv'
         /\ focus = "users" => Users!KeepsAnAdmin /\ Users!NoSuccessorSent
              /\ Users!TakesNothingBack
  <1>1. focus' = focus
    BY FocusStays
  <1>2. CASE focus = "users"
    <2>1. Users!IInv /\ [Users!Next]_Users!vars
      BY <1>2, UsersMoves DEF UsersInv
    <2>2. Users!IInv' /\ Users!KeepsAnAdmin /\ Users!NoSuccessorSent /\ Users!TakesNothingBack
      BY <2>1, UsersBounds, Users!StepHolds
    <2>. QED
      BY <2>2 DEF UsersInv
  <1>3. CASE focus # "users"
    BY <1>1, <1>3 DEF UsersInv
  <1>. QED
    BY <1>2, <1>3

LEMMA UsersAlways == MCSpec => []UsersInv
  BY UsersInit, UsersStep, PTL DEF MCSpec

\* Access: of a user's invitations, and of the resets, only the newest can be live.
THEOREM NewestTokenWorks == MCSpec => []LiveIsNewest
  <1>1. UsersInv => LiveIsNewest
    BY Users!Promises DEF UsersInv, LiveIsNewest
  <1>. QED
    BY <1>1, UsersAlways, PTL

\* Access: a session lives only under the password it was opened with and while its user is
\* not disabled.
THEOREM OldSessionsEnd == MCSpec => []LiveSessionsAreCurrent
  <1>1. UsersInv => LiveSessionsAreCurrent
    BY Users!Promises DEF UsersInv, LiveSessionsAreCurrent
  <1>. QED
    BY <1>1, UsersAlways, PTL

\* Access: once somebody can administer, somebody always can.
THEOREM AdminStays == MCSpec => AdminRemains
  <1>1. UsersInv /\ [MCNext]_MCvars => [focus = "users" => Users!KeepsAnAdmin]_MCvars
    BY UsersStep
  <1>. QED
    BY <1>1, UsersAlways, PTL DEF MCSpec, AdminRemains

\* Access: no token is used whose successor was delivered.
THEOREM SuccessorBars == MCSpec => UsedBeforeSuccessor
  <1>1. UsersInv /\ [MCNext]_MCvars => [focus = "users" => Users!NoSuccessorSent]_MCvars
    BY UsersStep
  <1>. QED
    BY <1>1, UsersAlways, PTL DEF MCSpec, UsedBeforeSuccessor

\* Access: the activity of a session goes forward, within its absolute end.
THEOREM ActivityForward == MCSpec => ActivityAdvances
  <1>1. UsersInv /\ [MCNext]_MCvars => [focus = "users" => Users!TakesNothingBack]_MCvars
    BY UsersStep
  <1>. QED
    BY <1>1, UsersAlways, PTL DEF MCSpec, ActivityAdvances

-----------------------------------------------------------------------------
(* ApiSync.                                                                 *)

SyncInv == focus = "sync" => Sync!IInv

LEMMA SyncBounds == Sync!Bounds
  <1>1. Sync!IsFiniteSet({1, 2, 3}) /\ Sync!Cardinality({1, 2, 3}) = 3
    <2>1. {1, 2, 3} = 1 .. 3
      OBVIOUS
    <2>2. Sync!IsFiniteSet(1 .. 3) /\ Sync!Cardinality(1 .. 3) = IF 1 > 3 THEN 0 ELSE 3 - 1 + 1
      <3>1. 1 \in Int /\ 3 \in Int
        OBVIOUS
      <3>. QED
        BY <3>1, Sync!FS_Interval, Zenon
    <2>. QED
      BY <2>1, <2>2
  <1>2. /\ <<1, 2, 3>> \in Seq({1, 2, 3})
        /\ \A i, j \in DOMAIN <<1, 2, 3>> : <<1, 2, 3>>[i] = <<1, 2, 3>>[j] => i = j
    OBVIOUS
  <1>. DEFINE S == {Api("pages", "history", "total", 2, Unlimited, TRUE),
                    Api("pages", "latest", "total", 1, Unlimited, FALSE),
                    Api("whole", "latest", "total", 2, 1, FALSE),
                    Api("whole", "latest", "total", 2, 2, FALSE),
                    Api("whole", "history", "short", 2, 2, FALSE),
                    Api("whole", "latest", "none", 2, Unlimited, FALSE)}
  <1>3. S \subseteq Sync!ApiSetting
    BY DEF Api, Unlimited, Sync!ApiSetting, Sync!None
  <1>4. ASSUME NEW s \in S
        PROVE  /\ s.overlap => s.commit = "pages" /\ s.storage = "history"
               /\ s.paging = "short" => s.served = 2 /\ s.maxPages = 2
    BY DEF Api, Unlimited
  <1>. HIDE DEF S
  <1>5. ASSUME NEW s \in S
        PROVE  /\ s.overlap => s.commit = "pages" /\ s.storage = "history"
               /\ s.paging = "short" =>
                    /\ s.served = 2
                    /\ s.maxPages # Sync!None => s.maxPages * 2 >= Sync!Cardinality({1, 2, 3})
    BY <1>1, <1>4
  <1>6. 2 \in Nat \ {0}
    OBVIOUS
  <1>. QED
    BY <1>1, <1>2, <1>3, <1>5, <1>6, Zenon DEF Sync!Bounds, S

LEMMA SyncAlways == MCSpec => []SyncInv
  <1>1. MCInit => SyncInv
    BY SyncBounds, Sync!InitOk DEF MCInit, SyncInv
  <1>2. ASSUME SyncInv, [MCNext]_MCvars
        PROVE  SyncInv'
    <2>. SUFFICES ASSUME focus = "sync"
                  PROVE  Sync!IInv'
      BY <1>2, FocusStays DEF SyncInv
    <2>1. CASE MCNext
      <3>1. Sync!Next
        BY <2>1 DEF MCNext
      <3>. QED
        BY SyncBounds, <1>2, <3>1, Sync!StepOk DEF SyncInv
    <2>2. CASE UNCHANGED MCvars
      <3>1. UNCHANGED Sync!vars
        BY <2>2 DEF MCvars, OfSync, Sync!vars, Sync!upstream, Sync!store, Sync!report
      <3>. QED
        BY SyncBounds, <1>2, <3>1, Sync!StepOk DEF SyncInv
    <2>. QED
      BY <1>2, <2>1, <2>2
  <1>. QED
    BY <1>1, <1>2, PTL DEF MCSpec

\* ApiSync: a success and its checkpoint stand for every record that was in the list when
\* the run began.
THEOREM VouchedStored == MCSpec => []VouchedIsStored
  <1>1. SyncInv => VouchedIsStored
    BY Sync!Promises DEF SyncInv, VouchedIsStored
  <1>. QED
    BY <1>1, SyncAlways, PTL

\* ApiSync: the record count and the history agree with the stored snapshots.
THEOREM StoreRight == MCSpec => []StoreAgrees
  <1>1. SyncInv => StoreAgrees
    BY Sync!Promises DEF SyncInv, StoreAgrees
  <1>. QED
    BY <1>1, SyncAlways, PTL

-----------------------------------------------------------------------------
(* JobInputs.                                                               *)

\* What the constants have to be; where operators do not write over each other.
InputsBounds ==
  /\ {MaxCredentials, MaxVersions, MaxJobs} \subseteq Nat
  /\ MaxVersions > 0

AccountStatus == {"pending", "active", "failed", "inactive"}
RequestRow == [kind : {"none", "update", "deactivate", "verify", "answered", "create"},
               status : AccountStatus, cred : Nat, accepted : BOOLEAN]
SnapshotRow == [body : Nat \ {0}, endpoint : Endpoint]
JobRow == [status : {"queued", "running", "paused", "failed", "ended"}, from : Nat,
           snapshot : SnapshotRow, ran : Nat, cred : Nat]

InputTypes ==
  /\ account \in [status : AccountStatus, cred : Nat, issued : Nat]
  /\ account.cred = account.issued
  /\ config \in [version : Nat, body : Nat \ {0}, endpoint : Endpoint, enabled : BOOLEAN]
  /\ config.version \in 1 .. MaxVersions /\ config.body <= config.version
  /\ request \in [Actor -> RequestRow]

\* An answer that accepts was given for the credentials the request holds.
AnswersProven ==
  \A r \in Actor :
    request[r].kind = "answered" /\ request[r].accepted => request[r].cred \in proven

\* A job that began ran with its snapshot, under proven credentials no newer than the
\* account's; what continues one comes after it, has its snapshot, and found it begun.
InputOk(s, j) ==
  /\ s[j].ran \in {0, s[j].snapshot.body}
  /\ s[j].status \in {"running", "paused"} => s[j].ran # 0
  /\ s[j].ran # 0 => s[j].cred \in proven
  /\ s[j].cred <= account.issued
  /\ s[j].from < j
  /\ s[j].from # 0 =>
       /\ s[j].snapshot = s[s[j].from].snapshot
       /\ s[s[j].from].ran # 0

InputsOk(s) ==
  /\ s \in Seq(JobRow)
  /\ \A j \in DOMAIN s : InputOk(s, j)

InputsIInv ==
  /\ InputTypes
  /\ Inputs!ActiveIsVerified
  /\ AnswersProven
  /\ InputsOk(jobs)

LEMMA RequestType ==
  ASSUME InputTypes, NEW r \in Actor
  PROVE  /\ Inputs!Close(r) => request' \in [Actor -> RequestRow]
         /\ \A kind \in {"update", "deactivate", "verify", "create"} :
              Inputs!Open(r, kind) => request' \in [Actor -> RequestRow]
         /\ Inputs!Ask(r) => request' \in [Actor -> RequestRow]
  <1>1. Inputs!NoRequest \in RequestRow /\ request[r] \in RequestRow
    BY DEF Inputs!NoRequest, RequestRow, AccountStatus, InputTypes
  <1>2. \A kind \in {"update", "deactivate", "verify", "create"} :
          [Inputs!NoRequest EXCEPT !.kind = kind, !.status = account.status,
          !.cred = account.cred]
            \in RequestRow
    BY DEF Inputs!NoRequest, RequestRow, InputTypes
  <1>3. ASSUME Inputs!Ask(r)
        PROVE  request' \in [Actor -> RequestRow]
    <2>1. PICK accepted \in BOOLEAN :
            request' = [request EXCEPT ![r].kind = "answered", ![r].accepted = accepted]
      BY <1>3 DEF Inputs!Ask
    <2>. DEFINE new == [[request[r] EXCEPT !.kind = "answered"] EXCEPT !.accepted = accepted]
    <2>2. new \in RequestRow
      BY <1>1 DEF RequestRow
    <2>3. request' = [request EXCEPT ![r] = new]
      BY <2>1 DEF InputTypes
    <2>. HIDE DEF new
    <2>. QED
      BY <2>2, <2>3 DEF InputTypes
  <1>. QED
    BY <1>1, <1>2, <1>3 DEF Inputs!Close, Inputs!Open, InputTypes

\* Credentials stay proven and issued, so the jobs stay in order.
LEMMA JobsKeep ==
  ASSUME InputTypes, InputsOk(jobs), jobs' = jobs, proven \subseteq proven',
         account'.issued \in Nat, account'.issued >= account.issued
  PROVE  InputsOk(jobs)'
  <1>. SUFFICES ASSUME NEW j \in DOMAIN jobs
                PROVE  InputOk(jobs, j)'
    BY DEF InputsOk
  <1>1. InputOk(jobs, j)
    BY DEF InputsOk
  <1>2. jobs[j] \in JobRow /\ account.issued \in Nat
    BY DEF InputTypes, InputsOk
  <1>3. jobs[j].cred \in Nat
    BY <1>2 DEF JobRow
  <1>. QED
    BY <1>1, <1>2, <1>3 DEF InputOk

LEMMA AccountStep ==
  ASSUME InputsBounds, InputsIInv, NEW r \in Actor,
         \/ \E kind \in {"update", "deactivate", "verify", "create"} : Inputs!Open(r, kind)
         \/ Inputs!GiveUp(r) \/ Inputs!Update(r) \/ Inputs!Deactivate(r) \/ Inputs!Ask(r)
              \/ Inputs!Verify(r)
  PROVE  InputsIInv'
  <1>1. /\ request \in [Actor -> RequestRow] /\ request[r] \in RequestRow
        /\ account \in [status : AccountStatus, cred : Nat, issued : Nat]
        /\ account.cred = account.issued
    BY DEF InputsIInv, InputTypes
  <1>2. UNCHANGED <<config, jobs>>
    BY DEF Inputs!Open, Inputs!GiveUp, Inputs!Update, Inputs!Deactivate, Inputs!Ask, Inputs!Verify
  <1>3. \A q \in Actor : q # r => request'[q] = request[q]
    BY <1>1 DEF Inputs!Open, Inputs!GiveUp, Inputs!Update, Inputs!Deactivate, Inputs!Ask,
       Inputs!Verify, Inputs!Close
  <1>4. request' \in [Actor -> RequestRow]
    BY RequestType DEF InputsIInv, Inputs!Open, Inputs!GiveUp, Inputs!Update, Inputs!Deactivate,
       Inputs!Ask, Inputs!Verify
  <1>5. proven \subseteq proven' /\ (~Inputs!Ask(r) => proven' = proven)
    BY DEF Inputs!Open, Inputs!GiveUp, Inputs!Update, Inputs!Deactivate, Inputs!Ask, Inputs!Verify
  <1>6. /\ account' \in [status : AccountStatus, cred : Nat, issued : Nat]
        /\ account'.cred = account'.issued /\ account'.issued >= account.issued
        /\ account'.status = "active" => account'.cred \in proven'
    <2>1. CASE UNCHANGED account
      BY <1>1, <1>5, <2>1 DEF InputsIInv, Inputs!ActiveIsVerified
    <2>2. CASE Inputs!Update(r)
      <3>1. Inputs!Status(r, "pending") = "pending"
        BY <2>2 DEF Inputs!Update, Inputs!Fresh, Inputs!Status, InputsBounds
      <3>. DEFINE n == account.issued + 1
      <3>2. n \in Nat /\ n >= account.issued
        BY <1>1
      <3>3. account' = [[[account EXCEPT !.status = "pending"] EXCEPT !.cred = n] EXCEPT !.issued = n]
        BY <1>1, <2>2, <3>1 DEF Inputs!Update
      <3>. HIDE DEF n
      <3>. QED
        BY <1>1, <3>2, <3>3 DEF AccountStatus
    <2>3. CASE Inputs!Deactivate(r)
      <3>1. Inputs!Status(r, "inactive") = "inactive"
        BY <2>3 DEF Inputs!Deactivate, Inputs!Fresh, Inputs!Status, InputsBounds
      <3>2. account' = [account EXCEPT !.status = "inactive"]
        BY <2>3, <3>1 DEF Inputs!Deactivate
      <3>. QED
        BY <1>1, <3>2 DEF AccountStatus
    <2>4. CASE Inputs!Verify(r) /\ Inputs!Unchanged(r)
      <3>1. request[r].accepted => account.cred \in proven
        BY <2>4 DEF Inputs!Verify, Inputs!Unchanged, InputsIInv, AnswersProven
      <3>2. account' = [account EXCEPT !.status = IF request[r].accepted THEN "active" ELSE "failed"]
        BY <2>4 DEF Inputs!Verify
      <3>. QED
        BY <1>1, <1>5, <3>1, <3>2 DEF AccountStatus
    <2>. QED
      BY <2>1, <2>2, <2>3, <2>4 DEF Inputs!Open, Inputs!GiveUp, Inputs!Ask, Inputs!Verify
  <1>7. request'[r].kind = "answered" /\ request'[r].accepted => request'[r].cred \in proven'
    <2>1. CASE Inputs!Ask(r)
      <3>1. PICK accepted \in BOOLEAN :
              /\ request' = [request EXCEPT ![r].kind = "answered", ![r].accepted = accepted]
              /\ proven' = IF accepted THEN proven \cup {request[r].cred} ELSE proven
        BY <2>1 DEF Inputs!Ask
      <3>2. request'[r].accepted = accepted /\ request'[r].cred = request[r].cred
        BY <1>1, <3>1 DEF RequestRow
      <3>. QED
        BY <3>1, <3>2
    <2>2. CASE Inputs!Close(r)
      BY <1>1, <2>2 DEF Inputs!Close, Inputs!NoRequest
    <2>3. ASSUME NEW kind \in {"update", "deactivate", "verify", "create"}, Inputs!Open(r, kind)
          PROVE  request'[r].kind # "answered"
      BY <1>1, <2>3 DEF Inputs!Open, Inputs!NoRequest
    <2>. QED
      BY <2>1, <2>2, <2>3 DEF Inputs!GiveUp, Inputs!Update, Inputs!Deactivate, Inputs!Verify
  <1>8. AnswersProven'
    BY <1>3, <1>5, <1>7 DEF AnswersProven, InputsIInv
  <1>9. InputTypes'
    BY <1>2, <1>4, <1>6 DEF InputTypes, InputsIInv
  <1>10. InputsOk(jobs)'
    BY <1>2, <1>5, <1>6, JobsKeep DEF InputsIInv
  <1>. QED
    BY <1>6, <1>8, <1>9, <1>10 DEF InputsIInv, Inputs!ActiveIsVerified

LEMMA PublishStep ==
  ASSUME InputsBounds, InputsIInv, Inputs!Publish
  PROVE  InputsIInv'
  <1>1. UNCHANGED <<account, proven, request, jobs>>
    BY DEF Inputs!Publish
  <1>2. /\ config.version \in Nat /\ config.version >= 1 /\ config.version < MaxVersions
        /\ MaxVersions \in Nat /\ config.body \in Nat \ {0} /\ config.body <= config.version
        /\ config \in [version : Nat, body : Nat \ {0}, endpoint : Endpoint, enabled : BOOLEAN]
    BY DEF Inputs!Publish, InputsIInv, InputTypes, InputsBounds
  <1>3. /\ config' \in [version : Nat, body : Nat \ {0}, endpoint : Endpoint, enabled : BOOLEAN]
        /\ config'.version \in 1 .. MaxVersions /\ config'.body <= config'.version
    <2>1. CASE \E e \in Endpoint :
                 config' = [version |-> config.version + 1, body |-> config.version + 1,
                            endpoint |-> e, enabled |-> TRUE]
      BY <1>2, <2>1
    <2>2. CASE config' = [config EXCEPT !.version = @ + 1, !.enabled = FALSE]
      <3>. DEFINE n == config.version + 1
      <3>1. n \in 1 .. MaxVersions /\ n \in Nat /\ config.body <= n
        BY <1>2
      <3>2. config' = [[config EXCEPT !.version = n] EXCEPT !.enabled = FALSE]
        BY <1>2, <2>2
      <3>. HIDE DEF n
      <3>. QED
        BY <1>2, <3>1, <3>2
    <2>. QED
      BY <2>1, <2>2 DEF Inputs!Publish
  <1>4. InputTypes'
    BY <1>1, <1>3 DEF InputsIInv, InputTypes
  <1>. QED
    BY <1>1, <1>4 DEF InputsIInv, Inputs!ActiveIsVerified, AnswersProven, InputsOk, InputOk

LEMMA EarlierJob ==
  ASSUME NEW s, InputsOk(s)
  PROVE  \A k \in DOMAIN s : /\ s[k].from \in Nat /\ k \in Nat /\ s[k].from < k
                             /\ s[k].from # 0 => s[k].from \in DOMAIN s
  <1>1. s \in Seq(JobRow) /\ \A k \in DOMAIN s : InputOk(s, k) /\ s[k] \in JobRow
    BY DEF InputsOk
  <1>. QED
    <2>1. SUFFICES ASSUME NEW k \in DOMAIN s
                   PROVE  /\ s[k].from \in Nat /\ k \in Nat /\ s[k].from < k
                          /\ s[k].from # 0 => s[k].from \in DOMAIN s
      OBVIOUS
    <2>2. s[k].from \in Nat /\ k \in 1 .. Len(s) /\ Len(s) \in Nat /\ DOMAIN s = 1 .. Len(s)
      BY <1>1 DEF JobRow
    <2>3. s[k].from < k
      BY <1>1 DEF InputOk
    <2>. QED
      BY <2>2, <2>3

\* A line that stands for the same job as before, and has run if that one has.
LEMMA ChangedJob ==
  ASSUME NEW s, InputsOk(s), NEW j \in DOMAIN s, NEW line \in JobRow,
         line.from = s[j].from, line.snapshot = s[j].snapshot,
         line.ran \in {0, line.snapshot.body}, s[j].ran # 0 => line.ran # 0,
         line.status \in {"running", "paused"} => line.ran # 0,
         line.ran # 0 => line.cred \in proven, line.cred <= account.issued
  PROVE  InputsOk([s EXCEPT ![j] = line])
  <1>. DEFINE t == [s EXCEPT ![j] = line]
  <1>1. s \in Seq(JobRow) /\ \A k \in DOMAIN s : InputOk(s, k) /\ s[k] \in JobRow
    BY DEF InputsOk
  <1>2. t \in Seq(JobRow) /\ DOMAIN t = DOMAIN s /\ t[j] = line
        /\ \A k \in DOMAIN s : k # j => t[k] = s[k]
    BY <1>1
  <1>3. \A k \in DOMAIN s : /\ s[k].from \in Nat /\ k \in Nat /\ s[k].from < k
                            /\ s[k].from # 0 => s[k].from \in DOMAIN s
    BY EarlierJob
  <1>. HIDE DEF t
  <1>4. \A k \in DOMAIN s : t[k].snapshot = s[k].snapshot /\ (s[k].ran # 0 => t[k].ran # 0)
    BY <1>2
  <1>5. ASSUME NEW k \in DOMAIN s
        PROVE  InputOk(t, k)
    <2>1. InputOk(s, k)
      BY <1>1
    <2>2. CASE k # j
      BY <1>2, <1>3, <1>4, <2>1, <2>2 DEF InputOk
    <2>3. CASE k = j
      BY <1>2, <1>3, <1>4, <2>1, <2>3 DEF InputOk
    <2>. QED
      BY <2>2, <2>3
  <1>. QED
    BY <1>2, <1>5 DEF InputsOk, t

\* A new job, alone or continuing one that began.
LEMMA AddedJob ==
  ASSUME InputTypes, NEW s, InputsOk(s), NEW from, NEW snapshot \in SnapshotRow,
         \/ from = 0
         \/ from \in DOMAIN s /\ snapshot = s[from].snapshot /\ s[from].ran # 0
  PROVE  InputsOk(Append(s, Inputs!Entered(from, snapshot)))
  <1>. DEFINE line == Inputs!Entered(from, snapshot)
              t == Append(s, line)
  <1>1. s \in Seq(JobRow) /\ \A k \in DOMAIN s : InputOk(s, k) /\ s[k] \in JobRow
    BY DEF InputsOk
  <1>2. from \in Nat /\ from <= Len(s)
    BY <1>1
  <1>3. line \in JobRow
    BY <1>2 DEF Inputs!Entered, JobRow
  <1>4. /\ line.from = from /\ line.snapshot = snapshot /\ line.ran = 0 /\ line.cred = 0
        /\ line.status = "queued"
    BY DEF Inputs!Entered
  <1>. HIDE DEF line
  <1>5. PICK n : n = Len(s) + 1
    OBVIOUS
  <1>6. /\ t \in Seq(JobRow) /\ DOMAIN t = 1 .. n /\ t[n] = line /\ n \in Nat
        /\ \A k \in DOMAIN s : t[k] = s[k]
    BY <1>1, <1>3, <1>5
  <1>7. \A k \in DOMAIN s : /\ s[k].from \in Nat /\ k \in Nat /\ s[k].from < k
                            /\ s[k].from # 0 => s[k].from \in DOMAIN s
    BY EarlierJob
  <1>. HIDE DEF t
  <1>8. ASSUME NEW k \in DOMAIN s
        PROVE  InputOk(t, k)
    <2>1. InputOk(s, k)
      BY <1>1
    <2>2. CASE s[k].from = 0
      BY <1>6, <1>7, <2>1, <2>2 DEF InputOk
    <2>3. CASE s[k].from # 0
      <3>1. t[k] = s[k] /\ t[s[k].from] = s[s[k].from]
        BY <1>6, <1>7, <2>3
      <3>. QED
        BY <2>1, <3>1 DEF InputOk
    <2>. QED
      BY <2>2, <2>3
  <1>9. InputOk(t, n)
    <2>1. 0 <= account.issued
      BY DEF InputTypes
    <2>2. from < n
      BY <1>1, <1>2, <1>5
    <2>3. from # 0 => t[from] = s[from]
      BY <1>6
    <2>. QED
      BY <1>4, <1>6, <2>1, <2>2, <2>3 DEF InputOk
  <1>10. \A k \in DOMAIN t : k = n \/ k \in DOMAIN s
    BY <1>1, <1>5, <1>6
  <1>. QED
    BY <1>6, <1>8, <1>9, <1>10 DEF InputsOk, t, line

\* A new status of a job that has run, or one that says nothing about running.
LEMMA StatusJob ==
  ASSUME NEW s, InputsOk(s), NEW j \in DOMAIN s,
         NEW status \in {"queued", "paused", "failed", "ended"},
         status = "paused" => s[j].ran # 0
  PROVE  InputsOk([s EXCEPT ![j].status = status])
  <1>. DEFINE line == [s[j] EXCEPT !.status = status]
  <1>1. s[j] \in JobRow /\ InputOk(s, j)
    BY DEF InputsOk
  <1>2. /\ line \in JobRow /\ line.status = status /\ line.from = s[j].from
        /\ line.snapshot = s[j].snapshot /\ line.ran = s[j].ran /\ line.cred = s[j].cred
    BY <1>1 DEF JobRow
  <1>. HIDE DEF line
  <1>3. InputsOk([s EXCEPT ![j] = line])
    BY <1>1, <1>2, ChangedJob DEF InputOk
  <1>. QED
    BY <1>3 DEF line, InputsOk

LEMMA InputsJobStep ==
  ASSUME InputsBounds, InputsIInv,
         \/ \E r \in Actor : Inputs!Create(r) \/ \E j \in DOMAIN jobs : Inputs!Retry(r, j)
         \/ \E j \in DOMAIN jobs : Inputs!Resume(j) \/ Inputs!Begin(j) \/ Inputs!Refuse(j)
              \/ Inputs!Settle(j)
  PROVE  InputsIInv'
  <1>1. InputsOk(jobs) /\ InputTypes /\ Inputs!ActiveIsVerified /\ AnswersProven
    BY DEF InputsIInv
  <1>2. UNCHANGED <<account, proven, config>>
    BY DEF Inputs!Create, Inputs!Retry, Inputs!Resume, Inputs!Begin, Inputs!Refuse, Inputs!Settle
  <1>3. /\ \A j \in DOMAIN jobs : jobs[j] \in JobRow /\ InputOk(jobs, j)
        /\ Inputs!Frozen \in SnapshotRow
    <2>1. Inputs!Frozen \in SnapshotRow
      BY <1>1 DEF Inputs!Frozen, SnapshotRow, InputTypes
    <2>. QED
      BY <1>1, <2>1 DEF InputsOk
  <1>4. ASSUME NEW j \in DOMAIN jobs, jobs[j].ran # 0
        PROVE  InputsOk(Append([jobs EXCEPT ![j].status = "ended"], Inputs!Continued(j)))
    <2>. DEFINE s == [jobs EXCEPT ![j].status = "ended"]
    <2>1. InputsOk(s)
      BY <1>1, StatusJob
    <2>2. j \in DOMAIN s /\ s[j].snapshot = jobs[j].snapshot /\ s[j].ran = jobs[j].ran
      BY <1>3 DEF JobRow
    <2>3. jobs[j].snapshot \in SnapshotRow
      BY <1>3 DEF JobRow
    <2>. HIDE DEF s
    <2>4. InputsOk(Append(s, Inputs!Entered(j, jobs[j].snapshot)))
      BY <1>1, <1>4, <2>1, <2>2, <2>3, AddedJob
    <2>. QED
      BY <2>4 DEF s, Inputs!Continued
  <1>5. InputsOk(Append(jobs, Inputs!Entered(0, Inputs!Frozen)))
    BY <1>1, <1>3, AddedJob
  <1>6. InputsOk(jobs')
    <2>1. CASE \E r \in Actor : Inputs!Create(r) \/ \E j \in DOMAIN jobs : Inputs!Retry(r, j)
      BY <1>1, <1>5, <2>1 DEF Inputs!Create, Inputs!Retry
    <2>2. ASSUME NEW j \in DOMAIN jobs, Inputs!Resume(j)
          PROVE  InputsOk(jobs')
      <3>1. jobs[j].ran # 0
        BY <1>3, <2>2 DEF Inputs!Resume, Inputs!Resumable, InputOk
      <3>. QED
        BY <1>4, <2>2, <3>1 DEF Inputs!Resume
    <2>3. ASSUME NEW j \in DOMAIN jobs, Inputs!Begin(j)
          PROVE  InputsOk(jobs')
      <3>. DEFINE line == [[[jobs[j] EXCEPT !.status = "running"]
                             EXCEPT !.ran = jobs[j].snapshot.body] EXCEPT !.cred = account.cred]
      <3>1. /\ account.cred \in proven /\ account.cred \in Nat
            /\ account.cred <= account.issued
        <4>1. account.status = "active"
          BY <2>3 DEF Inputs!Begin, Inputs!MayRun
        <4>2. account.cred \in Nat /\ account.cred = account.issued
          BY <1>1 DEF InputTypes
        <4>. QED
          BY <1>1, <4>1, <4>2 DEF Inputs!ActiveIsVerified
      <3>2. jobs[j].snapshot.body \in Nat \ {0}
        BY <1>3 DEF JobRow, SnapshotRow
      <3>3. /\ line \in JobRow /\ line.from = jobs[j].from /\ line.snapshot = jobs[j].snapshot
            /\ line.ran = jobs[j].snapshot.body /\ line.cred = account.cred
        BY <1>3, <3>1, <3>2 DEF JobRow
      <3>4. jobs' = [jobs EXCEPT ![j] = line]
        BY <1>1, <2>3 DEF Inputs!Begin, InputsOk
      <3>. HIDE DEF line
      <3>. QED
        BY <1>1, <3>1, <3>2, <3>3, <3>4, ChangedJob
    <2>4. ASSUME NEW j \in DOMAIN jobs, Inputs!Refuse(j)
          PROVE  InputsOk(jobs')
      BY <1>1, <2>4, StatusJob DEF Inputs!Refuse
    <2>5. ASSUME NEW j \in DOMAIN jobs, Inputs!Settle(j)
          PROVE  InputsOk(jobs')
      <3>1. jobs[j].ran # 0
        BY <1>3, <2>5 DEF Inputs!Settle, InputOk
      <3>2. \A status \in {"failed", "paused", "ended", "queued"} :
              InputsOk([jobs EXCEPT ![j].status = status])
        BY <1>1, <3>1, StatusJob
      <3>. QED
        BY <1>4, <2>5, <3>1, <3>2 DEF Inputs!Settle
    <2>. QED
      BY <2>1, <2>2, <2>3, <2>4, <2>5
  <1>7. InputsOk(jobs)'
    BY <1>2, <1>6 DEF InputsOk, InputOk
  <1>8. request' \in [Actor -> RequestRow] /\ AnswersProven'
    <2>1. CASE request' = request
      BY <1>1, <1>2, <2>1 DEF InputTypes, AnswersProven
    <2>2. ASSUME NEW r \in Actor, Inputs!Close(r)
          PROVE  request' \in [Actor -> RequestRow] /\ AnswersProven'
      <3>1. request' \in [Actor -> RequestRow]
        BY <1>1, <2>2, RequestType
      <3>2. \A q \in Actor : request'[q] \in {request[q], Inputs!NoRequest}
        BY <1>1, <2>2 DEF Inputs!Close, InputTypes
      <3>. QED
        BY <1>1, <1>2, <3>1, <3>2 DEF AnswersProven, Inputs!NoRequest
    <2>. QED
      BY <2>1, <2>2 DEF Inputs!Create, Inputs!Retry, Inputs!Resume, Inputs!Begin, Inputs!Refuse,
               Inputs!Settle
  <1>. QED
    BY <1>1, <1>2, <1>7, <1>8 DEF InputsIInv, InputTypes, Inputs!ActiveIsVerified

LEMMA InputsInit ==
  ASSUME InputsBounds, Inputs!Init
  PROVE  InputsIInv
  <1>1. jobs \in Seq(JobRow) /\ DOMAIN jobs = {}
    BY DEF Inputs!Init
  <1>2. Inputs!NoRequest \in RequestRow
    BY DEF Inputs!NoRequest, RequestRow, AccountStatus
  <1>3. InputTypes
    BY <1>2 DEF Inputs!Init, InputTypes, AccountStatus, InputsBounds
  <1>. QED
    BY <1>1, <1>3 DEF Inputs!Init, InputsIInv, InputsOk, Inputs!ActiveIsVerified, AnswersProven,
             Inputs!NoRequest

LEMMA InputsStep ==
  ASSUME InputsBounds, InputsIInv, [Inputs!Next]_Inputs!vars
  PROVE  InputsIInv'
  <1>1. CASE UNCHANGED Inputs!vars
    BY <1>1 DEF Inputs!vars, InputsIInv, InputTypes, Inputs!ActiveIsVerified, AnswersProven,
       InputsOk, InputOk
  <1>. QED
    BY <1>1, AccountStep, PublishStep, InputsJobStep DEF Inputs!Next

LEMMA InputsPromise ==
  ASSUME InputsIInv
  PROVE  Inputs!TypeOK /\ Inputs!ActiveIsVerified /\ Inputs!RunsAgree
  <1>1. InputsOk(jobs) /\ InputTypes /\ Inputs!ActiveIsVerified
    BY DEF InputsIInv
  <1>2. Inputs!TypeOK
    BY <1>1 DEF Inputs!TypeOK, InputTypes, InputsOk, InputOk, AccountStatus
  <1>3. ASSUME NEW j \in DOMAIN jobs, jobs[j].ran # 0
        PROVE  /\ jobs[j].cred \in proven
               /\ jobs[j].from # 0 => jobs[j].ran = jobs[jobs[j].from].ran
    <2>1. jobs[j].from # 0 => jobs[j].from \in DOMAIN jobs
      BY <1>1, EarlierJob
    <2>2. InputOk(jobs, j) /\ (jobs[j].from # 0 => InputOk(jobs, jobs[j].from))
      BY <1>1, <2>1 DEF InputsOk
    <2>. QED
      BY <1>3, <2>2 DEF InputOk
  <1>. QED
    BY <1>1, <1>2, <1>3 DEF Inputs!RunsAgree

InputsInv == focus = "inputs" => InputsIInv

LEMMA InputsAlways == MCSpec => []InputsInv
  <1>1. InputsBounds
    BY InputsAssumption DEF InputsBounds
  <1>2. MCInit => InputsInv
    BY <1>1, InputsInit DEF MCInit, InputsInv
  <1>3. ASSUME InputsInv, [MCNext]_MCvars
        PROVE  InputsInv'
    <2>. SUFFICES ASSUME focus = "inputs"
                  PROVE  InputsIInv'
      BY <1>3, FocusStays DEF InputsInv
    <2>1. CASE MCNext
      BY <1>1, <1>3, <2>1, InputsStep DEF MCNext, InputsInv
    <2>2. CASE UNCHANGED MCvars
      <3>1. UNCHANGED Inputs!vars
        BY <2>2 DEF MCvars, OfInputs, Inputs!vars
      <3>. QED
        BY <1>1, <1>3, <3>1, InputsStep DEF InputsInv
    <2>. QED
      BY <1>3, <2>1, <2>2
  <1>. QED
    BY <1>2, <1>3, PTL DEF MCSpec

\* JobInputs: an account is active only with credentials that were verified.
THEOREM VerifiedOnly == MCSpec => []ActiveIsVerified
  <1>1. InputsInv => ActiveIsVerified
    BY InputsPromise DEF InputsInv, ActiveIsVerified
  <1>. QED
    BY <1>1, InputsAlways, PTL

\* JobInputs: a job runs with verified credentials, and what continues it with the same
\* configuration.
THEOREM ChainRunsAlike == MCSpec => []RunsAgree
  <1>1. InputsInv => RunsAgree
    BY InputsPromise DEF InputsInv, RunsAgree
  <1>. QED
    BY <1>1, InputsAlways, PTL

-----------------------------------------------------------------------------
(* ParamSource: for every finite set of keys, every limit and any number of *)
(* runs.                                                                    *)

LEMMA SameCount == \A S : Params!Cardinality(S) = Cardinality(S)
  BY DEF Params!Cardinality, Cardinality

\* What the constants have to be.
ParamBounds ==
  /\ ParamKey \subseteq Int /\ IsFiniteSet(ParamKey)
  /\ {Limit, RefreshAfter, MaxParamRuns} \subseteq Nat

-----------------------------------------------------------------------------
(* The inductive invariant.                                                 *)

ParamRun == [stage : {"idle", "asking"}, keys : SUBSET ParamKey, left : SUBSET ParamKey, wrote :
            SUBSET ParamKey]

ParamTypes ==
  /\ mode \in {"offset", "missing", "refresh"}
  /\ hollow \subseteq ParamKey /\ Cardinality(hollow) < Limit
  /\ source \subseteq ParamKey /\ late \subseteq source /\ asked \subseteq source
  /\ done \in Nat /\ done <= MaxParamRuns /\ offset \in Nat
  /\ target \in [ParamKey -> 0 .. MaxParamRuns + 1]
  /\ waits \in [ParamKey -> Nat]
  /\ run \in ParamRun

\* A run has asked for what is not left, and wrote what the upstream had.
ParamRunOk ==
  /\ run.keys \subseteq source /\ run.left \subseteq run.keys
  /\ run.keys \ run.left \subseteq asked
  /\ run.wrote = (run.keys \ run.left) \ hollow
  /\ run.stage = "idle" => run.keys = {}
  /\ run.stage = "asking" => done < MaxParamRuns

Stored == {j \in ParamKey : target[j] # 0}

Below(S, k) == Cardinality({j \in S : j < k})
Rank(k) == Below(source, k)

\* Only what was asked for, and is not hollow, is stored; who is not there does not wait.
ParamKeysOk ==
  /\ Stored \subseteq asked \ hollow
  /\ \A k \in ParamKey \ source : waits[k] = 0

\* The offset has passed no key that waits, unless it came late; when a key has waited
\* before, a run that passes it over asks for a whole page in front of it.
OffsetOk ==
  /\ run.keys # {} => \E m \in run.keys : Rank(m) >= offset + Cardinality(run.keys) - 1
  /\ \A k \in source \ (asked \cup late) :
       /\ Rank(k) >= offset
       /\ k \notin run.keys => Rank(k) >= offset + Cardinality(run.keys)
       /\ run.stage = "asking" =>
            k \in run.keys \/ waits[k] = 0 \/ Cardinality(run.keys) = Limit
       /\ waits[k] = 0 \/ 2 * (waits[k] - 1) <= offset

\* A scan asks for a whole page of keys that are not stored before it passes over one that
\* waits; at least one of them is stored then, and all if only the waiting key is hollow.
PassedOver ==
  \A k \in source \ asked :
    /\ run.stage = "asking" =>
         \/ k \in run.keys \/ waits[k] = 0
         \/ Cardinality(run.keys) = Limit /\ run.keys \cap Stored = {}
    /\ waits[k] = 0 \/ waits[k] - 1 <= Cardinality(Stored)
    /\ waits[k] # 0 /\ hollow \subseteq {k} => 2 * (waits[k] - 1) <= Cardinality(Stored)

\* Who was asked for had not waited longer than it may.
AskedOk ==
  \A k \in asked : waits[k] < Cardinality(ParamKey) \/ (mode = "offset" /\ k \in late)

ParamIInv ==
  /\ ParamTypes /\ ParamRunOk /\ ParamKeysOk
  /\ mode = "offset" => OffsetOk
  /\ mode # "offset" => PassedOver
  /\ AskedOk

-----------------------------------------------------------------------------
(* Positions in a finite set that is in order: below[a] is what comes before a. *)

InOrder(W, below) ==
  /\ below \in [W -> SUBSET W]
  /\ \A a \in W : a \notin below[a]
  /\ \A a, b \in W : a \in below[b] => below[a] \subseteq below[b]
  /\ \A a, b \in W : a # b => a \in below[b] \/ b \in below[a]

Position(W, below) == [a \in W |-> Cardinality(below[a])]

LEMMA PositionsFill ==
  ASSUME NEW W, IsFiniteSet(W), NEW below, InOrder(W, below)
  PROVE  /\ Cardinality(W) \in Nat
         /\ Position(W, below) \in Bijection(W, 0 .. Cardinality(W) - 1)
         /\ \A a, b \in W : a \in below[b] <=> Position(W, below)[a] < Position(W, below)[b]
         /\ \A a \in W : Position(W, below)[a] \in Nat
  <1>. DEFINE n == Cardinality(W)
              p == Position(W, below)
  <1>1. n \in Nat
    BY FS_CardinalityType
  <1>2. ASSUME NEW a \in W
        PROVE  IsFiniteSet(below[a]) /\ p[a] = Cardinality(below[a]) /\ p[a] \in 0 .. n - 1
    <2>1. below[a] \in SUBSET W /\ below[a] # W /\ p[a] = Cardinality(below[a])
      BY <1>2 DEF InOrder, Position
    <2>2. /\ IsFiniteSet(below[a]) /\ Cardinality(below[a]) <= n
          /\ Cardinality(below[a]) # n
      BY <2>1, FS_Subset
    <2>3. Cardinality(below[a]) \in Nat
      BY <2>2, FS_CardinalityType
    <2>. QED
      BY <1>1, <2>1, <2>2, <2>3
  <1>3. ASSUME NEW a \in W, NEW b \in W, a \in below[b]
        PROVE  p[a] < p[b]
    <2>1. below[a] \subseteq below[b] /\ below[a] # below[b]
      BY <1>3 DEF InOrder
    <2>2. Cardinality(below[a]) <= Cardinality(below[b])
          /\ Cardinality(below[a]) # Cardinality(below[b])
      BY <1>2, <2>1, FS_Subset
    <2>. QED
      BY <1>2, <2>2
  <1>4. ASSUME NEW a \in W, NEW b \in W, p[a] < p[b]
        PROVE  a \in below[b]
    <2>1. a # b /\ ~(p[b] < p[a])
      BY <1>2, <1>4
    <2>. QED
      BY <1>3, <2>1 DEF InOrder
  <1>5. p \in [W -> 0 .. n - 1]
    BY <1>2 DEF Position
  <1>6. p \in Injection(W, 0 .. n - 1)
    <2>1. ASSUME NEW a \in W, NEW b \in W, p[a] = p[b]
          PROVE  a = b
      <3>1. ~(p[a] < p[b]) /\ ~(p[b] < p[a])
        BY <1>2, <2>1
      <3>. QED
        BY <1>3, <3>1 DEF InOrder
    <2>. HIDE DEF p
    <2>. QED
      BY <1>5, <2>1 DEF Injection, IsInjective
  <1>7. IsFiniteSet(0 .. n - 1) /\ Cardinality(0 .. n - 1) = n
    BY <1>1, FS_Interval
  <1>8. p \in Surjection(W, 0 .. n - 1)
    BY <1>6, <1>7, FS_Injection
  <1>9. \A a, b \in W : a \in below[b] <=> p[a] < p[b]
    BY <1>3, <1>4
  <1>. QED
    BY <1>1, <1>2, <1>6, <1>8, <1>9 DEF Bijection

\* The members at the positions o .. o + m - 1.
Page(W, below, o, m) == {a \in W : Position(W, below)[a] \in o .. o + m - 1}

\* A page is full when somebody is behind it, and its last member is as far as it is long.
LEMMA Pages ==
  ASSUME NEW W, IsFiniteSet(W), NEW below, InOrder(W, below), NEW o \in Nat, NEW m \in Nat
  PROVE  LET S == Page(W, below, o, m)
             p == Position(W, below)
         IN /\ IsFiniteSet(S) /\ Cardinality(S) \in Nat /\ Cardinality(S) <= m
            /\ \A a \in W : p[a] >= o + m => Cardinality(S) = m
            /\ S # {} => \E a \in S : p[a] >= o + Cardinality(S) - 1
  <1>. DEFINE S == Page(W, below, o, m)
              p == Position(W, below)
              n == Cardinality(W)
              q == [a \in S |-> p[a]]
  <1>1. n \in Nat /\ p \in Injection(W, 0 .. n - 1) /\ p \in Surjection(W, 0 .. n - 1)
    BY PositionsFill DEF Bijection
  <1>2. \A a \in W : p[a] \in Nat
    BY PositionsFill
  <1>3. S \subseteq W /\ \A a \in S : p[a] \in o .. o + m - 1
    BY DEF Page
  <1>4. IsFiniteSet(S) /\ Cardinality(S) \in Nat
    BY <1>3, FS_Subset, FS_CardinalityType
  <1>5. \A a, b \in W : p[a] = p[b] => a = b
    BY <1>1 DEF Injection, IsInjective
  <1>. HIDE DEF p, S
  <1>6. IsFiniteSet(o .. o + m - 1) /\ Cardinality(o .. o + m - 1) = m
    BY FS_Interval
  <1>7. q \in Injection(S, o .. o + m - 1)
    <2>1. q \in [S -> o .. o + m - 1]
      BY <1>3
    <2>. QED
      BY <1>3, <1>5, <2>1 DEF Injection, IsInjective
  <1>8. Cardinality(S) <= m
    BY <1>6, <1>7, FS_Injection
  <1>9. ASSUME NEW a \in W, p[a] >= o + m
        PROVE  Cardinality(S) = m
    <2>1. ASSUME NEW i \in o .. o + m - 1
          PROVE  \E b \in S : q[b] = i
      <3>1. i \in 0 .. n - 1
        <4>1. p[a] \in 0 .. n - 1
          BY <1>1, <1>9 DEF Injection
        <4>. QED
          BY <1>1, <1>9, <4>1
      <3>2. PICK b \in W : p[b] = i
        BY <1>1, <3>1 DEF Surjection
      <3>3. b \in S
        BY <3>2 DEF Page, S, p
      <3>. QED
        BY <3>2, <3>3
    <2>2. q \in Surjection(S, o .. o + m - 1)
      BY <1>7, <2>1 DEF Surjection, Injection
    <2>. QED
      BY <1>6, <1>7, <2>2, FS_Injection
  <1>10. ASSUME S # {}, \A a \in S : ~(p[a] >= o + Cardinality(S) - 1)
         PROVE  FALSE
    <2>1. PICK c \in Nat : c = Cardinality(S)
      BY <1>4
    <2>2. c # 0
      BY <1>4, <1>10, <2>1, FS_EmptySet
    <2>3. IsFiniteSet(o .. o + c - 2) /\ Cardinality(o .. o + c - 2) = c - 1
      <3>1. o + c - 2 \in Int
        OBVIOUS
      <3>. QED
        BY <2>2, <3>1, FS_Interval
    <2>4. q \in [S -> o .. o + c - 2]
      <3>1. ASSUME NEW a \in S
            PROVE  q[a] \in o .. o + c - 2
        BY <1>2, <1>3, <1>10, <2>1, <3>1
      <3>. QED
        BY <3>1
    <2>5. q \in Injection(S, o .. o + c - 2)
      BY <1>3, <1>5, <2>4 DEF Injection, IsInjective
    <2>6. c <= c - 1
      BY <2>1, <2>3, <2>5, FS_Injection
    <2>. QED
      BY <2>6
  <1>. QED
    BY <1>4, <1>8, <1>9, <1>10 DEF S, p

-----------------------------------------------------------------------------
(* The rows and the run.                                                    *)

LEMMA ParamRunSteps ==
  ASSUME ParamTypes
  PROVE  /\ Params!Idle \in ParamRun
         /\ Params!Select => /\ run' \in ParamRun /\ run'.stage = "asking"
              /\ run'.keys = Params!Selected
                      /\ run'.left = Params!Selected /\ run'.wrote = {}
         /\ \A k \in ParamKey : Params!Ask(k) =>
              /\ run' \in ParamRun /\ run'.stage = run.stage /\ run'.keys = run.keys
              /\ run'.left = run.left \ {k} /\ k \in run.left
              /\ run'.wrote = IF k \in hollow THEN run.wrote ELSE run.wrote \cup {k}
         /\ Params!Succeed \/ Params!Fail \/ Params!Lose =>
              /\ run' \in ParamRun /\ run'.stage = "idle"
              /\ run'.keys = {} /\ run'.left = {} /\ run'.wrote = {}
  <1>1. Params!Idle \in ParamRun
    BY DEF Params!Idle, ParamRun
  <1>2. Params!Selected \subseteq ParamKey
    BY DEF Params!Selected, Params!Wanted, ParamTypes
  <1>3. ASSUME Params!Select
        PROVE  /\ run' \in ParamRun /\ run'.stage = "asking" /\ run'.keys = Params!Selected
               /\ run'.left = Params!Selected /\ run'.wrote = {}
    <2>. DEFINE S == Params!Selected
    <2>1. run' = [Params!Idle EXCEPT !.stage = "asking", !.keys = S, !.left = S]
          /\ S \subseteq ParamKey
      BY <1>2, <1>3 DEF Params!Select
    <2>. HIDE DEF S
    <2>2. run' = [stage |-> "asking", keys |-> S, left |-> S, wrote |-> {}]
      BY <2>1 DEF Params!Idle
    <2>3. run'.stage = "asking" /\ run'.keys = S /\ run'.left = S /\ run'.wrote = {}
      BY <2>2
    <2>4. S \in SUBSET ParamKey /\ {} \in SUBSET ParamKey /\ "asking" \in {"idle", "asking"}
      BY <2>1
    <2>5. run' \in ParamRun
      BY <2>2, <2>4 DEF ParamRun
    <2>. QED
      BY <2>3, <2>5 DEF S
  <1>4. ASSUME NEW k \in ParamKey, Params!Ask(k)
        PROVE  /\ run' \in ParamRun /\ run'.stage = run.stage /\ run'.keys = run.keys
               /\ run'.left = run.left \ {k} /\ k \in run.left
               /\ run'.wrote = IF k \in hollow THEN run.wrote ELSE run.wrote \cup {k}
    <2>. DEFINE L == run.left \ {k}
                V == IF k \in hollow THEN run.wrote ELSE run.wrote \cup {k}
    <2>1. run' = [run EXCEPT !.left = L, !.wrote = V] /\ run \in ParamRun /\ k \in run.left
      BY <1>4 DEF Params!Ask, ParamTypes
    <2>2. L \subseteq ParamKey /\ V \subseteq ParamKey
      BY <2>1 DEF ParamRun
    <2>. HIDE DEF L, V
    <2>3. run' = [stage |-> run.stage, keys |-> run.keys, left |-> L, wrote |-> V]
      BY <2>1 DEF ParamRun
    <2>4. run' \in ParamRun /\ run'.stage = run.stage /\ run'.keys = run.keys
          /\ run'.left = L /\ run'.wrote = V
      BY <2>1, <2>2, <2>3 DEF ParamRun
    <2>. QED
      BY <2>1, <2>4 DEF L, V
  <1>5. ASSUME Params!Succeed \/ Params!Fail \/ Params!Lose
        PROVE  run' = Params!Idle
    BY <1>5 DEF Params!Succeed, Params!Fail, Params!Lose
  <1>6. Params!Idle.stage = "idle" /\ Params!Idle.keys = {} /\ Params!Idle.left = {}
        /\ Params!Idle.wrote = {}
    BY DEF Params!Idle
  <1>7. Params!Succeed \/ Params!Fail \/ Params!Lose =>
          /\ run' \in ParamRun /\ run'.stage = "idle"
          /\ run'.keys = {} /\ run'.left = {} /\ run'.wrote = {}
    BY <1>1, <1>5, <1>6
  <1>. QED
    BY <1>1, <1>3, <1>4, <1>7

ParamsKept == UNCHANGED <<mode, hollow>>

LEMMA ParamRowsStep ==
  ASSUME ParamBounds, ParamTypes, ParamRunOk, ParamKeysOk, [Params!Next]_Params!vars
  PROVE  ParamTypes' /\ ParamRunOk' /\ ParamKeysOk' /\ ParamsKept
  <1>1. ParamsKept
    BY DEF Params!Next, Params!Select, Params!Succeed, Params!Fail, Params!Lose, Params!Ask,
       Params!Arrive, Params!vars, ParamsKept
  <1>2. CASE Params!Select
    <2>1. UNCHANGED <<mode, hollow, source, target, offset, late, asked, waits, done>>
          /\ run.stage = "idle" /\ done < MaxParamRuns
      BY <1>2 DEF Params!Select
    <2>2. Params!Selected \subseteq source
      BY DEF Params!Selected, Params!Wanted
    <2>3. ParamTypes'
      BY <1>2, <2>1, ParamRunSteps DEF ParamTypes
    <2>4. ParamRunOk'
      BY <1>2, <2>1, <2>2, ParamRunSteps DEF ParamRunOk
    <2>. QED
      BY <1>1, <2>1, <2>3, <2>4 DEF ParamKeysOk, Stored
  <1>3. ASSUME NEW k \in ParamKey, Params!Ask(k) PROVE ParamTypes' /\ ParamRunOk' /\ ParamKeysOk'
    <2>1. UNCHANGED <<mode, hollow, source, target, offset, late, waits, done>>
          /\ asked' = asked \cup {k} /\ k \in run.left /\ k \in source
      BY <1>3 DEF Params!Ask, ParamRunOk
    <2>2. ParamTypes'
      BY <1>3, <2>1, ParamRunSteps DEF ParamTypes
    <2>3. ParamRunOk'
      BY <1>3, <2>1, ParamRunSteps DEF ParamRunOk
    <2>. QED
      BY <2>1, <2>2, <2>3 DEF ParamKeysOk, Stored
  <1>4. ASSUME target' = [k \in ParamKey |-> IF k \in run.wrote THEN done + 1 ELSE target[k]],
               done \in Nat, done <= MaxParamRuns, MaxParamRuns \in Nat
        PROVE  /\ target' \in [ParamKey -> 0 .. MaxParamRuns + 1]
               /\ \A k \in ParamKey : target'[k] # 0 <=> k \in Stored \cup run.wrote
    BY <1>4 DEF ParamTypes, Stored
  <1>5. done \in Nat /\ done <= MaxParamRuns /\ MaxParamRuns \in Nat
    BY DEF ParamTypes, ParamBounds
  <1>6. run.wrote \subseteq asked \ hollow
    BY DEF ParamRunOk
  <1>7. CASE Params!Succeed \/ Params!Fail
    <2>1. UNCHANGED <<source, late, asked>> /\ run.stage = "asking"
          /\ target' = [k \in ParamKey |-> IF k \in run.wrote THEN done + 1 ELSE target[k]]
      BY <1>7 DEF Params!Succeed, Params!Fail
    <2>2. target' \in [ParamKey -> 0 .. MaxParamRuns + 1] /\ Stored' \subseteq asked' \ hollow'
      BY <1>1, <1>4, <1>5, <1>6, <2>1 DEF ParamKeysOk, Stored, ParamsKept
    <2>3. done' \in Nat /\ done' <= MaxParamRuns
      BY <1>5, <1>7, <2>1 DEF Params!Succeed, Params!Fail, ParamRunOk
    <2>4. offset' \in Nat
      <3>1. run.keys \subseteq ParamKey
        BY DEF ParamTypes, ParamRun
      <3>2. Cardinality(run.keys) \in Nat
        BY <3>1, FS_Subset, FS_CardinalityType DEF ParamBounds
      <3>. QED
        BY <1>7, <3>2, SameCount DEF Params!Succeed, Params!Fail, Params!NextOffset, Params!Offset,
                 ParamTypes
    <2>5. /\ waits' \in [ParamKey -> Nat]
          /\ \A k \in ParamKey \ source : waits'[k] = waits[k]
      BY <1>7 DEF Params!Succeed, Params!Fail, ParamTypes
    <2>6. ParamTypes'
      BY <1>1, <1>7, <2>1, <2>2, <2>3, <2>4, <2>5, ParamRunSteps DEF ParamTypes, ParamsKept
    <2>7. ParamRunOk'
      BY <1>7, ParamRunSteps DEF ParamRunOk
    <2>. QED
      BY <1>1, <2>1, <2>2, <2>5, <2>6, <2>7 DEF ParamKeysOk
  <1>8. CASE Params!Lose
    <2>1. UNCHANGED <<mode, hollow, source, target, offset, late, asked, waits, done>>
      BY <1>8 DEF Params!Lose
    <2>2. ParamTypes'
      BY <1>8, <2>1, ParamRunSteps DEF ParamTypes
    <2>3. ParamRunOk'
      BY <1>8, ParamRunSteps DEF ParamRunOk
    <2>. QED
      BY <1>1, <2>1, <2>2, <2>3 DEF ParamKeysOk, Stored
  <1>9. ASSUME NEW k \in ParamKey, Params!Arrive(k) PROVE ParamTypes' /\ ParamRunOk'
               /\ ParamKeysOk'
    <2>1. UNCHANGED <<mode, hollow, target, offset, asked, waits, done, run>>
          /\ source' = source \cup {k} /\ (late' = late \/ late' = late \cup {k})
      BY <1>9 DEF Params!Arrive
    <2>2. ParamTypes'
      BY <2>1 DEF ParamTypes
    <2>3. ParamRunOk'
      BY <2>1 DEF ParamRunOk
    <2>. QED
      BY <2>1, <2>2, <2>3 DEF ParamKeysOk, Stored
  <1>10. CASE UNCHANGED Params!vars
    BY <1>1, <1>10 DEF Params!vars, ParamTypes, ParamRunOk, ParamKeysOk, Stored
  <1>. QED
    BY <1>1, <1>2, <1>3, <1>7, <1>8, <1>9, <1>10 DEF Params!Next

LEMMA ParamRowsStart ==
  ASSUME ParamBounds, Params!Init
  PROVE  ParamTypes /\ ParamRunOk /\ ParamKeysOk
  <1>1. Params!Idle \in ParamRun /\ Params!Idle.keys = {} /\ Params!Idle.left = {}
        /\ Params!Idle.wrote = {}
        /\ Params!Idle.stage = "idle"
    BY DEF Params!Idle, ParamRun
  <1>. QED
    BY <1>1, SameCount DEF Params!Init, ParamTypes, ParamRunOk, ParamKeysOk, Stored, ParamBounds

-----------------------------------------------------------------------------
(* What a run selects.                                                      *)

Ahead(k) == {j \in Params!Wanted : Params!Before(j, k)}
AheadOf == [k \in Params!Wanted |-> Ahead(k)]

LEMMA WantedOrder ==
  ASSUME ParamBounds, ParamTypes
  PROVE  /\ Params!Wanted \subseteq source /\ IsFiniteSet(Params!Wanted)
              /\ InOrder(Params!Wanted, AheadOf)
         /\ Params!Offset \in Nat /\ Limit \in Nat
         /\ Params!Selected = Page(Params!Wanted, AheadOf, Params!Offset, Limit)
  <1>1. Params!Wanted \subseteq source /\ Params!Wanted \subseteq ParamKey
    BY DEF Params!Wanted, ParamTypes
  <1>2. IsFiniteSet(Params!Wanted)
    BY <1>1, FS_Subset DEF ParamBounds
  <1>3. \A k \in ParamKey : k \in Int /\ target[k] \in Int
    BY DEF ParamBounds, ParamTypes
  <1>4. /\ \A a \in ParamKey : ~Params!Before(a, a)
        /\ \A a, b, c \in ParamKey : Params!Before(a, b) /\ Params!Before(b, c)
             => Params!Before(a, c)
        /\ \A a, b \in ParamKey : a # b => Params!Before(a, b) \/ Params!Before(b, a)
    BY <1>3 DEF Params!Before
  <1>5. AheadOf \in [Params!Wanted -> SUBSET Params!Wanted]
        /\ \A a \in Params!Wanted : AheadOf[a] = Ahead(a)
    BY DEF AheadOf, Ahead
  <1>6. \A a, b \in Params!Wanted : a \in AheadOf[b] <=> Params!Before(a, b)
    BY <1>5 DEF Ahead
  <1>7. InOrder(Params!Wanted, AheadOf)
    <2>1. \A a \in Params!Wanted : a \notin AheadOf[a]
      BY <1>1, <1>4, <1>6
    <2>2. ASSUME NEW a \in Params!Wanted, NEW b \in Params!Wanted, a \in AheadOf[b],
                 NEW c \in AheadOf[a]
          PROVE  c \in AheadOf[b]
      <3>1. c \in Params!Wanted
        BY <1>5, <2>2
      <3>. QED
        BY <1>1, <1>4, <1>6, <2>2, <3>1
    <2>3. \A a, b \in Params!Wanted : a # b => a \in AheadOf[b] \/ b \in AheadOf[a]
      BY <1>1, <1>4, <1>6
    <2>. QED
      BY <1>5, <2>1, <2>2, <2>3 DEF InOrder
  <1>8. Params!Offset \in Nat /\ Limit \in Nat
    BY DEF Params!Offset, ParamTypes, ParamBounds
  <1>9. Params!Selected = Page(Params!Wanted, AheadOf, Params!Offset, Limit)
    <2>1. \A a \in Params!Wanted : Position(Params!Wanted, AheadOf)[a] = Cardinality(Ahead(a))
      BY <1>5 DEF Position
    <2>. QED
      BY <2>1, SameCount DEF Params!Selected, Page, Ahead
  <1>. QED
    BY <1>1, <1>2, <1>7, <1>8, <1>9

\* A run that passes over a key has a full page in front of it.
LEMMA SelectedKeys ==
  ASSUME ParamBounds, ParamTypes
  PROVE  /\ Params!Selected \subseteq Params!Wanted
         /\ Cardinality(Params!Selected) \in Nat /\ Cardinality(Params!Selected) <= Limit
         /\ \A k \in Params!Wanted : Cardinality(Ahead(k)) \in Nat
         /\ \A k \in Params!Wanted \ Params!Selected : Cardinality(Ahead(k)) >= Params!Offset =>
              /\ Cardinality(Params!Selected) = Limit
              /\ Cardinality(Ahead(k)) >= Params!Offset + Limit
              /\ \A j \in Params!Selected : Params!Before(j, k)
         /\ Params!Selected # {} =>
              \E m \in Params!Selected :
              Cardinality(Ahead(m)) >= Params!Offset + Cardinality(Params!Selected) - 1
  <1>. DEFINE p == Position(Params!Wanted, AheadOf)
  <1>1. /\ IsFiniteSet(Params!Wanted) /\ InOrder(Params!Wanted, AheadOf)
        /\ Params!Offset \in Nat /\ Limit \in Nat
        /\ Params!Selected = Page(Params!Wanted, AheadOf, Params!Offset, Limit)
    BY WantedOrder
  <1>2. \A k \in Params!Wanted : p[k] = Cardinality(Ahead(k)) /\ AheadOf[k] = Ahead(k)
    BY DEF Position, AheadOf
  <1>3. /\ \A k \in Params!Wanted : p[k] \in Nat
        /\ \A a, b \in Params!Wanted : a \in AheadOf[b] <=> p[a] < p[b]
    BY <1>1, PositionsFill
  <1>. HIDE DEF p
  <1>4. /\ Cardinality(Params!Selected) \in Nat /\ Cardinality(Params!Selected) <= Limit
        /\ \A a \in Params!Wanted : p[a] >= Params!Offset + Limit
             => Cardinality(Params!Selected) = Limit
        /\ Params!Selected # {} => \E a \in Params!Selected :
             p[a] >= Params!Offset + Cardinality(Params!Selected) - 1
    BY <1>1, Pages DEF p
  <1>5. Params!Selected \subseteq Params!Wanted
        /\ \A k \in Params!Wanted :
             k \in Params!Selected <=> p[k] \in Params!Offset .. Params!Offset + Limit - 1
    BY <1>1 DEF Page, p
  <1>6. ASSUME NEW k \in Params!Wanted \ Params!Selected, Cardinality(Ahead(k)) >= Params!Offset
        PROVE  /\ Cardinality(Params!Selected) = Limit
               /\ Cardinality(Ahead(k)) >= Params!Offset + Limit
               /\ \A j \in Params!Selected : Params!Before(j, k)
    <2>1. p[k] >= Params!Offset + Limit
      BY <1>1, <1>2, <1>3, <1>5, <1>6
    <2>2. ASSUME NEW j \in Params!Selected
          PROVE  Params!Before(j, k)
      <3>1. j \in Params!Wanted /\ p[j] < p[k]
        BY <1>1, <1>3, <1>5, <2>1
      <3>2. j \in Ahead(k)
        BY <1>2, <1>3, <3>1
      <3>. QED
        BY <3>2 DEF Ahead
    <2>. QED
      BY <1>2, <1>4, <2>1, <2>2
  <1>7. Params!Selected # {} =>
          \E m \in Params!Selected :
          Cardinality(Ahead(m)) >= Params!Offset + Cardinality(Params!Selected) - 1
    BY <1>2, <1>4, <1>5
  <1>. QED
    BY <1>2, <1>3, <1>4, <1>5, <1>6, <1>7

-----------------------------------------------------------------------------
(* The offset.                                                              *)

LEMMA Belows ==
  ASSUME ParamBounds, NEW S, S \subseteq ParamKey, NEW k \in ParamKey
  PROVE  /\ Below(S, k) \in Nat
         /\ k \in S => Below(S, k) < Cardinality(ParamKey) /\ Cardinality(ParamKey) \in Nat
         /\ \A m \in S : m < k => Below(S, m) < Below(S, k)
         /\ \A R : R \subseteq S => Below(R, k) <= Below(S, k)
  <1>1. \A A, B : B \subseteq ParamKey /\ A \subseteq B =>
          /\ Cardinality(A) \in Nat /\ Cardinality(B) \in Nat /\ Cardinality(A) <= Cardinality(B)
          /\ A # B => Cardinality(A) < Cardinality(B)
    <2>. SUFFICES ASSUME NEW A, NEW B, B \subseteq ParamKey, A \subseteq B
                  PROVE  /\ Cardinality(A) \in Nat /\ Cardinality(B) \in Nat
                         /\ Cardinality(A) <= Cardinality(B)
                         /\ A # B => Cardinality(A) < Cardinality(B)
      OBVIOUS
    <2>1. IsFiniteSet(B)
      BY FS_Subset DEF ParamBounds
    <2>2. IsFiniteSet(A) /\ Cardinality(A) <= Cardinality(B)
          /\ (Cardinality(A) = Cardinality(B) => A = B)
      BY <2>1, FS_Subset
    <2>3. Cardinality(A) \in Nat /\ Cardinality(B) \in Nat
      BY <2>1, <2>2, FS_CardinalityType
    <2>. QED
      BY <2>2, <2>3
  <1>2. ASSUME NEW A, NEW B, B \subseteq ParamKey, A \subseteq B
        PROVE  /\ Cardinality(A) \in Nat /\ Cardinality(B) \in Nat
               /\ Cardinality(A) <= Cardinality(B)
               /\ A # B => Cardinality(A) < Cardinality(B)
    BY <1>1, <1>2
  <1>3. \A x \in ParamKey : x \in Int
    BY DEF ParamBounds
  <1>4. Below(S, k) \in Nat
    <2>1. {j \in S : j < k} \subseteq ParamKey
      OBVIOUS
    <2>. QED
      BY <1>1, <2>1 DEF Below
  <1>5. ASSUME k \in S
        PROVE  Below(S, k) < Cardinality(ParamKey) /\ Cardinality(ParamKey) \in Nat
    <2>1. {j \in S : j < k} \subseteq ParamKey /\ {j \in S : j < k} # ParamKey
      BY <1>3
    <2>. QED
      BY <1>1, <2>1 DEF Below
  <1>6. ASSUME NEW m \in S, m < k
        PROVE  Below(S, m) < Below(S, k)
    <2>1. \A j \in S : j < m => j < k
      BY <1>3, <1>6
    <2>2. /\ {j \in S : j < k} \subseteq ParamKey /\ {j \in S : j < m} \subseteq {j \in S : j < k}
      BY <2>1
    <2>3. ~(m < m) /\ m \in {j \in S : j < k}
      BY <1>3, <1>6
    <2>4. {j \in S : j < m} # {j \in S : j < k}
      BY <2>3
    <2>. QED
      BY <1>1, <2>2, <2>4 DEF Below
  <1>7. ASSUME NEW R, R \subseteq S
        PROVE  Below(R, k) <= Below(S, k)
    <2>1. {j \in S : j < k} \subseteq ParamKey /\ {j \in R : j < k} \subseteq {j \in S : j < k}
      BY <1>7
    <2>. QED
      BY <1>1, <2>1 DEF Below
  <1>. QED
    BY <1>4, <1>5, <1>6, <1>7

LEMMA OffsetHolds ==
  ASSUME ParamBounds, Limit > 1, mode = "offset", ParamTypes, ParamRunOk, ParamKeysOk, OffsetOk,
         [Params!Next]_Params!vars
  PROVE  OffsetOk'
  <1>1. ParamTypes' /\ ParamsKept /\ Limit \in Nat
    BY ParamRowsStep DEF ParamBounds
  <1>2. \A k \in ParamKey : Rank(k) \in Nat /\ Rank(k)' \in Nat /\ waits[k] \in Nat
    BY <1>1, Belows DEF ParamTypes, Rank
  <1>3. source \subseteq ParamKey /\ source' \subseteq ParamKey /\ offset \in Nat
        /\ run.keys \subseteq ParamKey
        /\ Cardinality(run.keys) \in Nat
    <2>1. run.keys \subseteq ParamKey
      BY DEF ParamTypes, ParamRun
    <2>. QED
      BY <1>1, <2>1, FS_Subset, FS_CardinalityType DEF ParamTypes, ParamBounds
  <1>4. Cardinality({}) = 0
    BY FS_EmptySet
  <1>5. CASE Params!Select
    <2>1. UNCHANGED <<mode, hollow, source, target, offset, late, asked, waits, done>>
          /\ run'.keys = Params!Selected
      BY <1>5, ParamRunSteps DEF Params!Select
    <2>2. Params!Wanted = source /\ Params!Offset = offset
          /\ \A k \in source : Ahead(k) = {j \in source : j < k}
      BY DEF Params!Wanted, Params!Offset, Ahead, Params!Before
    <2>3. \A k \in source : Cardinality(Ahead(k)) = Rank(k) /\ Rank(k)' = Rank(k)
      BY <2>1, <2>2 DEF Rank, Below
    <2>4. Params!Selected # {} => \E m \in Params!Selected :
          Rank(m) >= offset + Cardinality(Params!Selected) - 1
      BY <2>2, <2>3, SelectedKeys
    <2>5. ASSUME NEW k \in source \ (asked \cup late), k \notin Params!Selected
          PROVE  /\ Cardinality(Params!Selected) = Limit
                 /\ Rank(k) >= offset + Limit
      BY <2>2, <2>3, <2>5, SelectedKeys DEF OffsetOk
    <2>6. Params!Selected \subseteq source
      BY <2>2, SelectedKeys
    <2>7. Params!Selected # {} => \E m \in Params!Selected :
          Rank(m)' >= offset + Cardinality(Params!Selected) - 1
      BY <2>3, <2>4, <2>6
    <2>. QED
      BY <2>1, <2>3, <2>5, <2>7 DEF OffsetOk
  <1>6. ASSUME NEW k \in ParamKey, Params!Ask(k) PROVE OffsetOk'
    <2>1. UNCHANGED <<mode, hollow, source, target, offset, late, waits, done>>
          /\ asked \subseteq asked' /\ run'.keys = run.keys /\ run'.stage = run.stage
      BY <1>6, ParamRunSteps DEF Params!Ask
    <2>2. \A x \in ParamKey : Rank(x)' = Rank(x)
      BY <2>1 DEF Rank, Below
    <2>. QED
      BY <1>3, <2>1, <2>2 DEF OffsetOk
  <1>7. CASE Params!Fail \/ Params!Lose
    <2>1. UNCHANGED <<mode, hollow, source, offset, late, asked, waits, done>>
          /\ run'.keys = {} /\ run'.stage = "idle"
      BY <1>7, ParamRunSteps DEF Params!Fail, Params!Lose
    <2>2. \A x \in ParamKey : Rank(x)' = Rank(x)
      BY <2>1 DEF Rank, Below
    <2>. QED
      BY <1>2, <1>3, <1>4, <2>1, <2>2 DEF OffsetOk
  <1>8. CASE Params!Succeed
    <2>1. UNCHANGED <<source, late, asked>> /\ run'.keys = {} /\ run'.stage = "idle"
          /\ run.stage = "asking" /\ run.left = {} /\ offset' = offset + Cardinality(run.keys)
          /\ waits' = [k \in ParamKey |-> IF k \in source \ asked THEN waits[k] + 1 ELSE waits[k]]
      BY <1>8, ParamRunSteps, SameCount DEF Params!Succeed, Params!NextOffset, Params!Offset
    <2>2. \A x \in ParamKey : Rank(x)' = Rank(x)
      BY <2>1 DEF Rank, Below
    <2>3. ASSUME NEW k \in source \ (asked \cup late)
          PROVE  Rank(k) >= offset' /\ 2 * (waits'[k] - 1) <= offset'
      <3>1. k \notin run.keys /\ k \in ParamKey
        BY <1>3, <2>1, <2>3 DEF ParamRunOk
      <3>2. /\ Rank(k) >= offset + Cardinality(run.keys)
            /\ waits[k] = 0 \/ Cardinality(run.keys) = Limit
            /\ waits[k] = 0 \/ 2 * (waits[k] - 1) <= offset
        BY <2>1, <2>3, <3>1 DEF OffsetOk
      <3>3. waits'[k] = waits[k] + 1 /\ waits[k] \in Nat
        BY <1>2, <2>1, <2>3, <3>1
      <3>. QED
        BY <1>1, <1>3, <2>1, <3>2, <3>3
    <2>4. \A k \in source' \ (asked' \cup late') :
            /\ Rank(k)' >= offset'
            /\ k \notin run'.keys => Rank(k)' >= offset' + Cardinality(run'.keys)
            /\ waits'[k] = 0 \/ 2 * (waits'[k] - 1) <= offset'
      BY <1>2, <1>3, <1>4, <2>1, <2>2, <2>3
    <2>. QED
      BY <2>1, <2>4 DEF OffsetOk
  <1>9. ASSUME NEW x \in ParamKey, Params!Arrive(x) PROVE OffsetOk'
    <2>1. /\ UNCHANGED <<mode, hollow, target, offset, asked, waits, done, run>>
          /\ x \notin source /\ source' = source \cup {x} /\ late \subseteq late'
      BY <1>9 DEF Params!Arrive
    <2>2. ASSUME x \notin late'
          PROVE  Rank(x) >= offset /\ \A j \in run.keys : ~(x < j)
      <3>1. ~(Rank(x) < offset \/ \E j \in run.keys : x < j)
        BY <1>9, <2>2, SameCount DEF Params!Arrive, Rank, Below
      <3>. QED
        BY <1>2, <1>3, <3>1
    <2>3. \A k \in ParamKey : Rank(k) <= Rank(k)'
      BY <1>1, <2>1, Belows DEF Rank, ParamTypes
    <2>4. run.keys # {} => \E m \in run.keys : Rank(m)' >= offset + Cardinality(run.keys) - 1
      BY <1>2, <1>3, <2>3 DEF OffsetOk
    <2>5. ASSUME x \notin late'
          PROVE  Rank(x)' >= offset + Cardinality(run.keys)
      <3>1. CASE run.keys = {}
        BY <1>2, <1>3, <1>4, <2>2, <2>3, <2>5, <3>1
      <3>2. CASE run.keys # {}
        <4>1. PICK m \in run.keys : Rank(m)' >= offset + Cardinality(run.keys) - 1
          BY <2>4, <3>2
        <4>2. m \in source' /\ m \in ParamKey /\ m # x
          BY <1>3, <2>1, <4>1 DEF ParamRunOk
        <4>3. m < x
          <5>1. m \in Int /\ x \in Int
            BY <4>2 DEF ParamBounds
          <5>2. ~(x < m)
            BY <2>2, <2>5, <4>1
          <5>. QED
            BY <4>2, <5>1, <5>2
        <4>4. Rank(m)' < Rank(x)'
          BY <1>3, <4>2, <4>3, Belows DEF Rank
        <4>. QED
          BY <1>2, <1>3, <4>1, <4>2, <4>4
      <3>. QED
        BY <3>1, <3>2
    <2>6. waits[x] = 0
      BY <2>1 DEF ParamKeysOk
    <2>7. ASSUME NEW k \in source' \ (asked' \cup late')
          PROVE  /\ Rank(k)' >= offset
                 /\ k \notin run.keys => Rank(k)' >= offset + Cardinality(run.keys)
                 /\ run.stage = "asking" =>
                      k \in run.keys \/ waits[k] = 0 \/ Cardinality(run.keys) = Limit
                 /\ waits[k] = 0 \/ 2 * (waits[k] - 1) <= offset
      <3>1. CASE k = x
        BY <1>2, <1>3, <2>5, <2>6, <2>7, <3>1
      <3>2. CASE k # x
        <4>1. k \in source \ (asked \cup late) /\ k \in ParamKey
          BY <1>3, <2>1, <2>7, <3>2
        <4>. QED
          BY <1>2, <1>3, <2>3, <4>1 DEF OffsetOk
      <3>. QED
        BY <3>1, <3>2
    <2>. QED
      BY <2>1, <2>4, <2>7 DEF OffsetOk
  <1>10. CASE UNCHANGED Params!vars
    <2>1. \A x \in ParamKey : Rank(x)' = Rank(x)
      BY <1>10 DEF Params!vars, Rank
    <2>. QED
      BY <1>3, <1>10, <2>1 DEF Params!vars, OffsetOk
  <1>. QED
    BY <1>5, <1>6, <1>7, <1>8, <1>9, <1>10 DEF Params!Next

-----------------------------------------------------------------------------
(* The scans.                                                               *)

LEMMA StoredCount ==
  ASSUME ParamBounds
  PROVE  /\ \A S : S \subseteq ParamKey => IsFiniteSet(S) /\ Cardinality(S) \in Nat
         /\ \A S, T : T \subseteq ParamKey /\ S \subseteq T => Cardinality(S) <= Cardinality(T)
         /\ \A S, T : S \subseteq ParamKey /\ T \subseteq ParamKey /\ S \cap T = {} =>
              Cardinality(S \cup T) = Cardinality(S) + Cardinality(T)
         /\ \A S, T : S \subseteq ParamKey /\ T \subseteq ParamKey =>
              Cardinality(S \ T) >= Cardinality(S) - Cardinality(T)
  <1>1. ASSUME NEW S, S \subseteq ParamKey
        PROVE  IsFiniteSet(S) /\ Cardinality(S) \in Nat
    BY <1>1, FS_Subset, FS_CardinalityType DEF ParamBounds
  <1>2. ASSUME NEW S, NEW T, T \subseteq ParamKey, S \subseteq T
        PROVE  Cardinality(S) <= Cardinality(T)
    BY <1>1, <1>2, FS_Subset
  <1>3. ASSUME NEW S, NEW T, S \subseteq ParamKey, T \subseteq ParamKey, S \cap T = {}
        PROVE  Cardinality(S \cup T) = Cardinality(S) + Cardinality(T)
    <2>1. /\ IsFiniteSet(S) /\ IsFiniteSet(T) /\ Cardinality(S) \in Nat /\ Cardinality(T) \in Nat
          /\ Cardinality(S \cap T) = 0
      BY <1>1, <1>3, FS_EmptySet
    <2>2. Cardinality(S \cup T) = Cardinality(S) + Cardinality(T) - Cardinality(S \cap T)
      BY <2>1, FS_Union
    <2>. QED
      BY <2>1, <2>2
  <1>4. ASSUME NEW S, NEW T, S \subseteq ParamKey, T \subseteq ParamKey
        PROVE  Cardinality(S \ T) >= Cardinality(S) - Cardinality(T)
    <2>1. /\ Cardinality(S) \in Nat /\ Cardinality(T) \in Nat
          /\ Cardinality(S \ T) \in Nat /\ Cardinality(S \cap T) \in Nat
      BY <1>1, <1>4
    <2>2. Cardinality(S \cap T) <= Cardinality(T)
      BY <1>2, <1>4
    <2>3. S = (S \ T) \cup (S \cap T) /\ (S \ T) \cap (S \cap T) = {}
          /\ (S \ T) \subseteq ParamKey /\ (S \cap T) \subseteq ParamKey
      BY <1>4
    <2>4. Cardinality((S \ T) \cup (S \cap T)) = Cardinality(S \ T) + Cardinality(S \cap T)
      BY <1>3, <2>3
    <2>5. Cardinality(S) = Cardinality(S \ T) + Cardinality(S \cap T)
      BY <2>3, <2>4
    <2>. QED
      BY <2>1, <2>2, <2>5
  <1>. QED
    BY <1>1, <1>2, <1>3, <1>4

\* A key that was never asked for has no row: what a run puts in front of it has none either.
LEMMA FrontIsNew ==
  ASSUME ParamBounds, ParamTypes, ParamKeysOk, mode # "offset", NEW k \in source \ asked,
         k \notin Params!Selected
  PROVE  Cardinality(Params!Selected) = Limit /\ Params!Selected \cap Stored = {}
  <1>1. k \in Params!Wanted /\ target[k] = 0 /\ Params!Offset = 0
    BY DEF Params!Wanted, Params!Offset, ParamKeysOk, Stored, ParamTypes
  <1>2. Cardinality(Ahead(k)) >= Params!Offset
    <2>1. Cardinality(Ahead(k)) \in Nat
      BY <1>1, SelectedKeys
    <2>. QED
      BY <1>1, <2>1
  <1>3. Cardinality(Params!Selected) = Limit /\ \A j \in Params!Selected : Params!Before(j, k)
        /\ j \in Params!Wanted
    BY <1>1, <1>2, SelectedKeys
  <1>4. ASSUME NEW j \in Params!Selected
        PROVE  target[j] = 0
    <2>1. j \in Params!Wanted /\ Params!Before(j, k) /\ j \in ParamKey /\ target[j] \in Nat
      BY <1>3 DEF Params!Wanted, ParamTypes
    <2>2. CASE mode = "refresh"
      BY <1>1, <2>1, <2>2 DEF Params!Before
    <2>3. CASE mode # "refresh"
      BY <2>1, <2>3 DEF Params!Wanted
    <2>. QED
      BY <2>2, <2>3
  <1>. QED
    BY <1>3, <1>4 DEF Stored

LEMMA ScanHolds ==
  ASSUME ParamBounds, Limit > 1, mode # "offset", ParamTypes, ParamRunOk, ParamKeysOk,
         PassedOver, [Params!Next]_Params!vars
  PROVE  PassedOver'
  <1>1. ParamTypes' /\ ParamsKept /\ Limit \in Nat /\ hollow \subseteq ParamKey
    BY ParamRowsStep DEF ParamBounds, ParamTypes
  <1>2. /\ \A k \in ParamKey : waits[k] \in Nat
        /\ source \subseteq ParamKey /\ run.keys \subseteq ParamKey
        /\ Stored \subseteq ParamKey /\ Stored' \subseteq ParamKey
    BY DEF ParamTypes, ParamRun, Stored
  <1>3. /\ Cardinality(run.keys) \in Nat /\ Cardinality(Stored) \in Nat
        /\ Cardinality(Stored') \in Nat /\ Cardinality(hollow) \in Nat
    BY <1>1, <1>2, StoredCount
  <1>4. CASE Params!Select
    <2>1. UNCHANGED <<mode, hollow, source, target, offset, late, asked, waits, done>>
          /\ run'.keys = Params!Selected
      BY <1>4, ParamRunSteps DEF Params!Select
    <2>2. Stored' = Stored
      BY <2>1 DEF Stored
    <2>3. ASSUME NEW k \in source \ asked, k \notin Params!Selected
          PROVE  Cardinality(Params!Selected) = Limit /\ Params!Selected \cap Stored = {}
      BY <2>3, FrontIsNew
    <2>4. \A k \in source \ asked :
            /\ waits[k] = 0 \/ waits[k] - 1 <= Cardinality(Stored)
            /\ waits[k] # 0 /\ hollow \subseteq {k} => 2 * (waits[k] - 1) <= Cardinality(Stored)
      BY DEF PassedOver
    <2>. QED
      BY <2>1, <2>2, <2>3, <2>4 DEF PassedOver
  <1>5. ASSUME NEW x \in ParamKey, Params!Ask(x) PROVE PassedOver'
    <2>1. UNCHANGED <<mode, hollow, source, target, offset, late, waits, done>>
          /\ asked \subseteq asked' /\ run'.keys = run.keys /\ run'.stage = run.stage
      BY <1>5, ParamRunSteps DEF Params!Ask
    <2>2. Stored' = Stored
      BY <2>1 DEF Stored
    <2>. QED
      BY <2>1, <2>2 DEF PassedOver
  <1>6. CASE Params!Lose
    <2>1. UNCHANGED <<mode, hollow, source, target, offset, late, asked, waits, done>>
          /\ run'.keys = {} /\ run'.stage = "idle"
      BY <1>6, ParamRunSteps DEF Params!Lose
    <2>2. Stored' = Stored
      BY <2>1 DEF Stored
    <2>. QED
      BY <2>1, <2>2 DEF PassedOver
  <1>7. CASE Params!Fail
    <2>1. UNCHANGED <<mode, hollow, source, offset, late, asked, waits, done>>
          /\ run'.keys = {} /\ run'.stage = "idle"
          /\ target' = [k \in ParamKey |-> IF k \in run.wrote THEN done + 1 ELSE target[k]]
      BY <1>7, ParamRunSteps DEF Params!Fail
    <2>2. Stored \subseteq Stored'
      BY <2>1 DEF Stored, ParamTypes
    <2>3. Cardinality(Stored) <= Cardinality(Stored')
      BY <1>2, <2>2, StoredCount
    <2>4. \A k \in source \ asked :
            /\ waits[k] = 0 \/ waits[k] - 1 <= Cardinality(Stored')
            /\ waits[k] # 0 /\ hollow \subseteq {k} => 2 * (waits[k] - 1) <= Cardinality(Stored')
      BY <1>2, <1>3, <2>3 DEF PassedOver
    <2>. QED
      BY <2>1, <2>4 DEF PassedOver
  <1>8. CASE Params!Succeed
    <2>. DEFINE new == run.keys \ hollow
    <2>1. UNCHANGED <<hollow, source, late, asked>> /\ run'.keys = {} /\ run'.stage = "idle"
          /\ run.stage = "asking" /\ run.left = {}
          /\ target' = [k \in ParamKey |-> IF k \in run.wrote THEN done + 1 ELSE target[k]]
          /\ waits' = [k \in ParamKey |-> IF k \in source \ asked THEN waits[k] + 1 ELSE waits[k]]
      BY <1>8, ParamRunSteps DEF Params!Succeed
    <2>2. run.wrote = new /\ new \subseteq ParamKey
      BY <1>2, <2>1 DEF ParamRunOk
    <2>3. Stored' = Stored \cup new
      BY <2>1, <2>2 DEF Stored, ParamTypes
    <2>4. Cardinality(new) >= Cardinality(run.keys) - Cardinality(hollow)
          /\ Cardinality(new) \in Nat
      BY <1>1, <1>2, <2>2, StoredCount
    <2>5. Cardinality(Stored) <= Cardinality(Stored')
      BY <1>2, <2>3, StoredCount
    <2>6. ASSUME NEW k \in source \ asked
          PROVE  /\ waits'[k] - 1 <= Cardinality(Stored')
                 /\ hollow \subseteq {k} => 2 * (waits'[k] - 1) <= Cardinality(Stored')
      <3>1. waits'[k] = waits[k] + 1 /\ waits[k] \in Nat /\ k \notin run.keys
        BY <1>2, <2>1, <2>6 DEF ParamRunOk
      <3>2. CASE waits[k] = 0
        BY <1>3, <3>1, <3>2
      <3>3. CASE waits[k] # 0
        <4>1. /\ Cardinality(run.keys) = Limit /\ run.keys \cap Stored = {}
              /\ waits[k] - 1 <= Cardinality(Stored)
              /\ hollow \subseteq {k} => 2 * (waits[k] - 1) <= Cardinality(Stored)
          BY <2>1, <2>6, <3>1, <3>3 DEF PassedOver
        <4>2. Cardinality(Stored') = Cardinality(Stored) + Cardinality(new)
          BY <1>2, <2>2, <2>3, <4>1, StoredCount
        <4>3. Cardinality(new) >= 1
          BY <1>1, <1>3, <2>4, <4>1 DEF ParamTypes
        <4>4. ASSUME hollow \subseteq {k}
              PROVE  Cardinality(new) = Limit
          <5>1. new = run.keys
            BY <3>1, <4>4
          <5>. QED
            BY <4>1, <5>1
        <4>. QED
          BY <1>1, <1>3, <2>4, <3>1, <4>1, <4>2, <4>3, <4>4
      <3>. QED
        BY <3>2, <3>3
    <2>. QED
      BY <2>1, <2>6 DEF PassedOver
  <1>9. ASSUME NEW x \in ParamKey, Params!Arrive(x) PROVE PassedOver'
    <2>1. /\ UNCHANGED <<mode, hollow, target, offset, asked, waits, done, run>>
          /\ x \notin source /\ source' = source \cup {x}
      BY <1>9 DEF Params!Arrive
    <2>2. waits[x] = 0 /\ Stored' = Stored
      BY <2>1 DEF ParamKeysOk, Stored
    <2>. QED
      BY <2>1, <2>2 DEF PassedOver
  <1>10. CASE UNCHANGED Params!vars
    BY <1>10 DEF Params!vars, PassedOver, Stored
  <1>. QED
    BY <1>4, <1>5, <1>6, <1>7, <1>8, <1>9, <1>10 DEF Params!Next

-----------------------------------------------------------------------------
(* Every key gets its turn.                                                 *)

\* A key that was asked for waits no more.
LEMMA AskedWaitNoMore ==
  ASSUME ParamTypes, ParamRunOk, [Params!Next]_Params!vars, NEW k \in source' \cap asked'
  PROVE  /\ k \in source /\ waits'[k] = waits[k]
         /\ k \in late => k \in late'
  <1>1. CASE Params!Select \/ Params!Fail \/ Params!Lose \/ UNCHANGED Params!vars
    BY <1>1 DEF Params!Select, Params!Fail, Params!Lose, Params!vars, ParamTypes
  <1>2. CASE Params!Succeed
    BY <1>2 DEF Params!Succeed, ParamTypes
  <1>3. ASSUME NEW x \in ParamKey, Params!Ask(x)
        PROVE  k \in source /\ waits'[k] = waits[k] /\ late' = late
    BY <1>3 DEF Params!Ask, ParamRunOk, ParamTypes
  <1>4. ASSUME NEW x \in ParamKey, Params!Arrive(x)
        PROVE  k \in source /\ waits'[k] = waits[k] /\ (k \in late => k \in late')
    BY <1>4 DEF Params!Arrive, ParamTypes
  <1>. QED
    BY <1>1, <1>2, <1>3, <1>4 DEF Params!Next

\* How long a key that was not asked for can have waited.
LEMMA WaitsAreShort ==
  ASSUME ParamBounds, Cardinality(ParamKey) > 1, ParamTypes, ParamRunOk, ParamKeysOk,
         mode = "offset" => OffsetOk, mode # "offset" => PassedOver,
         NEW k \in source \ asked
  PROVE  waits[k] < Cardinality(ParamKey) \/ (mode = "offset" /\ k \in late)
  <1>1. Cardinality(ParamKey) \in Nat /\ k \in ParamKey /\ waits[k] \in Nat
    BY StoredCount DEF ParamTypes
  <1>2. CASE mode = "offset"
    <2>1. SUFFICES ASSUME k \notin late, waits[k] # 0
                   PROVE  waits[k] < Cardinality(ParamKey)
      BY <1>1, <1>2
    <2>2. offset \in Nat /\ Rank(k) >= offset /\ 2 * (waits[k] - 1) <= offset
      BY <1>2, <2>1 DEF OffsetOk, ParamTypes
    <2>3. Rank(k) \in Nat /\ Rank(k) < Cardinality(ParamKey)
      BY <1>1, Belows DEF Rank, ParamTypes
    <2>. QED
      BY <1>1, <2>1, <2>2, <2>3
  <1>3. CASE mode # "offset"
    <2>1. SUFFICES ASSUME waits[k] # 0
                   PROVE  waits[k] < Cardinality(ParamKey)
      BY <1>1
    <2>2. /\ waits[k] - 1 <= Cardinality(Stored)
          /\ hollow \subseteq {k} => 2 * (waits[k] - 1) <= Cardinality(Stored)
      BY <1>3, <2>1 DEF PassedOver
    <2>3. Stored \cap {k} = {} /\ Stored \cap hollow = {} /\ Stored \subseteq ParamKey
      BY DEF ParamKeysOk, Stored
    <2>4. Cardinality(Stored) \in Nat /\ Cardinality({k}) = 1
      BY <2>3, StoredCount, FS_Singleton
    <2>5. Cardinality(Stored \cup {k}) = Cardinality(Stored) + 1
          /\ Cardinality(Stored \cup {k}) <= Cardinality(ParamKey)
      BY <1>1, <2>3, <2>4, StoredCount
    <2>6. CASE hollow \subseteq {k}
      BY <1>1, <2>1, <2>2, <2>4, <2>5, <2>6
    <2>7. ASSUME NEW h \in hollow, h # k
          PROVE  Cardinality(Stored) + 2 <= Cardinality(ParamKey)
      <3>1. h \in ParamKey /\ h \notin Stored /\ Cardinality({h}) = 1
        BY <2>3, <2>7, FS_Singleton DEF ParamTypes
      <3>2. (Stored \cup {k}) \cap {h} = {} /\ Stored \cup {k} \subseteq ParamKey
            /\ {h} \subseteq ParamKey
        BY <1>1, <2>3, <2>7, <3>1
      <3>3. Cardinality((Stored \cup {k}) \cup {h}) = Cardinality(Stored \cup {k}) + 1
        BY <3>1, <3>2, StoredCount
      <3>4. Cardinality((Stored \cup {k}) \cup {h}) <= Cardinality(ParamKey)
        BY <3>2, StoredCount
      <3>. QED
        BY <1>1, <2>4, <2>5, <3>3, <3>4
    <2>. QED
      BY <1>1, <2>1, <2>2, <2>4, <2>6, <2>7
  <1>. QED
    BY <1>2, <1>3

LEMMA ParamInit ==
  ASSUME ParamBounds, Params!Init
  PROVE  ParamIInv
  <1>1. ParamTypes /\ ParamRunOk /\ ParamKeysOk
    BY ParamRowsStart
  <1>2. source = {} /\ run.keys = {}
    BY <1>1 DEF Params!Init, ParamRunOk
  <1>. QED
    BY <1>1, <1>2 DEF Params!Init, ParamIInv, OffsetOk, PassedOver, AskedOk

LEMMA ParamStep ==
  ASSUME ParamBounds, Limit > 1, Cardinality(ParamKey) > 1, ParamIInv, [Params!Next]_Params!vars
  PROVE  ParamIInv'
  <1>1. ParamTypes /\ ParamRunOk /\ ParamKeysOk
    BY DEF ParamIInv
  <1>2. ParamTypes' /\ ParamRunOk' /\ ParamKeysOk' /\ mode' = mode
    BY <1>1, ParamRowsStep DEF ParamsKept
  <1>3. mode' = "offset" => OffsetOk'
    BY <1>1, <1>2, OffsetHolds DEF ParamIInv
  <1>4. mode' # "offset" => PassedOver'
    BY <1>1, <1>2, ScanHolds DEF ParamIInv
  <1>5. AskedOk'
    <2>1. ASSUME NEW k \in asked'
          PROVE  waits'[k] < Cardinality(ParamKey) \/ (mode' = "offset" /\ k \in late')
      <3>1. k \in source /\ waits'[k] = waits[k] /\ (k \in late => k \in late')
        BY <1>1, <1>2, <2>1, AskedWaitNoMore DEF ParamTypes
      <3>2. waits[k] < Cardinality(ParamKey) \/ (mode = "offset" /\ k \in late)
        BY <1>1, <3>1, WaitsAreShort DEF ParamIInv, AskedOk
      <3>. QED
        BY <1>2, <3>1, <3>2
    <2>. QED
      BY <2>1 DEF AskedOk
  <1>. QED
    BY <1>2, <1>3, <1>4, <1>5 DEF ParamIInv

LEMMA ParamPromise ==
  ASSUME ParamBounds, Cardinality(ParamKey) > 1, ParamIInv
  PROVE  Params!TypeOK /\ Params!EveryKeyGetsItsTurn
  <1>1. Params!TypeOK
    BY DEF ParamIInv, ParamTypes, ParamRunOk, Params!TypeOK
  <1>2. Params!EveryKeyGetsItsTurn
    BY WaitsAreShort, SameCount DEF ParamIInv, AskedOk, Params!EveryKeyGetsItsTurn
  <1>. QED
    BY <1>1, <1>2

ParamsInv == focus = "params" => ParamIInv

LEMMA ParamsAlways ==
  ASSUME Limit > 1, Cardinality(ParamKey) > 1
  PROVE  MCSpec => []ParamsInv
  <1>1. ParamBounds
    BY ParamsAssumption DEF ParamBounds
  <1>2. MCInit => ParamsInv
    BY <1>1, ParamInit DEF MCInit, ParamsInv
  <1>3. ASSUME ParamsInv, [MCNext]_MCvars
        PROVE  ParamsInv'
    <2>. SUFFICES ASSUME focus = "params"
                  PROVE  ParamIInv'
      BY <1>3, FocusStays DEF ParamsInv
    <2>1. CASE MCNext
      BY <1>1, <1>3, <2>1, ParamStep DEF MCNext, ParamsInv
    <2>2. CASE UNCHANGED MCvars
      <3>1. UNCHANGED Params!vars
        BY <2>2 DEF MCvars, OfParams, Params!vars
      <3>. QED
        BY <1>1, <1>3, <3>1, ParamStep DEF ParamsInv
    <2>. QED
      BY <1>3, <2>1, <2>2
  <1>. QED
    BY <1>2, <1>3, PTL DEF MCSpec

\* ParamSource: every key gets its turn within as many successful runs as there are keys, in
\* each of the three modes.  More than one key, and a limit of more than one: a key that
\* arrives while an empty run is under way waits once before it can be selected.
THEOREM KeysAreServed ==
  ASSUME Limit > 1, Cardinality(ParamKey) > 1
  PROVE  MCSpec => []EveryKeyGetsItsTurn
  <1>1. ParamBounds
    BY ParamsAssumption DEF ParamBounds
  <1>2. ParamsInv => EveryKeyGetsItsTurn
    BY <1>1, ParamPromise DEF ParamsInv, EveryKeyGetsItsTurn
  <1>. QED
    BY <1>2, ParamsAlways, PTL

-----------------------------------------------------------------------------
(* WorkerRuntime.                                                           *)

\* No actor is the value that stands for no job.
Actors == "none" \notin Actor

RegistryInv == focus = "registry" => Registry!IInv

LEMMA RegistryAlways ==
  ASSUME Actors
  PROVE  MCSpec => []RegistryInv
  <1>1. Registry!Bounds
    BY DEF Registry!Bounds, Registry!NoJob, Actors
  <1>2. MCInit => RegistryInv
    BY <1>1, Registry!InitHolds DEF MCInit, RegistryInv
  <1>3. ASSUME RegistryInv, [MCNext]_MCvars
        PROVE  RegistryInv'
    <2>. SUFFICES ASSUME focus = "registry"
                  PROVE  Registry!IInv'
      BY <1>3, FocusStays DEF RegistryInv
    <2>1. CASE MCNext
      BY <1>1, <1>3, <2>1, Registry!StepHolds DEF MCNext, RegistryInv
    <2>2. CASE UNCHANGED MCvars
      <3>1. UNCHANGED Registry!vars
        BY <2>2 DEF MCvars, OfRegistry, Registry!vars
      <3>. QED
        BY <1>1, <1>3, <3>1, Registry!StepHolds DEF RegistryInv
    <2>. QED
      BY <1>3, <2>1, <2>2
  <1>. QED
    BY <1>2, <1>3, PTL DEF MCSpec

\* WorkerRuntime: the registry shows what the registered instance of a name does.
THEOREM RegistryIsTrue ==
  ASSUME Actors
  PROVE  MCSpec => []RowsTellTheTruth
  <1>1. RegistryInv => RowsTellTheTruth
    BY Registry!Promises DEF RegistryInv, RowsTellTheTruth
  <1>. QED
    BY <1>1, RegistryAlways, PTL

-----------------------------------------------------------------------------
(* BackfillStart, whose scans are saved while no job of the target runs.    *)

BackfillBounds ==
  /\ LastDay \in Nat /\ Floor \in Int
  /\ ScanDays \in Nat \ {0} /\ JobDays \in Nat \ {0}

ScanState == [stage : {"idle", "coarse", "refine", "save"}, from : Int, to : Int, cursor : Int,
              low : Int, high : Int, stable : SUBSET Backfill!Day]
PointState == [there : BOOLEAN, next : Int, floor : Int, begun : BOOLEAN]
JobState == [stage : {"none", "queued", "running"}, start : Int, end : Int]

BackfillTypes ==
  /\ stable \subseteq Backfill!Day
  /\ scan \in [Scanner -> ScanState]
  /\ point \in PointState
  /\ job \in JobState

\* What a scan q holds: days that had data all along lie in its range, and none of them was
\* passed.
ScanOk(q) ==
  /\ q.stable \subseteq data
  /\ q.stage = "coarse" =>
       \A d \in q.stable : q.cursor <= d /\ d <= q.to
  /\ q.stage = "refine" =>
       /\ q.cursor <= q.low /\ q.low <= q.high
       /\ \A d \in q.stable : q.low <= d
  /\ q.stage = "save" => \A d \in q.stable : q.low <= d

\* A job that runs began at the checkpoint, which is never below its lower bound.
JobOk ==
  /\ point.floor <= point.next
  /\ job.stage # "none" => job.start <= job.end
  /\ job.stage = "running" => job.start = point.next

BackfillInv ==
  /\ BackfillTypes /\ JobOk /\ Backfill!NothingSkipped
  /\ \A s \in Scanner : ScanOk(scan[s])

LEMMA NoScanOk ==
  ASSUME NEW q, q = Backfill!NoScan
  PROVE  q \in ScanState /\ ScanOk(q)
  BY DEF Backfill!NoScan, ScanState, ScanOk

\* A step of a scanner keeps what every scan holds, if it leaves a proper scan.
LEMMA ScanMoves ==
  ASSUME BackfillInv, NEW s \in Scanner, NEW q \in ScanState, Backfill!Become(s, q), ScanOk(q),
         data' = data
  PROVE  scan' \in [Scanner -> ScanState] /\ \A t \in Scanner : ScanOk(scan[t])'
  <1>1. scan' = [scan EXCEPT ![s] = q] /\ scan \in [Scanner -> ScanState]
    BY DEF Backfill!Become, BackfillInv, BackfillTypes
  <1>2. ASSUME NEW t \in Scanner
        PROVE  ScanOk(scan[t])'
    <2>1. scan'[t] = q \/ scan'[t] = scan[t]
      BY <1>1
    <2>2. ScanOk(scan[t])
      BY DEF BackfillInv
    <2>3. CASE scan'[t] = q
      BY <2>3 DEF ScanOk
    <2>4. CASE scan'[t] = scan[t]
      BY <2>2, <2>4 DEF ScanOk
    <2>. QED
      BY <2>1, <2>3, <2>4
  <1>. QED
    BY <1>1, <1>2

\* A probe that finds nothing has passed no day that had data all along.
LEMMA ProbeEmpty ==
  ASSUME NEW a \in Int, NEW b \in Int, ~Backfill!Any(a, b), NEW S \in SUBSET Backfill!Day,
         S \subseteq data,
         \A d \in S : a <= d, BackfillBounds
  PROVE  \A d \in S : b + 1 <= d
  BY DEF Backfill!Any, Backfill!Day, BackfillBounds

\* What a scan goes on with after an answer of the upstream.
LEMMA CoarseOk ==
  ASSUME BackfillBounds, BackfillInv, NEW s \in Scanner, Backfill!Coarse(s)
  PROVE  \E q \in ScanState : Backfill!Become(s, q) /\ ScanOk(q)
  <1>. PICK p \in ScanState : p = scan[s]
    BY DEF BackfillInv, BackfillTypes
  <1>1. ScanOk(p) /\ p.stage = "coarse"
    BY DEF BackfillInv, Backfill!Coarse, Backfill!At
  <1>. DEFINE end == Backfill!Least(p.cursor + ScanDays - 1, p.to)
              next1 == [p EXCEPT !.stage = "refine", !.low = p.cursor, !.high = end]
              next2 == [p EXCEPT !.cursor = end + 1]
  <1>2. end \in Int /\ end <= p.to
    BY DEF ScanState, Backfill!Least, BackfillBounds
  <1>3. \/ Backfill!Any(p.cursor, end) /\ Backfill!Become(s, next1)
        \/ ~Backfill!Any(p.cursor, end) /\ Backfill!Become(s, next2)
        \/ Backfill!Become(s, Backfill!NoScan)
    BY DEF Backfill!Coarse, Backfill!CoarseEnd
  <1>4. CASE Backfill!Any(p.cursor, end) /\ Backfill!Become(s, next1)
    <2>1. p.cursor <= end
      BY <1>2, <1>4 DEF Backfill!Any, ScanState
    <2>2. next1 \in ScanState
      BY <1>2 DEF ScanState
    <2>3. /\ next1.stage = "refine" /\ next1.low = p.cursor /\ next1.high = end
          /\ next1.cursor = p.cursor /\ next1.stable = p.stable
      BY DEF ScanState
    <2>4. ScanOk(next1)
      BY <1>1, <2>1, <2>3 DEF ScanOk, ScanState
    <2>. QED
      BY <1>4, <2>2, <2>4
  <1>5. CASE ~Backfill!Any(p.cursor, end) /\ Backfill!Become(s, next2)
    <2>1. next2 \in ScanState
      BY <1>2 DEF ScanState
    <2>2. next2.stage = "coarse" /\ next2.cursor = end + 1 /\ next2.stable = p.stable
          /\ next2.to = p.to
      BY <1>1 DEF ScanState
    <2>3. p.stable \in SUBSET Backfill!Day /\ p.cursor \in Int
      BY DEF ScanState
    <2>4. p.stable \subseteq data /\ \A d \in p.stable : p.cursor <= d
      BY <1>1 DEF ScanOk
    <2>5. \A d \in p.stable : end + 1 <= d
      BY <1>2, <1>5, <2>3, <2>4, ProbeEmpty
    <2>6. ScanOk(next2)
      BY <1>1, <2>2, <2>5 DEF ScanOk
    <2>. QED
      BY <1>5, <2>1, <2>6
  <1>6. CASE Backfill!Become(s, Backfill!NoScan)
    BY <1>6, NoScanOk
  <1>. QED
    BY <1>3, <1>4, <1>5, <1>6

LEMMA HalfWay ==
  ASSUME NEW a \in Int, NEW b \in Int, a < b
  PROVE  a + (b - a) \div 2 \in Int /\ a <= a + (b - a) \div 2 /\ a + (b - a) \div 2 < b
  OBVIOUS

LEMMA RefineOk ==
  ASSUME BackfillBounds, BackfillInv, NEW s \in Scanner, Backfill!Refine(s)
  PROVE  \E q \in ScanState : Backfill!Become(s, q) /\ ScanOk(q)
  <1>. PICK p \in ScanState : p = scan[s]
    BY DEF BackfillInv, BackfillTypes
  <1>1. ScanOk(p) /\ p.stage = "refine" /\ p.low < p.high
    BY DEF BackfillInv, Backfill!Refine, Backfill!At
  <1>. DEFINE middle == p.low + (p.high - p.low) \div 2
              left == [p EXCEPT !.high = middle]
              right == [p EXCEPT !.low = middle + 1]
  <1>2. p.low \in Int /\ p.high \in Int /\ p.cursor \in Int /\ p.stable \in SUBSET Backfill!Day
    BY DEF ScanState
  <1>3. middle \in Int /\ p.low <= middle /\ middle < p.high
    BY <1>1, <1>2, HalfWay
  <1>4. \/ Backfill!Become(s, left)
        \/ ~Backfill!Any(p.cursor, middle) /\ Backfill!Become(s, right)
    BY DEF Backfill!Refine, Backfill!Halved
  <1>. HIDE DEF middle
  <1>5. CASE Backfill!Become(s, left)
    <2>1. left \in ScanState
      BY <1>3 DEF ScanState
    <2>2. /\ left.stage = "refine" /\ left.low = p.low /\ left.high = middle
          /\ left.cursor = p.cursor /\ left.stable = p.stable
      BY <1>1 DEF ScanState
    <2>3. ScanOk(left)
      BY <1>1, <1>3, <2>2 DEF ScanOk
    <2>. QED
      BY <1>5, <2>1, <2>3
  <1>6. CASE ~Backfill!Any(p.cursor, middle) /\ Backfill!Become(s, right)
    <2>1. right \in ScanState
      BY <1>3 DEF ScanState
    <2>2. /\ right.stage = "refine" /\ right.low = middle + 1 /\ right.high = p.high
          /\ right.cursor = p.cursor /\ right.stable = p.stable
      BY <1>1 DEF ScanState
    <2>3. p.stable \subseteq data /\ \A d \in p.stable : p.low <= d
      BY <1>1 DEF ScanOk
    <2>4. p.cursor <= p.low
      BY <1>1 DEF ScanOk
    <2>5. \A d \in p.stable : d \in Int
      BY <1>2 DEF Backfill!Day
    <2>6. \A d \in p.stable : p.cursor <= d
      BY <1>2, <2>3, <2>4, <2>5
    <2>7. \A d \in p.stable : middle + 1 <= d
      BY <1>2, <1>3, <1>6, <2>3, <2>6, ProbeEmpty
    <2>8. p.cursor <= middle + 1 /\ middle + 1 <= p.high
      BY <1>2, <1>3, <2>4
    <2>9. ScanOk(right)
      BY <2>2, <2>3, <2>7, <2>8 DEF ScanOk
    <2>. QED
      BY <1>6, <2>1, <2>9
  <1>. QED
    BY <1>4, <1>5, <1>6

Started(q, a, b, S) ==
  [q EXCEPT !.stage = "coarse", !.from = a, !.to = b, !.cursor = a, !.stable = S]

LEMMA StartedFields ==
  ASSUME NEW q \in ScanState, NEW a \in Int, NEW b \in Int, NEW S \in SUBSET Backfill!Day
  PROVE  /\ Started(q, a, b, S) \in ScanState /\ Started(q, a, b, S).stage = "coarse"
         /\ Started(q, a, b, S).cursor = a /\ Started(q, a, b, S).to = b
         /\ Started(q, a, b, S).stable = S
  BY DEF Started, ScanState

LEMMA ScansOk ==
  ASSUME BackfillBounds, BackfillInv, NEW s \in Scanner,
         Backfill!BeginScan(s) \/ Backfill!Coarse(s) \/ Backfill!Refine(s)
         \/ Backfill!Confirm(s) \/ Backfill!GiveUp(s)
  PROVE  \E q \in ScanState : Backfill!Become(s, q) /\ ScanOk(q)
  <1>1. CASE Backfill!BeginScan(s)
    <2>1. PICK a \in Backfill!Day, b \in Backfill!Day :
            Backfill!Become(s, Started(Backfill!NoScan, a, b, data \cap a .. b))
      BY <1>1 DEF Backfill!BeginScan, Started
    <2>2. a \in Int /\ b \in Int /\ 1 <= a /\ b <= LastDay /\ LastDay \in Int
      BY <2>1 DEF Backfill!Day, BackfillBounds
    <2>3. PICK S \in SUBSET Backfill!Day : S = data \cap a .. b
      <3>1. ASSUME NEW d \in data \cap a .. b
            PROVE  d \in Backfill!Day
        BY <2>2 DEF Backfill!Day
      <3>. QED
        BY <3>1
    <2>4. S \subseteq data /\ \A d \in S : a <= d /\ d <= b
      BY <2>2, <2>3
    <2>. DEFINE q == Started(Backfill!NoScan, a, b, S)
    <2>5. q \in ScanState /\ q.stage = "coarse" /\ q.cursor = a /\ q.to = b /\ q.stable = S
      BY <2>2, NoScanOk, StartedFields
    <2>6. ScanOk(q)
      BY <2>4, <2>5 DEF ScanOk
    <2>7. Backfill!Become(s, q)
      BY <2>1, <2>3
    <2>. QED
      BY <2>5, <2>6, <2>7
  <1>2. CASE Backfill!Confirm(s)
    <2>. PICK p \in ScanState : p = scan[s]
      BY DEF BackfillInv, BackfillTypes
    <2>1. ScanOk(p) /\ p.stage = "refine"
      BY <1>2 DEF BackfillInv, Backfill!Confirm, Backfill!At
    <2>. DEFINE q == [p EXCEPT !.stage = "save"]
    <2>2. Backfill!Become(s, q) \/ Backfill!Become(s, Backfill!NoScan)
      BY <1>2 DEF Backfill!Confirm
    <2>3. q \in ScanState /\ q.stage = "save" /\ q.low = p.low /\ q.stable = p.stable
      BY DEF ScanState
    <2>4. ScanOk(q)
      BY <2>1, <2>3 DEF ScanOk
    <2>. QED
      BY <2>2, <2>3, <2>4, NoScanOk
  <1>3. CASE Backfill!GiveUp(s)
    BY <1>3, NoScanOk DEF Backfill!GiveUp
  <1>. QED
    BY <1>1, <1>2, <1>3, CoarseOk, RefineOk

LEMMA BackfillInit ==
  ASSUME BackfillBounds, Backfill!Init
  PROVE  BackfillInv
  <1>1. Backfill!NoScan \in ScanState /\ ScanOk(Backfill!NoScan)
    BY NoScanOk
  <1>2. scan \in [Scanner -> ScanState] /\ \A s \in Scanner : ScanOk(scan[s])
    BY <1>1 DEF Backfill!Init
  <1>3. point \in PointState /\ job \in JobState /\ JobOk
    BY DEF Backfill!Init, Backfill!NoPoint, Backfill!NoJob, PointState, JobState, JobOk,
       BackfillBounds
  <1>. QED
    BY <1>2, <1>3 DEF BackfillInv, BackfillTypes, Backfill!NothingSkipped, Backfill!Init

\* A start is saved that lies at or before what the scan had to find, and no job runs.
LEMMA SaveKeepsDays ==
  ASSUME BackfillBounds, BackfillInv, NEW s \in Scanner, Backfill!Save(s)
  PROVE  BackfillInv'
  <1>1. scan' \in [Scanner -> ScanState] /\ \A t \in Scanner : ScanOk(scan[t])'
    BY NoScanOk, ScanMoves DEF Backfill!Save
  <1>2. scan[s] \in ScanState /\ ScanOk(scan[s]) /\ scan[s].stage = "save"
    BY DEF BackfillInv, BackfillTypes, Backfill!Save, Backfill!At
  <1>3. point' = [there |-> TRUE, next |-> scan[s].low, floor |-> scan[s].low, begun |-> FALSE]
    BY DEF Backfill!Save, Backfill!Found
  <1>4. stable' = scan[s].stable /\ job' = job /\ job.stage # "running"
    BY DEF Backfill!Save, BackfillBounds
  <1>5. scan[s].low \in Int /\ \A d \in scan[s].stable : d \in Int /\ scan[s].low <= d
    BY <1>2 DEF ScanState, ScanOk, Backfill!Day
  <1>6. point' \in PointState /\ job' \in JobState /\ JobOk'
    BY <1>3, <1>4, <1>5 DEF PointState, JobOk, BackfillInv, BackfillTypes
  <1>7. Backfill!NothingSkipped'
    BY <1>3, <1>4, <1>5 DEF Backfill!NothingSkipped
  <1>8. stable' \subseteq Backfill!Day
    BY <1>2, <1>4 DEF ScanState
  <1>. QED
    BY <1>1, <1>6, <1>7, <1>8 DEF BackfillInv, BackfillTypes

Advanced(p, n) == [p EXCEPT !.there = TRUE, !.next = n, !.begun = TRUE]

LEMMA AdvancedFields ==
  ASSUME NEW p \in PointState, NEW n \in Int
  PROVE  Advanced(p, n) \in PointState /\ Advanced(p, n).next = n
         /\ Advanced(p, n).floor = p.floor
  BY DEF Advanced, PointState

\* The job that runs began at the checkpoint: what it did not fetch was fetched before.
LEMMA CommitKeepsDays ==
  ASSUME BackfillBounds, BackfillInv, Backfill!Commit
  PROVE  BackfillInv'
  <1>1. /\ job.start \in Int /\ job.end \in Int /\ point.next \in Int /\ point.floor \in Int
        /\ point \in PointState
    BY DEF BackfillInv, BackfillTypes, JobState, PointState
  <1>2. job.start <= job.end /\ job.start = point.next /\ point.floor <= point.next
    <2>1. JobOk /\ job.stage = "running"
      BY DEF BackfillInv, Backfill!Commit
    <2>. QED
      BY <2>1 DEF JobOk
  <1>3. point' = Advanced(point, job.end + 1)
    BY DEF Backfill!Commit, Advanced
  <1>4. point' \in PointState /\ point'.next = job.end + 1 /\ point'.floor = point.floor
    <2>1. PICK n \in Int : n = job.end + 1
      BY <1>1
    <2>. QED
      BY <1>1, <1>3, <2>1, AdvancedFields
  <1>5. fetched' = fetched \cup job.start .. job.end /\ job' = Backfill!NoJob
        /\ UNCHANGED <<data, scan, stable>>
    BY DEF Backfill!Commit
  <1>6. JobOk' /\ job' \in JobState
    BY <1>1, <1>2, <1>4, <1>5 DEF JobOk, Backfill!NoJob, JobState
  <1>7. Backfill!NothingSkipped'
    <2>. SUFFICES ASSUME Backfill!Plannable', NEW d \in stable, d < job.end + 1
                  PROVE  d \in fetched'
      BY <1>4, <1>5 DEF Backfill!NothingSkipped
    <2>1. Backfill!Plannable
      BY <1>2, <1>4 DEF Backfill!Plannable
    <2>2. d \in Int
      BY DEF BackfillInv, BackfillTypes, Backfill!Day
    <2>3. CASE d < point.next
      BY <1>5, <2>1, <2>3 DEF BackfillInv, Backfill!NothingSkipped
    <2>4. CASE ~(d < point.next)
      BY <1>1, <1>2, <1>5, <2>2, <2>4
    <2>. QED
      BY <2>3, <2>4
  <1>8. stable' \subseteq Backfill!Day /\ scan' \in [Scanner -> ScanState]
        /\ \A t \in Scanner : ScanOk(scan[t])'
    BY <1>5 DEF BackfillInv, BackfillTypes, ScanOk
  <1>. QED
    BY <1>4, <1>6, <1>7, <1>8 DEF BackfillInv, BackfillTypes

LEMMA BackfillStep ==
  ASSUME BackfillBounds, BackfillInv, [Backfill!Next]_Backfill!vars
  PROVE  BackfillInv'
  <1>1. ASSUME NEW s \in Scanner,
               Backfill!BeginScan(s) \/ Backfill!Coarse(s) \/ Backfill!Refine(s)
               \/ Backfill!Confirm(s) \/ Backfill!GiveUp(s)
        PROVE  BackfillInv'
    <2>1. UNCHANGED <<data, point, stable, job, fetched>>
      BY <1>1 DEF Backfill!BeginScan, Backfill!Coarse, Backfill!Refine, Backfill!Confirm,
         Backfill!GiveUp
    <2>2. scan' \in [Scanner -> ScanState] /\ \A t \in Scanner : ScanOk(scan[t])'
      BY <1>1, <2>1, ScansOk, ScanMoves
    <2>. QED
      BY <2>1, <2>2 DEF BackfillInv, BackfillTypes, JobOk, Backfill!NothingSkipped,
               Backfill!Plannable
  <1>2. ASSUME UNCHANGED <<data, scan, point, stable, fetched>>, job' \in JobState, JobOk'
        PROVE  BackfillInv'
    BY <1>2 DEF BackfillInv, BackfillTypes, Backfill!NothingSkipped, Backfill!Plannable, ScanOk
  <1>3. point.next \in Int /\ job \in JobState /\ JobOk
    BY DEF BackfillInv, BackfillTypes, PointState
  <1>4. CASE Backfill!Plan
    <2>1. job' = [stage |-> "queued", start |-> point.next,
                  end |-> Backfill!Least(point.next + JobDays - 1, LastDay)]
                  /\ point.next <= LastDay
      BY <1>4 DEF Backfill!Plan
    <2>2. /\ Backfill!Least(point.next + JobDays - 1, LastDay) \in Int
          /\ point.next <= Backfill!Least(point.next + JobDays - 1, LastDay)
      BY <1>3, <2>1 DEF Backfill!Least, BackfillBounds
    <2>3. job' \in JobState /\ JobOk'
      BY <1>3, <1>4, <2>1, <2>2 DEF JobState, JobOk, Backfill!Plan
    <2>. QED
      BY <1>2, <1>4, <2>3 DEF Backfill!Plan
  <1>5. CASE Backfill!Start
    <2>1. job' = [job EXCEPT !.stage = "running"] /\ job.start = point.next
          /\ job.stage = "queued"
      BY <1>5 DEF Backfill!Start, Backfill!StartsAt
    <2>2. job' \in JobState /\ job'.start = job.start /\ job'.end = job.end
      BY <1>3, <2>1 DEF JobState
    <2>3. JobOk'
      BY <1>3, <1>5, <2>1, <2>2 DEF JobOk, Backfill!Start
    <2>. QED
      BY <1>2, <1>5, <2>2, <2>3 DEF Backfill!Start
  <1>6. CASE Backfill!FailJob
    <2>1. job' \in JobState /\ JobOk'
      BY <1>3, <1>6 DEF Backfill!FailJob, Backfill!NoJob, JobState, JobOk
    <2>. QED
      BY <1>2, <1>6, <2>1 DEF Backfill!FailJob
  <1>7. ASSUME NEW d \in Backfill!Day, Backfill!Change(d)
        PROVE  BackfillInv'
    <2>1. /\ data' = IF d \in data THEN data \ {d} ELSE data \cup {d}
          /\ scan' = [s \in Scanner |-> [scan[s] EXCEPT !.stable = @ \ {d}]]
          /\ stable' = stable \ {d}
          /\ UNCHANGED <<point, job, fetched>>
      BY <1>7 DEF Backfill!Change
    <2>2. ASSUME NEW s \in Scanner
          PROVE  scan'[s] \in ScanState /\ ScanOk(scan[s])'
      <3>1. scan[s] \in ScanState /\ ScanOk(scan[s])
        BY DEF BackfillInv, BackfillTypes
      <3>2. scan'[s] = [scan[s] EXCEPT !.stable = @ \ {d}]
        BY <2>1
      <3>3. /\ scan'[s] \in ScanState
            /\ scan'[s].stable = scan[s].stable \ {d} /\ scan'[s].stage = scan[s].stage
            /\ scan'[s].low = scan[s].low /\ scan'[s].high = scan[s].high
            /\ scan'[s].cursor = scan[s].cursor /\ scan'[s].to = scan[s].to
        BY <3>1, <3>2 DEF ScanState
      <3>4. scan'[s].stable \subseteq data'
        BY <2>1, <3>1, <3>3 DEF ScanOk
      <3>. QED
        BY <3>1, <3>3, <3>4 DEF ScanOk
    <2>3. scan' \in [Scanner -> ScanState]
      BY <2>1, <2>2
    <2>4. Backfill!NothingSkipped'
      BY <2>1 DEF BackfillInv, Backfill!NothingSkipped, Backfill!Plannable
    <2>. QED
      BY <2>1, <2>2, <2>3, <2>4 DEF BackfillInv, BackfillTypes, JobOk
  <1>8. CASE UNCHANGED Backfill!vars
    BY <1>2, <1>3, <1>8 DEF Backfill!vars, JobOk
  <1>. QED
    BY <1>1, <1>4, <1>5, <1>6, <1>7, <1>8, SaveKeepsDays, CommitKeepsDays DEF Backfill!Next

BackfillFocus == focus = "backfill" => BackfillInv

LEMMA BackfillAlways == MCSpec => []BackfillFocus
  <1>1. BackfillBounds
    BY ScanAssumption DEF BackfillBounds
  <1>2. MCInit => BackfillFocus
    BY <1>1, BackfillInit DEF MCInit, BackfillFocus
  <1>3. ASSUME BackfillFocus, [MCNext]_MCvars
        PROVE  BackfillFocus'
    <2>. SUFFICES ASSUME focus = "backfill"
                  PROVE  BackfillInv'
      BY <1>3, FocusStays DEF BackfillFocus
    <2>1. CASE MCNext
      BY <1>1, <1>3, <2>1, BackfillStep DEF MCNext, BackfillFocus
    <2>2. CASE UNCHANGED MCvars
      <3>1. UNCHANGED Backfill!vars
        BY <2>2 DEF MCvars, OfBackfill, Backfill!vars
      <3>. QED
        BY <1>1, <1>3, <3>1, BackfillStep DEF BackfillFocus
    <2>. QED
      BY <1>3, <2>1, <2>2
  <1>. QED
    BY <1>2, <1>3, PTL DEF MCSpec

\* BackfillStart: a backfill whose start was found by a scan of changing data, and saved
\* while no job ran, never leaves a day behind that had data all along.
THEOREM NothingLeftBehind == MCSpec => []NothingSkipped
  <1>1. BackfillFocus => NothingSkipped
    BY DEF BackfillFocus, NothingSkipped, BackfillInv
  <1>. QED
    BY <1>1, BackfillAlways, PTL

\* The days the program holds are days there are: the checkpoint may be one behind the last.
DaysOf(q) ==
  /\ {q.from, q.to, q.cursor, q.low, q.high} \subseteq Backfill!Day
  /\ q.stable \subseteq q.from .. q.to
  /\ q.stage = "coarse" => q.from <= q.cursor /\ q.cursor <= q.to

BackfillDays ==
  /\ data \subseteq Backfill!Day /\ fetched \subseteq Backfill!Day
  /\ {point.next, point.floor} \subseteq 1 .. LastDay + 1
  /\ job.start \in Backfill!Day /\ job.end \in Backfill!Day
  /\ \A s \in Scanner : DaysOf(scan[s])

\* There is a day, and the configured start is one of them or follows the last.
Calendar == LastDay > 0 /\ Floor \in 1 .. LastDay + 1

LEMMA NoScanDays ==
  ASSUME BackfillBounds, Calendar
  PROVE  DaysOf(Backfill!NoScan)
  <1>1. 1 \in Backfill!Day
    BY DEF BackfillBounds, Calendar, Backfill!Day
  <1>. QED
    BY <1>1 DEF Backfill!NoScan, DaysOf

LEMMA BackfillDaysInit ==
  ASSUME BackfillBounds, Calendar, Backfill!Init
  PROVE  BackfillDays
  <1>1. 1 \in Backfill!Day
    BY DEF BackfillBounds, Calendar, Backfill!Day
  <1>2. \A s \in Scanner : DaysOf(scan[s])
    BY NoScanDays DEF Backfill!Init
  <1>. QED
    BY <1>1, <1>2 DEF Backfill!Init, Backfill!NoPoint, Backfill!NoJob, BackfillDays, Calendar

\* Each answer of the upstream leaves a scan within its range.
LEMMA ScanDaysOk ==
  ASSUME BackfillBounds, Calendar, BackfillInv, BackfillDays, NEW s \in Scanner,
         Backfill!BeginScan(s) \/ Backfill!Coarse(s) \/ Backfill!Refine(s)
         \/ Backfill!Confirm(s) \/ Backfill!GiveUp(s)
  PROVE  \E q \in ScanState : Backfill!Become(s, q) /\ DaysOf(q)
  <1>. PICK p \in ScanState : p = scan[s]
    BY DEF BackfillInv, BackfillTypes
  <1>1. DaysOf(p) /\ ScanOk(p)
    BY DEF BackfillInv, BackfillDays
  <1>2. /\ p.from \in Int /\ p.to \in Int /\ p.cursor \in Int /\ p.low \in Int /\ p.high \in Int
        /\ p.stable \in SUBSET Backfill!Day
    BY DEF ScanState
  <1>3. /\ \A d : d \in Backfill!Day <=> d \in Int /\ 1 <= d /\ d <= LastDay
        /\ LastDay \in Int /\ ScanDays \in Int /\ ScanDays >= 1
    BY DEF Backfill!Day, BackfillBounds
  <1>4. p.from \in Backfill!Day /\ p.to \in Backfill!Day /\ p.cursor \in Backfill!Day
        /\ p.low \in Backfill!Day /\ p.high \in Backfill!Day /\ p.stable \subseteq p.from .. p.to
    BY <1>1 DEF DaysOf
  <1>5. Backfill!NoScan \in ScanState /\ DaysOf(Backfill!NoScan)
    BY NoScanOk, NoScanDays
  <1>6. CASE Backfill!BeginScan(s)
    <2>1. PICK a \in Backfill!Day, b \in Backfill!Day :
            a <= b /\ Backfill!Become(s, Started(Backfill!NoScan, a, b, data \cap a .. b))
      BY <1>6 DEF Backfill!BeginScan, Started
    <2>2. a \in Int /\ b \in Int
      BY <1>3, <2>1
    <2>3. PICK S \in SUBSET Backfill!Day : S = data \cap a .. b
      BY DEF BackfillDays
    <2>. DEFINE q == Started(Backfill!NoScan, a, b, S)
    <2>4. /\ q \in ScanState /\ q.stage = "coarse" /\ q.cursor = a /\ q.to = b /\ q.stable = S
          /\ q.from = a /\ q.low = 1 /\ q.high = 1
      <3>1. q.from = a /\ q.low = 1 /\ q.high = 1
        BY DEF Started, Backfill!NoScan
      <3>. QED
        BY <1>5, <2>2, <3>1, StartedFields
    <2>5. 1 \in Backfill!Day
      BY <1>3, <2>1, <2>2
    <2>6. DaysOf(q)
      BY <2>1, <2>2, <2>3, <2>4, <2>5 DEF DaysOf
    <2>7. Backfill!Become(s, q)
      BY <2>1, <2>3
    <2>. QED
      BY <2>4, <2>6, <2>7
  <1>7. CASE Backfill!Coarse(s)
    <2>. DEFINE end == Backfill!Least(p.cursor + ScanDays - 1, p.to)
                next1 == [p EXCEPT !.stage = "refine", !.low = p.cursor, !.high = end]
                next2 == [p EXCEPT !.cursor = end + 1]
    <2>1. p.stage = "coarse" /\ p.from <= p.cursor /\ p.cursor <= p.to
      BY <1>1, <1>7 DEF Backfill!Coarse, Backfill!At, DaysOf
    <2>2. end \in Int /\ p.cursor <= end /\ end <= p.to /\ end \in Backfill!Day
      BY <1>2, <1>3, <1>4, <2>1 DEF Backfill!Least
    <2>3. \/ Backfill!Become(s, next1)
          \/ end < p.to /\ Backfill!Become(s, next2)
          \/ Backfill!Become(s, Backfill!NoScan)
      BY <1>7 DEF Backfill!Coarse, Backfill!CoarseEnd
    <2>. HIDE DEF end
    <2>4. /\ next1 \in ScanState /\ next1.stage = "refine" /\ next1.low = p.cursor
          /\ next1.high = end /\ next1.cursor = p.cursor /\ next1.stable = p.stable
          /\ next1.from = p.from /\ next1.to = p.to
      BY <2>2 DEF ScanState
    <2>5. /\ next2 \in ScanState /\ next2.stage = p.stage /\ next2.low = p.low
          /\ next2.high = p.high /\ next2.cursor = end + 1 /\ next2.stable = p.stable
          /\ next2.from = p.from /\ next2.to = p.to
      BY <2>2 DEF ScanState
    <2>6. DaysOf(next1)
      BY <1>4, <2>2, <2>4 DEF DaysOf
    <2>7. ASSUME end < p.to
          PROVE  DaysOf(next2)
      <3>1. end + 1 \in Backfill!Day /\ p.from <= end + 1 /\ end + 1 <= p.to
        BY <1>2, <1>3, <1>4, <2>1, <2>2, <2>7
      <3>. QED
        BY <1>4, <2>5, <3>1 DEF DaysOf
    <2>. QED
      BY <1>5, <2>3, <2>4, <2>5, <2>6, <2>7
  <1>8. CASE Backfill!Refine(s)
    <2>. DEFINE middle == p.low + (p.high - p.low) \div 2
                left == [p EXCEPT !.high = middle]
                right == [p EXCEPT !.low = middle + 1]
    <2>1. p.stage = "refine" /\ p.low < p.high
      BY <1>8 DEF Backfill!Refine, Backfill!At
    <2>2. middle \in Int /\ p.low <= middle /\ middle < p.high
      BY <1>2, <2>1, HalfWay
    <2>3. Backfill!Become(s, left) \/ Backfill!Become(s, right)
      BY <1>8 DEF Backfill!Refine, Backfill!Halved
    <2>. HIDE DEF middle
    <2>4. middle \in Backfill!Day /\ middle + 1 \in Backfill!Day
      BY <1>2, <1>3, <1>4, <2>2
    <2>5. /\ left \in ScanState /\ left.stage = "refine" /\ left.low = p.low
          /\ left.high = middle /\ left.cursor = p.cursor /\ left.stable = p.stable
          /\ left.from = p.from /\ left.to = p.to
      BY <2>1, <2>2 DEF ScanState
    <2>6. /\ right \in ScanState /\ right.stage = "refine" /\ right.low = middle + 1
          /\ right.high = p.high /\ right.cursor = p.cursor /\ right.stable = p.stable
          /\ right.from = p.from /\ right.to = p.to
      BY <2>1, <2>2 DEF ScanState
    <2>7. DaysOf(left) /\ DaysOf(right)
      BY <1>4, <2>4, <2>5, <2>6 DEF DaysOf
    <2>. QED
      BY <2>3, <2>5, <2>6, <2>7
  <1>9. CASE Backfill!Confirm(s)
    <2>. DEFINE q == [p EXCEPT !.stage = "save"]
    <2>1. Backfill!Become(s, q) \/ Backfill!Become(s, Backfill!NoScan)
      BY <1>9 DEF Backfill!Confirm
    <2>2. /\ q \in ScanState /\ q.stage = "save" /\ q.low = p.low /\ q.high = p.high
          /\ q.cursor = p.cursor /\ q.stable = p.stable /\ q.from = p.from /\ q.to = p.to
      BY DEF ScanState
    <2>3. DaysOf(q)
      BY <1>4, <2>2 DEF DaysOf
    <2>. QED
      BY <1>5, <2>1, <2>2, <2>3
  <1>10. CASE Backfill!GiveUp(s)
    BY <1>5, <1>10 DEF Backfill!GiveUp
  <1>. QED
    BY <1>6, <1>7, <1>8, <1>9, <1>10

LEMMA DaysMove ==
  ASSUME BackfillTypes, BackfillDays, NEW s \in Scanner, NEW q, Backfill!Become(s, q), DaysOf(q)
  PROVE  \A t \in Scanner : DaysOf(scan[t])'
  <1>. TAKE t \in Scanner
  <1>1. scan' = [scan EXCEPT ![s] = q] /\ scan \in [Scanner -> ScanState]
    BY DEF Backfill!Become, BackfillTypes
  <1>2. scan'[t] = q \/ scan'[t] = scan[t]
    BY <1>1
  <1>3. DaysOf(scan[t])
    BY DEF BackfillDays
  <1>. QED
    BY <1>2, <1>3 DEF DaysOf

LEMMA BackfillDaysStep ==
  ASSUME BackfillBounds, Calendar, BackfillInv, BackfillDays, [Backfill!Next]_Backfill!vars
  PROVE  BackfillDays'
  <1>1. /\ \A d : d \in Backfill!Day <=> d \in Int /\ 1 <= d /\ d <= LastDay
        /\ LastDay \in Int /\ LastDay >= 1 /\ JobDays \in Int /\ JobDays >= 1
    BY DEF Backfill!Day, BackfillBounds, Calendar
  <1>2. /\ point.next \in 1 .. LastDay + 1 /\ point.floor \in 1 .. LastDay + 1
        /\ job.start \in Backfill!Day /\ job.end \in Backfill!Day
        /\ data \subseteq Backfill!Day /\ fetched \subseteq Backfill!Day
        /\ \A s \in Scanner : DaysOf(scan[s])
    BY DEF BackfillDays
  <1>3. BackfillTypes /\ 1 \in Backfill!Day
    BY <1>1 DEF BackfillInv
  <1>4. ASSUME NEW s \in Scanner,
               Backfill!BeginScan(s) \/ Backfill!Coarse(s) \/ Backfill!Refine(s)
               \/ Backfill!Confirm(s) \/ Backfill!GiveUp(s)
        PROVE  BackfillDays'
    <2>1. UNCHANGED <<data, point, stable, job, fetched>>
      BY <1>4 DEF Backfill!BeginScan, Backfill!Coarse, Backfill!Refine, Backfill!Confirm,
         Backfill!GiveUp
    <2>2. \A t \in Scanner : DaysOf(scan[t])'
      BY <1>3, <1>4, ScanDaysOk, DaysMove
    <2>. QED
      BY <1>2, <2>1, <2>2 DEF BackfillDays
  <1>5. ASSUME NEW s \in Scanner, Backfill!Save(s)
        PROVE  BackfillDays'
    <2>1. \A t \in Scanner : DaysOf(scan[t])'
      BY <1>3, <1>5, NoScanDays, DaysMove DEF Backfill!Save
    <2>2. point' = [there |-> TRUE, next |-> scan[s].low, floor |-> scan[s].low, begun |-> FALSE]
          /\ UNCHANGED <<data, job, fetched>>
      BY <1>5 DEF Backfill!Save, Backfill!Found
    <2>3. scan[s].low \in 1 .. LastDay + 1
      BY <1>1, <1>2 DEF DaysOf
    <2>. QED
      BY <1>2, <2>1, <2>2, <2>3 DEF BackfillDays
  <1>6. CASE Backfill!Plan
    <2>1. job' = [stage |-> "queued", start |-> point.next,
                  end |-> Backfill!Least(point.next + JobDays - 1, LastDay)]
          /\ point.next <= LastDay /\ UNCHANGED <<data, scan, point, fetched>>
      BY <1>6 DEF Backfill!Plan
    <2>2. point.next \in Backfill!Day
          /\ Backfill!Least(point.next + JobDays - 1, LastDay) \in Backfill!Day
      BY <1>1, <1>2, <2>1 DEF Backfill!Least
    <2>. QED
      BY <1>2, <2>1, <2>2 DEF BackfillDays
  <1>7. CASE Backfill!Start
    <2>1. job' = [job EXCEPT !.stage = "running"] /\ UNCHANGED <<data, scan, point, fetched>>
      BY <1>7 DEF Backfill!Start
    <2>2. job'.start = job.start /\ job'.end = job.end
      BY <1>3, <2>1 DEF BackfillTypes, JobState
    <2>. QED
      BY <1>2, <2>1, <2>2 DEF BackfillDays
  <1>8. CASE Backfill!Commit
    <2>1. /\ fetched' = fetched \cup job.start .. job.end /\ job' = Backfill!NoJob
          /\ point' = Advanced(point, job.end + 1) /\ UNCHANGED <<data, scan>>
      BY <1>8 DEF Backfill!Commit, Advanced
    <2>2. PICK n \in Int : n = job.end + 1
      BY <1>1, <1>2
    <2>3. point'.next = job.end + 1 /\ point'.floor = point.floor
      BY <1>3, <2>1, <2>2, AdvancedFields DEF BackfillTypes
    <2>4. job.end + 1 \in 1 .. LastDay + 1 /\ job.start .. job.end \subseteq Backfill!Day
      BY <1>1, <1>2
    <2>. QED
      BY <1>2, <1>3, <2>1, <2>3, <2>4 DEF BackfillDays, Backfill!NoJob
  <1>9. CASE Backfill!FailJob
    BY <1>2, <1>3, <1>9 DEF Backfill!FailJob, Backfill!NoJob, BackfillDays
  <1>10. ASSUME NEW d \in Backfill!Day, Backfill!Change(d)
         PROVE  BackfillDays'
    <2>1. /\ data' = IF d \in data THEN data \ {d} ELSE data \cup {d}
          /\ scan' = [s \in Scanner |-> [scan[s] EXCEPT !.stable = @ \ {d}]]
          /\ UNCHANGED <<point, job, fetched>>
      BY <1>10 DEF Backfill!Change
    <2>2. ASSUME NEW s \in Scanner
          PROVE  DaysOf(scan[s])'
      <3>1. scan[s] \in ScanState /\ DaysOf(scan[s])
        BY <1>2, <1>3 DEF BackfillTypes
      <3>2. scan'[s] = [scan[s] EXCEPT !.stable = @ \ {d}]
        BY <2>1
      <3>3. /\ scan'[s].stable = scan[s].stable \ {d} /\ scan'[s].stage = scan[s].stage
            /\ scan'[s].low = scan[s].low /\ scan'[s].high = scan[s].high
            /\ scan'[s].cursor = scan[s].cursor /\ scan'[s].to = scan[s].to
            /\ scan'[s].from = scan[s].from
        BY <3>1, <3>2 DEF ScanState
      <3>. QED
        BY <3>1, <3>3 DEF DaysOf
    <2>3. data' \subseteq Backfill!Day
      BY <1>2, <2>1
    <2>. QED
      BY <1>2, <2>1, <2>2, <2>3 DEF BackfillDays
  <1>11. CASE UNCHANGED Backfill!vars
    BY <1>11 DEF Backfill!vars, BackfillDays, DaysOf
  <1>. QED
    BY <1>4, <1>5, <1>6, <1>7, <1>8, <1>9, <1>10, <1>11 DEF Backfill!Next

LEMMA BackfillTyped ==
  ASSUME BackfillInv, BackfillDays
  PROVE  Backfill!TypeOK
  BY DEF BackfillInv, BackfillTypes, BackfillDays, DaysOf, Backfill!TypeOK

CalendarFocus == focus = "backfill" => BackfillInv /\ BackfillDays

LEMMA CalendarAlways ==
  ASSUME Calendar
  PROVE  MCSpec => []CalendarFocus
  <1>1. BackfillBounds
    BY ScanAssumption DEF BackfillBounds
  <1>2. MCInit => CalendarFocus
    BY <1>1, BackfillInit, BackfillDaysInit DEF MCInit, CalendarFocus
  <1>3. ASSUME CalendarFocus, [MCNext]_MCvars
        PROVE  CalendarFocus'
    <2>. SUFFICES ASSUME focus = "backfill"
                  PROVE  BackfillInv' /\ BackfillDays'
      BY <1>3, FocusStays DEF CalendarFocus
    <2>1. CASE MCNext
      BY <1>1, <1>3, <2>1, BackfillStep, BackfillDaysStep DEF MCNext, CalendarFocus
    <2>2. CASE UNCHANGED MCvars
      <3>1. UNCHANGED Backfill!vars
        BY <2>2 DEF MCvars, OfBackfill, Backfill!vars
      <3>. QED
        BY <1>1, <1>3, <3>1, BackfillStep, BackfillDaysStep DEF CalendarFocus
    <2>. QED
      BY <1>3, <2>1, <2>2
  <1>. QED
    BY <1>2, <1>3, PTL DEF MCSpec

-----------------------------------------------------------------------------
(* LegacyAttribution.                                                       *)

AttributionBounds ==
  /\ Move!Free \notin Actor
  /\ b2 \notin Batch /\ Move!NoBatch \notin Batch /\ b2 # Move!NoBatch

Account == {Move!Legacy, Move!Target}
AnyBatch == Batch \cup {b2}
RowOf == [account : Account, version : Version, batch : AnyBatch]
ChildOf == [table : {"log", "failed"}, account : Account, api : {Move!Api, Move!OtherApi},
           batch : AnyBatch]
HeaderOf == [account : Account, ended : BOOLEAN, apis : 0 .. 2, job : BOOLEAN]
TablesOf == [head : [AnyBatch -> HeaderOf], raw : SUBSET RowOf, history : SUBSET RowOf,
             child : SUBSET ChildOf, point : [Account -> AnyBatch \cup {Move!NoBatch}]]

Stages == {"start", "locked", "planned", "applied", "release", "close", "done"}
AnswerOf == [status : {"none", "blocked", "planned", "success", "error"},
             code : {"none", "LOCK_BUSY", "PLAN_READY", "APPLIED", "COMMIT_FAILED", "BLOCKED",
                     "RUNTIME_FAILED", "ROLLBACK_FAILED", "LOCK_RELEASE_FAILED",
                     "CONNECTION_CLOSE_FAILED"},
             restore : BOOLEAN]

AttributionTypes ==
  /\ db \in TablesOf
  /\ pc \in [Actor -> Stages]
  /\ seen \in [Actor -> TablesOf]
  /\ answer \in [Actor -> AnswerOf]
  /\ moved \subseteq Actor

\* What belongs to the sync's batch is the target account's.
NewRows(d) ==
  /\ \A x \in d.raw \cup d.history \cup d.child : x.batch = b2 => x.account = Move!Target
  /\ d.point[Move!Legacy] # b2
  /\ d.head[b2] = Move!Absent \/ d.head[b2].account = Move!Target

\* From the lock to its release a run holds it.
HoldsLock ==
  \A r \in Actor : pc[r] \in {"locked", "planned", "applied", "release"} => lock = r

\* Nobody but the run itself has changed what its plan found of account 0, and history
\* only grows.
SameLegacy(d, p) ==
  /\ Move!Mine(d.raw) = Move!Mine(p.raw) /\ Move!Mine(d.history) = Move!Mine(p.history)
  /\ Move!Mine(d.child) = Move!Mine(p.child) /\ d.point[Move!Legacy] = p.point[Move!Legacy]
  /\ p.history \subseteq d.history

PlansHold ==
  \A r \in Actor : pc[r] \in {"planned", "applied"} =>
    SameLegacy(db, seen[r])
    /\ \A b \in Move!Candidates(seen[r]) : Move!Whole(seen[r], b, Move!Legacy)

\* What a run has done and said so far.
Told(r) ==
  /\ pc[r] \in {"start", "locked", "planned", "applied"} => r \notin moved
  /\ pc[r] \in {"release", "close", "done"} =>
       /\ answer[r].status = "success" => r \in moved
       /\ r \in moved /\ answer[r].status # "none" =>
            \/ answer[r].status = "success" \/ answer[r].restore
            \/ answer[r].code \in {"LOCK_RELEASE_FAILED", "CONNECTION_CLOSE_FAILED"}

AttributionInv ==
  /\ AttributionTypes /\ NewRows(db) /\ HoldsLock /\ PlansHold
  /\ Move!BatchesAgree /\ Move!SnapshotsHaveHistory /\ Move!AllOrNothing
  /\ \A r \in Actor : Told(r)

-----------------------------------------------------------------------------

Agree(d) ==
  /\ \A x \in d.raw \cup d.history \cup d.child : d.head[x.batch].account = x.account
  /\ \A a \in DOMAIN d.point : d.point[a] # Move!NoBatch => d.head[d.point[a]].account = a

Versioned(d) == \A x \in d.raw : x.account = Move!Target => Move!Stores(d.history, x)

Clean(d) == Move!Remaining(d) = {} /\ d.point[Move!Legacy] = Move!NoBatch

LEMMA TablesFacts ==
  ASSUME NEW d \in TablesOf
  PROVE  /\ d.head \in [AnyBatch -> HeaderOf] /\ d.raw \in SUBSET RowOf
         /\ d.history \in SUBSET RowOf /\ d.child \in SUBSET ChildOf
         /\ d.point \in [Account -> AnyBatch \cup {Move!NoBatch}]
  BY DEF TablesOf

LEMMA Accounts ==
  /\ Move!Legacy # Move!Target /\ Move!Legacy \in Account /\ Move!Target \in Account
  /\ \A a \in Account : a = Move!Legacy \/ a = Move!Target
  BY DEF Move!Legacy, Move!Target, Account

LEMMA OursRow ==
  ASSUME NEW x \in RowOf
  PROVE  Move!Ours(x) \in RowOf /\ Move!Ours(x).account = Move!Target
         /\ Move!Ours(x).version = x.version /\ Move!Ours(x).batch = x.batch
  BY DEF Move!Ours, RowOf, Account

LEMMA OursChild ==
  ASSUME NEW x \in ChildOf
  PROVE  /\ Move!Ours(x) \in ChildOf /\ Move!Ours(x).account = Move!Target
              /\ Move!Ours(x).api = x.api
         /\ Move!Ours(x).batch = x.batch
  BY DEF Move!Ours, ChildOf, Account

LEMMA OursHeader ==
  ASSUME NEW x \in HeaderOf
  PROVE  Move!Ours(x) \in HeaderOf /\ Move!Ours(x).account = Move!Target
  BY DEF Move!Ours, HeaderOf, Account

LEMMA RowFields ==
  ASSUME NEW x \in RowOf
  PROVE  x.account \in Account /\ x.batch \in AnyBatch
  BY DEF RowOf

LEMMA ChildFields ==
  ASSUME NEW x \in ChildOf
  PROVE  x.account \in Account /\ x.batch \in AnyBatch /\ x.api \in {Move!Api, Move!OtherApi}
  BY DEF ChildOf

\* A moved table: all rows are the target's, and each comes from a row with its version and
\* its batch.
LEMMA MovedRows ==
  ASSUME NEW rows \in SUBSET RowOf
  PROVE  /\ Move!Moved(rows) \in SUBSET RowOf
         /\ \A y \in Move!Moved(rows) :
              /\ y.account = Move!Target
              /\ \/ y \in rows
                 \/ \E x \in Move!Mine(rows) : x.batch = y.batch /\ y = Move!Ours(x)
         /\ \A x \in rows :
              \E y \in Move!Moved(rows) : y.account = Move!Target /\ y.version = x.version
  <1>1. ASSUME NEW x \in rows
        PROVE  LET y == IF x.account = Move!Legacy THEN Move!Ours(x) ELSE x IN
               /\ y \in RowOf /\ y.account = Move!Target /\ y.version = x.version
               /\ \/ y \in rows
                  \/ x \in Move!Mine(rows) /\ x.batch = y.batch /\ y = Move!Ours(x)
    <2>1. x \in RowOf
      OBVIOUS
    <2>2. CASE x.account = Move!Legacy
      BY <2>1, <2>2, OursRow DEF Move!Mine
    <2>3. CASE x.account # Move!Legacy
      BY <2>1, <2>3, RowFields, Accounts
    <2>. QED
      BY <2>2, <2>3
  <1>. QED
    BY <1>1 DEF Move!Moved

\* What a plan that still holds says of the batches.
LEMMA CandidateFacts ==
  ASSUME AttributionBounds, NEW d \in TablesOf, NEW p \in TablesOf, NewRows(d), SameLegacy(d, p)
  PROVE  /\ \A x \in Move!Mine(d.raw) \cup Move!Mine(d.history) \cup Move!MyChildren(d) :
              x.batch \in Move!Candidates(p)
         /\ d.point[Move!Legacy] # Move!NoBatch => d.point[Move!Legacy] \in Move!Candidates(p)
         /\ b2 \notin Move!Candidates(p)
  <1>1. /\ Move!Mine(d.raw) = Move!Mine(p.raw) /\ Move!Mine(d.history) = Move!Mine(p.history)
        /\ Move!Mine(d.child) = Move!Mine(p.child) /\ d.point[Move!Legacy] = p.point[Move!Legacy]
    BY DEF SameLegacy
  <1>2. Move!MyChildren(d) = Move!MyChildren(p) /\ Move!MyChildren(d) \subseteq Move!Mine(d.child)
    BY <1>1 DEF Move!MyChildren
  <1>3. ASSUME NEW x \in Move!Mine(d.raw) \cup Move!Mine(d.history) \cup Move!MyChildren(d)
        PROVE  x.batch # Move!NoBatch /\ x.batch # b2
    <2>1. x \in d.raw \cup d.history \cup d.child /\ x.account = Move!Legacy
      BY <1>2 DEF Move!Mine
    <2>2. x.batch \in AnyBatch
      BY <2>1, TablesFacts, RowFields, ChildFields
    <2>3. x.batch # b2
      BY <2>1, Accounts DEF NewRows
    <2>. QED
      BY <2>2, <2>3 DEF AttributionBounds, AnyBatch
  <1>4. d.point[Move!Legacy] # b2
    BY DEF NewRows
  <1>. QED
    BY <1>1, <1>2, <1>3, <1>4 DEF Move!Candidates

\* Headers after the move.
LEMMA HeadAfter ==
  ASSUME AttributionBounds, NEW d \in TablesOf, NEW p \in TablesOf
  PROVE  /\ Move!After(d, p).head \in [AnyBatch -> HeaderOf]
         /\ \A b \in AnyBatch :
              /\ b \in Move!Candidates(p) => Move!After(d, p).head[b].account = Move!Target
              /\ b \notin Move!Candidates(p) => Move!After(d, p).head[b] = d.head[b]
              /\ d.head[b].account = Move!Target => Move!After(d, p).head[b].account = Move!Target
  <1>. DEFINE h == [b \in DOMAIN d.head |->
                      IF b \in Move!Candidates(p) /\ d.head[b].account = Move!Legacy
                      THEN Move!Ours(d.head[b]) ELSE d.head[b]]
  <1>1. Move!After(d, p).head = h
    BY DEF Move!After
  <1>2. d.head \in [AnyBatch -> HeaderOf]
    BY TablesFacts
  <1>3. h = [b \in AnyBatch |-> IF b \in Move!Candidates(p) /\ d.head[b].account = Move!Legacy
                                THEN Move!Ours(d.head[b]) ELSE d.head[b]]
    BY <1>2
  <1>. HIDE DEF h
  <1>4. ASSUME NEW b \in AnyBatch
        PROVE  /\ h[b] \in HeaderOf
               /\ b \in Move!Candidates(p) => h[b].account = Move!Target
               /\ b \notin Move!Candidates(p) => h[b] = d.head[b]
               /\ d.head[b].account = Move!Target => h[b].account = Move!Target
    <2>1. d.head[b] \in HeaderOf /\ d.head[b].account \in Account
      BY <1>2 DEF HeaderOf
    <2>2. h[b] = IF b \in Move!Candidates(p) /\ d.head[b].account = Move!Legacy
                 THEN Move!Ours(d.head[b]) ELSE d.head[b]
      BY <1>3
    <2>. QED
      BY <2>1, <2>2, OursHeader, Accounts
  <1>5. h \in [AnyBatch -> HeaderOf]
    BY <1>3, <1>4
  <1>. QED
    BY <1>1, <1>4, <1>5

\* History after the move: the moved one and the seeded versions.
LEMMA HistoryAfter ==
  ASSUME NEW d \in TablesOf, NEW p \in TablesOf
  PROVE  /\ Move!After(d, p).history \in SUBSET RowOf
         /\ \A y \in Move!After(d, p).history :
              \/ y \in Move!Moved(d.history)
              \/ \E x \in Move!Mine(d.raw) : y = Move!Ours(x)
         /\ Move!Moved(d.history) \subseteq Move!After(d, p).history
         /\ \A x \in Move!Baseline(p) \cap Move!Mine(d.raw) :
              Move!Stores(Move!After(d, p).history, Move!Ours(x))
  <1>. DEFINE h == Move!Moved(d.history)
              seeded == {Move!Ours(x) : x \in Move!Baseline(p) \cap Move!Mine(d.raw)}
  <1>1. Move!After(d, p).history = h \cup {x \in seeded : ~Move!Stores(h, x)}
    BY DEF Move!After
  <1>2. h \in SUBSET RowOf
    BY TablesFacts, MovedRows
  <1>3. ASSUME NEW x \in Move!Mine(d.raw)
        PROVE  Move!Ours(x) \in RowOf
    BY TablesFacts, OursRow DEF Move!Mine
  <1>4. ASSUME NEW x \in Move!Baseline(p) \cap Move!Mine(d.raw)
        PROVE  Move!Stores(Move!After(d, p).history, Move!Ours(x))
    <2>1. CASE Move!Stores(h, Move!Ours(x))
      BY <1>1, <2>1 DEF Move!Stores
    <2>2. CASE ~Move!Stores(h, Move!Ours(x))
      <3>1. Move!Ours(x) \in Move!After(d, p).history
        BY <1>1, <2>2
      <3>. QED
        BY <3>1 DEF Move!Stores
    <2>. QED
      BY <2>1, <2>2
  <1>5. seeded \subseteq RowOf
    BY <1>3
  <1>. QED
    BY <1>1, <1>2, <1>4, <1>5

\* The move of all rows that a plan found leaves whole tables, and none of account 0.
LEMMA AfterOk ==
  ASSUME AttributionBounds, NEW d \in TablesOf, NEW p \in TablesOf, NewRows(d), Agree(d),
         Versioned(d), SameLegacy(d, p),
         \A b \in Move!Candidates(p) : Move!Whole(p, b, Move!Legacy)
  PROVE  /\ Move!After(d, p) \in TablesOf /\ NewRows(Move!After(d, p)) /\ Agree(Move!After(d, p))
         /\ Versioned(Move!After(d, p)) /\ Clean(Move!After(d, p))
  <1>. DEFINE e == Move!After(d, p)
              kept == d.child \ Move!MyChildren(d)
              given == {Move!Ours(c) : c \in Move!MyChildren(d)}
  <1>1. /\ e.raw = Move!Moved(d.raw) /\ e.child = kept \cup given
        /\ e.point = IF d.point[Move!Legacy] = Move!NoBatch THEN d.point
                     ELSE [a \in DOMAIN d.point |->
                             IF a = Move!Target THEN d.point[Move!Legacy] ELSE Move!NoBatch]
        /\ e = [head |-> e.head, raw |-> e.raw, history |-> e.history, child |-> e.child,
                point |-> e.point]
    BY DEF Move!After
  <1>2. /\ e.head \in [AnyBatch -> HeaderOf]
        /\ \A b \in AnyBatch :
             /\ b \in Move!Candidates(p) => e.head[b].account = Move!Target
             /\ b \notin Move!Candidates(p) => e.head[b] = d.head[b]
             /\ d.head[b].account = Move!Target => e.head[b].account = Move!Target
    BY HeadAfter
  <1>3. /\ e.history \in SUBSET RowOf
        /\ \A y \in e.history :
             y \in Move!Moved(d.history) \/ \E x \in Move!Mine(d.raw) : y = Move!Ours(x)
        /\ Move!Moved(d.history) \subseteq e.history
        /\ \A x \in Move!Baseline(p) \cap Move!Mine(d.raw) : Move!Stores(e.history, Move!Ours(x))
    BY HistoryAfter
  <1>. HIDE DEF e
  <1>4. /\ d.raw \in SUBSET RowOf /\ d.history \in SUBSET RowOf /\ d.child \in SUBSET ChildOf
        /\ d.point \in [Account -> AnyBatch \cup {Move!NoBatch}]
    BY TablesFacts
  <1>5. /\ \A x \in Move!Mine(d.raw) \cup Move!Mine(d.history) \cup Move!MyChildren(d) :
             x.batch \in Move!Candidates(p)
        /\ d.point[Move!Legacy] # Move!NoBatch => d.point[Move!Legacy] \in Move!Candidates(p)
        /\ b2 \notin Move!Candidates(p)
    BY CandidateFacts
  <1>6. /\ e.point \in [Account -> AnyBatch \cup {Move!NoBatch}]
             /\ e.point[Move!Legacy] = Move!NoBatch
        /\ e.point[Move!Target] =
             IF d.point[Move!Legacy] = Move!NoBatch THEN d.point[Move!Target]
             ELSE d.point[Move!Legacy]
    BY <1>1, <1>4, Accounts
  \* Rows.
  <1>7. ASSUME NEW y \in e.raw \cup e.history
        PROVE  y \in RowOf /\ y.account = Move!Target /\ e.head[y.batch].account = Move!Target
    <2>1. ASSUME NEW x \in Move!Mine(d.raw) \cup Move!Mine(d.history), y = Move!Ours(x)
          PROVE  y \in RowOf /\ y.account = Move!Target /\ e.head[y.batch].account = Move!Target
      <3>1. x \in RowOf
        BY <1>4 DEF Move!Mine
      <3>2. x.batch \in Move!Candidates(p) /\ x.batch \in AnyBatch
        BY <1>5, <3>1, RowFields
      <3>. QED
        BY <1>2, <2>1, <3>1, <3>2, OursRow
    <2>2. ASSUME y \in d.raw \cup d.history, y.account = Move!Target
          PROVE  y \in RowOf /\ y.account = Move!Target /\ e.head[y.batch].account = Move!Target
      <3>1. y \in RowOf /\ y.batch \in AnyBatch
        BY <1>4, <2>2, RowFields
      <3>2. d.head[y.batch].account = Move!Target
        BY <2>2 DEF Agree
      <3>. QED
        BY <1>2, <2>2, <3>1, <3>2
    <2>3. ASSUME NEW rows \in SUBSET RowOf, rows = d.raw \/ rows = d.history,
                 y \in Move!Moved(rows)
          PROVE  y \in RowOf /\ y.account = Move!Target /\ e.head[y.batch].account = Move!Target
      <3>1. /\ y.account = Move!Target
            /\ \/ y \in rows
               \/ \E x \in Move!Mine(rows) : x.batch = y.batch /\ y = Move!Ours(x)
        BY <2>3, MovedRows
      <3>. QED
        BY <2>1, <2>2, <2>3, <3>1
    <2>. QED
      BY <1>1, <1>3, <1>4, <2>1, <2>3
  \* Logs and failed requests.
  <1>8. ASSUME NEW c \in e.child
        PROVE  /\ c \in ChildOf /\ e.head[c.batch].account = c.account
               /\ c.account = Move!Legacy => c.api # Move!Api
               /\ c.batch = b2 => c.account = Move!Target
    <2>1. CASE c \in kept
      <3>1. c \in d.child /\ c \in ChildOf /\ c.account \in Account /\ c.batch \in AnyBatch
        BY <1>4, <2>1, ChildFields
      <3>2. d.head[c.batch].account = c.account
        BY <3>1 DEF Agree
      <3>3. CASE c.account = Move!Target
        BY <1>2, <3>1, <3>2, <3>3, Accounts
      <3>4. CASE c.account = Move!Legacy
        <4>1. c \in Move!Mine(d.child) /\ c.api # Move!Api
          BY <2>1, <3>1, <3>4 DEF Move!MyChildren, Move!Mine
        <4>2. c \in p.child
          BY <4>1 DEF SameLegacy, Move!Mine
        <4>3. c.batch \notin Move!Candidates(p)
          BY <4>1, <4>2 DEF Move!Whole
        <4>. QED
          BY <1>2, <3>1, <3>2, <3>4, <4>1, <4>3, Accounts DEF NewRows
      <3>. QED
        BY <3>1, <3>3, <3>4, Accounts
    <2>2. CASE c \in given
      <3>1. PICK x \in Move!MyChildren(d) : c = Move!Ours(x)
        BY <2>2
      <3>2. x \in ChildOf /\ x.batch \in AnyBatch /\ x.batch \in Move!Candidates(p)
        BY <1>4, <1>5, ChildFields DEF Move!MyChildren, Move!Mine
      <3>. QED
        BY <1>2, <3>1, <3>2, OursChild, Accounts
    <2>. QED
      BY <1>1, <2>1, <2>2
  <1>9. Agree(e)
    <2>1. ASSUME NEW a \in Account, e.point[a] # Move!NoBatch
          PROVE  e.head[e.point[a]].account = a
      <3>1. a = Move!Target
        BY <1>6, <2>1, Accounts
      <3>2. CASE d.point[Move!Legacy] = Move!NoBatch
        <4>1. e.point[Move!Target] = d.point[Move!Target] /\ d.point[Move!Target] \in AnyBatch
          BY <1>4, <1>6, <2>1, <3>1, <3>2, Accounts
        <4>2. d.head[d.point[Move!Target]].account = Move!Target
          BY <1>4, <2>1, <3>1, <4>1, Accounts DEF Agree
        <4>. QED
          BY <1>2, <3>1, <4>1, <4>2
      <3>3. CASE d.point[Move!Legacy] # Move!NoBatch
        <4>1. e.point[Move!Target] = d.point[Move!Legacy] /\ d.point[Move!Legacy] \in AnyBatch
          BY <1>4, <1>6, <3>3, Accounts
        <4>. QED
          BY <1>2, <1>5, <3>1, <3>3, <4>1
      <3>. QED
        BY <3>2, <3>3
    <2>2. DOMAIN e.point = Account
      BY <1>6
    <2>. QED
      BY <1>7, <1>8, <2>1, <2>2 DEF Agree
  <1>10. NewRows(e)
    <2>1. e.head[b2] = d.head[b2]
      BY <1>2, <1>5 DEF AnyBatch
    <2>2. e.point[Move!Legacy] # b2
      BY <1>6 DEF AttributionBounds
    <2>. QED
      BY <1>7, <1>8, <2>1, <2>2 DEF NewRows
  <1>11. Versioned(e)
    <2>. SUFFICES ASSUME NEW y \in e.raw
                  PROVE  Move!Stores(e.history, y)
      BY DEF Versioned
    <2>1. y \in Move!Moved(d.raw) /\ y.account = Move!Target
      BY <1>1, <1>7
    \* Whose version some row of the old history has.
    <2>2. ASSUME NEW z \in d.history, z.version = y.version
          PROVE  Move!Stores(e.history, y)
      <3>1. PICK w \in Move!Moved(d.history) : w.account = Move!Target /\ w.version = z.version
        BY <1>4, MovedRows
      <3>. QED
        BY <1>3, <2>1, <2>2, <3>1 DEF Move!Stores
    <2>3. CASE y \in d.raw
      <3>1. PICK z \in d.history : z.account = y.account /\ z.version = y.version
        BY <2>1, <2>3 DEF Versioned, Move!Stores
      <3>. QED
        BY <2>2, <3>1
    <2>4. CASE y \notin d.raw
      <3>1. PICK x \in Move!Mine(d.raw) : y = Move!Ours(x)
        BY <1>4, <2>1, <2>4, MovedRows
      <3>2. x \in RowOf /\ y.version = x.version
        BY <1>4, <3>1, OursRow DEF Move!Mine
      <3>3. CASE \E z \in d.history : z.version = x.version
        BY <2>2, <3>2, <3>3
      <3>4. CASE ~\E z \in d.history : z.version = x.version
        <4>1. ~Move!Stores(p.history, x) /\ ~Move!Stores(p.history, Move!Ours(x))
          <5>1. \A z \in p.history : z.version # x.version
            BY <3>4 DEF SameLegacy
          <5>. QED
            BY <3>2, <5>1, OursRow DEF Move!Stores
        <4>2. x \in Move!Mine(p.raw)
          BY <3>1 DEF SameLegacy
        <4>3. x \in Move!Baseline(p) \cap Move!Mine(d.raw)
          BY <3>1, <4>1, <4>2 DEF Move!Baseline
        <4>. QED
          BY <1>3, <3>1, <4>3
      <3>. QED
        BY <3>3, <3>4
    <2>. QED
      BY <2>3, <2>4
  <1>12. Clean(e)
    <2>1. Move!Mine(e.raw) = {} /\ Move!Mine(e.history) = {} /\ Move!MyChildren(e) = {}
      BY <1>7, <1>8, Accounts DEF Move!Mine, Move!MyChildren
    <2>. QED
      BY <1>6, <2>1 DEF Clean, Move!Remaining
  <1>13. e \in TablesOf
    <2>1. e.raw \in SUBSET RowOf /\ e.history \in SUBSET RowOf /\ e.child \in SUBSET ChildOf
      BY <1>7, <1>8
    <2>. QED
      BY <1>1, <1>2, <1>6, <2>1 DEF TablesOf
  <1>. QED
    BY <1>9, <1>10, <1>11, <1>12, <1>13 DEF e

-----------------------------------------------------------------------------

Held == {"locked", "planned", "applied", "release"}

\* What of the invariant is about the tables alone.
DataOk(d) == d \in TablesOf /\ NewRows(d) /\ Agree(d) /\ Versioned(d)

LEMMA DataInv ==
  AttributionInv <=>
    /\ AttributionTypes /\ DataOk(db) /\ HoldsLock /\ PlansHold /\ (moved # {} => Clean(db))
    /\ \A r \in Actor : Told(r)
  BY DEF AttributionInv, AttributionTypes, DataOk, Agree, Versioned, Clean, Move!BatchesAgree,
         Move!SnapshotsHaveHistory, Move!AllOrNothing

LEMMA DataInvNext ==
  AttributionInv' <=>
    /\ AttributionTypes' /\ DataOk(db)' /\ HoldsLock' /\ PlansHold'
    /\ (moved' # {} => Clean(db)')
    /\ (\A r \in Actor : Told(r))'
  BY DEF AttributionInv, AttributionTypes, DataOk, Agree, Versioned, Clean, Move!BatchesAgree,
         Move!SnapshotsHaveHistory, Move!AllOrNothing

\* What a run's step r does to the others: nothing, and it leaves the lock right.
Steps(r, st) ==
  /\ pc' = [pc EXCEPT ![r] = st]
  /\ \A q \in Actor \ {r} : seen'[q] = seen[q] /\ answer'[q] = answer[q]
       /\ (q \in moved' <=> q \in moved)
  /\ moved' \subseteq Actor
  /\ seen' \in [Actor -> TablesOf] /\ answer' \in [Actor -> AnswerOf]

LockOk(r, st) ==
  \/ lock' = lock /\ (st \in Held => pc[r] \in Held)
  \/ lock = Move!Free /\ lock' = r
  \/ st \notin Held /\ lock' = IF lock = r THEN Move!Free ELSE lock
  \/ st \notin Held /\ pc[r] \in Held /\ lock' = Move!Free

LEMMA LockMoves ==
  ASSUME AttributionBounds, AttributionInv, NEW r \in Actor, NEW st \in Stages, Steps(r, st),
         LockOk(r, st)
  PROVE  pc' \in [Actor -> Stages] /\ HoldsLock'
  <1>1. pc \in [Actor -> Stages] /\ HoldsLock
    BY DEF AttributionInv, AttributionTypes
  <1>2. pc' = [pc EXCEPT ![r] = st]
    BY DEF Steps
  <1>3. ASSUME NEW q \in Actor, pc'[q] \in Held
        PROVE  lock' = q
    <2>1. CASE q = r
      BY <1>1, <1>2, <1>3, <2>1 DEF LockOk, HoldsLock, Held
    <2>2. CASE q # r
      <3>1. lock = q
        BY <1>1, <1>2, <1>3, <2>2 DEF HoldsLock, Held
      <3>. QED
        BY <1>1, <2>2, <3>1 DEF LockOk, HoldsLock, Held, AttributionBounds
    <2>. QED
      BY <2>1, <2>2
  <1>. QED
    BY <1>1, <1>2, <1>3 DEF HoldsLock, Held

\* A step that leaves the tables alone keeps the invariant, if it keeps what the run itself
\* planned and said.
LEMMA RunKeeps ==
  ASSUME AttributionBounds, AttributionInv, NEW r \in Actor, NEW st \in Stages, Steps(r, st),
         LockOk(r, st),
         UNCHANGED <<db, moved>>,
         st \in {"planned", "applied"} =>
           /\ SameLegacy(db, seen'[r])
           /\ \A b \in Move!Candidates(seen'[r]) : Move!Whole(seen'[r], b, Move!Legacy),
         Told(r)'
  PROVE  AttributionInv'
  <1>1. /\ AttributionTypes /\ DataOk(db) /\ PlansHold /\ (moved # {} => Clean(db))
        /\ \A q \in Actor : Told(q)
    BY DataInv
  <1>2. pc' \in [Actor -> Stages] /\ HoldsLock' /\ pc' = [pc EXCEPT ![r] = st]
        /\ pc \in [Actor -> Stages]
    BY <1>1, LockMoves DEF Steps, AttributionTypes
  <1>3. ASSUME NEW q \in Actor, pc'[q] \in {"planned", "applied"}
        PROVE  SameLegacy(db', seen'[q])
               /\ \A b \in Move!Candidates(seen'[q]) : Move!Whole(seen'[q], b, Move!Legacy)
    <2>1. CASE q = r
      BY <1>2, <1>3, <2>1
    <2>2. CASE q # r
      <3>1. pc'[q] = pc[q] /\ seen'[q] = seen[q]
        BY <1>2, <2>2 DEF Steps
      <3>. QED
        BY <1>1, <1>3, <3>1 DEF PlansHold
    <2>. QED
      BY <2>1, <2>2
  <1>4. ASSUME NEW q \in Actor
        PROVE  Told(q)'
    <2>1. CASE q # r
      <3>1. pc'[q] = pc[q] /\ answer'[q] = answer[q] /\ (q \in moved' <=> q \in moved)
        BY <1>2, <2>1 DEF Steps
      <3>. QED
        BY <1>1, <3>1 DEF Told
    <2>. QED
      BY <2>1
  <1>5. AttributionTypes'
    BY <1>1, <1>2 DEF AttributionTypes, Steps
  <1>6. PlansHold'
    BY <1>3 DEF PlansHold
  <1>7. DataOk(db)' /\ (moved' # {} => Clean(db)')
    BY <1>1 DEF DataOk, NewRows, Agree, Versioned, Clean, Move!Remaining, Move!Mine,
       Move!MyChildren, Move!Stores
  <1>. QED
    BY <1>2, <1>4, <1>5, <1>6, <1>7, DataInvNext

\* The transaction of a run is committed, whoever learns of it.
LEMMA CommitKeeps ==
  ASSUME AttributionBounds, AttributionInv, NEW r \in Actor, NEW st \in {"release", "done"},
         pc[r] = "applied", Steps(r, st), LockOk(r, st), db' = Move!After(db, seen[r]), Told(r)'
  PROVE  AttributionInv'
  <1>1. /\ AttributionTypes /\ DataOk(db) /\ PlansHold /\ HoldsLock /\ \A q \in Actor : Told(q)
    BY DataInv
  <1>2. pc' \in [Actor -> Stages] /\ HoldsLock' /\ pc' = [pc EXCEPT ![r] = st]
        /\ pc \in [Actor -> Stages]
    <2>1. st \in Stages
      BY DEF Stages
    <2>. QED
      BY <1>1, <2>1, LockMoves DEF Steps, AttributionTypes
  <1>3. db' \in TablesOf /\ NewRows(db') /\ Agree(db') /\ Versioned(db') /\ Clean(db')
    <2>1. db \in TablesOf /\ seen[r] \in TablesOf
      BY <1>1 DEF AttributionTypes
    <2>2. SameLegacy(db, seen[r])
          /\ \A b \in Move!Candidates(seen[r]) : Move!Whole(seen[r], b, Move!Legacy)
      BY <1>1 DEF PlansHold
    <2>. QED
      BY <1>1, <2>1, <2>2, AfterOk DEF DataOk
  <1>4. ASSUME NEW q \in Actor
        PROVE  pc'[q] \notin {"planned", "applied"}
    <2>1. CASE q = r
      BY <1>2, <2>1
    <2>2. CASE q # r
      BY <1>1, <1>2, <2>2 DEF HoldsLock
    <2>. QED
      BY <2>1, <2>2
  <1>5. ASSUME NEW q \in Actor
        PROVE  Told(q)'
    <2>1. CASE q # r
      <3>1. pc'[q] = pc[q] /\ answer'[q] = answer[q] /\ (q \in moved' <=> q \in moved)
        BY <1>2, <2>1 DEF Steps
      <3>. QED
        BY <1>1, <3>1 DEF Told
    <2>. QED
      BY <2>1
  <1>6. AttributionTypes'
    BY <1>2, <1>3 DEF AttributionTypes, Steps
  <1>7. PlansHold'
    BY <1>4 DEF PlansHold
  <1>8. DataOk(db)' /\ Clean(db)'
    BY <1>3 DEF DataOk, NewRows, Agree, Versioned, Clean, Move!Remaining, Move!Mine,
       Move!MyChildren, Move!Stores
  <1>. QED
    BY <1>2, <1>5, <1>6, <1>7, <1>8, DataInvNext

\* The sync writes rows of the target account.
LEMMA SyncKeeps ==
  ASSUME AttributionInv, UNCHANGED <<lock, pc, seen, answer, moved>>,
         DataOk(db'), SameLegacy(db', db)
  PROVE  AttributionInv'
  <1>1. /\ AttributionTypes /\ PlansHold /\ HoldsLock /\ (moved # {} => Clean(db))
        /\ \A q \in Actor : Told(q)
    BY DataInv
  <1>2. AttributionTypes' /\ HoldsLock'
    BY <1>1 DEF AttributionTypes, HoldsLock, DataOk
  <1>3. PlansHold'
    BY <1>1 DEF PlansHold, SameLegacy
  <1>4. (\A q \in Actor : Told(q))'
    BY <1>1 DEF Told
  <1>5. moved' # {} => Clean(db)'
    <2>1. Move!MyChildren(db') = Move!MyChildren(db)
      BY DEF SameLegacy, Move!MyChildren
    <2>. QED
      BY <1>1, <2>1 DEF Clean, Move!Remaining, SameLegacy
  <1>6. DataOk(db)'
    BY DEF DataOk, NewRows, Agree, Versioned, Move!Stores
  <1>. QED
    BY <1>2, <1>3, <1>4, <1>5, <1>6, DataInvNext

-----------------------------------------------------------------------------

LEMMA LegacyHeaders ==
  /\ Move!Absent \in HeaderOf /\ Move!Absent.account = Move!Legacy
  /\ \A x \in {Move!Header(Move!Legacy, TRUE, 1, FALSE), Move!Header(Move!Legacy, TRUE, 2, FALSE),
                Move!Header(Move!Legacy, FALSE, 1, FALSE)} : x \in HeaderOf
                /\ x.account = Move!Legacy
  <1>1. Move!Absent \in HeaderOf /\ Move!Absent.account = Move!Legacy
    BY Accounts DEF Move!Absent, Move!Header, HeaderOf
  <1>2. Move!Header(Move!Legacy, TRUE, 1, FALSE) \in HeaderOf
        /\ Move!Header(Move!Legacy, TRUE, 1, FALSE).account = Move!Legacy
    BY Accounts DEF Move!Header, HeaderOf
  <1>3. Move!Header(Move!Legacy, TRUE, 2, FALSE) \in HeaderOf
        /\ Move!Header(Move!Legacy, TRUE, 2, FALSE).account = Move!Legacy
    BY Accounts DEF Move!Header, HeaderOf
  <1>4. Move!Header(Move!Legacy, FALSE, 1, FALSE) \in HeaderOf
        /\ Move!Header(Move!Legacy, FALSE, 1, FALSE).account = Move!Legacy
    BY Accounts DEF Move!Header, HeaderOf
  <1>. QED
    BY <1>1, <1>2, <1>3, <1>4, Zenon

IsTables(d, head, contents, versions, child, last) ==
  /\ d \in TablesOf /\ d.raw = contents /\ d.history = versions /\ d.child = child
  /\ d.head[b2] = Move!Absent /\ \A b \in Batch : d.head[b] = head[b]
  /\ d.point[Move!Legacy] = last /\ d.point[Move!Target] = Move!NoBatch

LEMMA TablesTyped ==
  ASSUME AttributionBounds, NEW head \in [Batch -> HeaderOf], NEW contents \in SUBSET RowOf,
         NEW versions \in SUBSET RowOf,
         NEW child \in SUBSET ChildOf, NEW last \in Batch \cup {Move!NoBatch}
  PROVE  IsTables(Move!Tables(head, contents, versions, child, last),
                  head, contents, versions, child, last)
  <1>. DEFINE d == Move!Tables(head, contents, versions, child, last)
              h == [b \in Batch \cup {b2} |-> IF b = b2 THEN Move!Absent ELSE head[b]]
              p == [a \in {Move!Legacy, Move!Target} |->
                      IF a = Move!Legacy THEN last ELSE Move!NoBatch]
  <1>1. d = [head |-> h, raw |-> contents, history |-> versions, child |-> child, point |-> p]
    BY DEF Move!Tables
  <1>2. h \in [AnyBatch -> HeaderOf] /\ h[b2] = Move!Absent /\ \A b \in Batch : h[b] = head[b]
    BY LegacyHeaders DEF AnyBatch, AttributionBounds
  <1>3. p \in [Account -> AnyBatch \cup {Move!NoBatch}] /\ p[Move!Legacy] = last
        /\ p[Move!Target] = Move!NoBatch
    BY Accounts DEF Account, AnyBatch
  <1>. HIDE DEF d, h, p
  <1>4. d \in TablesOf /\ d.raw = contents /\ d.history = versions /\ d.child = child
        /\ d.head = h /\ d.point = p
    BY <1>1, <1>2, <1>3 DEF TablesOf
  <1>. QED
    BY <1>2, <1>3, <1>4 DEF d, IsTables

LEMMA NoPlanTyped == AttributionBounds => Move!NoPlan \in TablesOf
  <1>. SUFFICES ASSUME AttributionBounds
                PROVE  Move!NoPlan \in TablesOf
    OBVIOUS
  <1>1. PICK head \in [Batch -> HeaderOf] : head = [b \in Batch |-> Move!Absent]
    BY LegacyHeaders
  <1>2. IsTables(Move!Tables(head, {}, {}, {}, Move!NoBatch), head, {}, {}, {}, Move!NoBatch)
    BY TablesTyped
  <1>. QED
    BY <1>1, <1>2 DEF Move!NoPlan, IsTables

\* What older releases left belongs to account 0.
LEMMA LegacyOk ==
  ASSUME AttributionBounds, NEW d \in Move!LegacyTables
  PROVE  DataOk(d)
  <1>. PICK old \in Move!LegacyStock :
         d = Move!Tables(old.head, old.raw, old.history,
                         Move!LogsOf(old.head) \cup old.failed, old.last)
    BY DEF Move!LegacyTables
  <1>. DEFINE head == old.head
              contents == old.raw
              versions == old.history
              failed == old.failed
              last == old.last
  <1>1. /\ head \in [Batch -> Move!LegacyHeads]
        /\ contents \in Move!AtMostOne(Move!LegacyContents)
        /\ versions \in Move!AtMostOne(Move!LegacyContents)
        /\ failed \in Move!AtMostOne(Move!LegacyFailures) /\ last \in Batch \cup {Move!NoBatch}
        /\ d = Move!Tables(head, contents, versions, Move!LogsOf(head) \cup failed, last)
    BY DEF Move!LegacyStock
  <1>. HIDE DEF head, contents, versions, failed, last
  <1>2. \A x \in Move!LegacyHeads : x \in HeaderOf /\ x.account = Move!Legacy
    BY LegacyHeaders DEF Move!LegacyHeads
  <1>3. \A x \in Move!LegacyContents : x \in RowOf /\ x.account = Move!Legacy /\ x.batch \in Batch
    BY Accounts DEF Move!LegacyContents, Move!Content, RowOf, AnyBatch
  <1>4. \A x \in Move!LogsOf(head) \cup Move!LegacyFailures : x \in ChildOf
        /\ x.account = Move!Legacy /\ x.batch \in Batch
    BY Accounts DEF Move!LegacyFailures, Move!LogsOf, Move!Child, ChildOf, AnyBatch
  <1>5. head \in [Batch -> HeaderOf] /\ \A b \in Batch : head[b].account = Move!Legacy
    BY <1>1, <1>2
  <1>6. /\ contents \subseteq Move!LegacyContents /\ versions \subseteq Move!LegacyContents
             /\ failed \subseteq Move!LegacyFailures
        /\ last \in Batch \cup {Move!NoBatch}
    BY <1>1 DEF Move!AtMostOne
  <1>7. PICK child \in SUBSET ChildOf :
          /\ child = Move!LogsOf(head) \cup failed
          /\ \A x \in child : x.account = Move!Legacy /\ x.batch \in Batch
    <2>1. Move!LogsOf(head) \cup failed \subseteq Move!LogsOf(head) \cup Move!LegacyFailures
      BY <1>6
    <2>2. Move!LogsOf(head) \cup failed \in SUBSET ChildOf
      BY <1>4, <2>1
    <2>3. \A x \in Move!LogsOf(head) \cup failed : x.account = Move!Legacy /\ x.batch \in Batch
      BY <1>4, <2>1
    <2>. QED
      BY <2>2, <2>3, Zenon
  <1>8. /\ d \in TablesOf /\ d.raw = contents /\ d.history = versions /\ d.child = child
        /\ d.head[b2] = Move!Absent /\ \A b \in Batch : d.head[b] = head[b]
        /\ d.point[Move!Legacy] = last /\ d.point[Move!Target] = Move!NoBatch
    <2>1. contents \in SUBSET RowOf /\ versions \in SUBSET RowOf
      BY <1>3, <1>6
    <2>2. d = Move!Tables(head, contents, versions, child, last)
      BY <1>1, <1>7
    <2>3. IsTables(Move!Tables(head, contents, versions, child, last),
                   head, contents, versions, child, last)
      BY <1>5, <1>6, <1>7, <2>1, TablesTyped
    <2>. QED
      BY <2>2, <2>3 DEF IsTables
  <1>9. \A x \in d.raw \cup d.history \cup d.child : x.account = Move!Legacy /\ x.batch \in Batch
    BY <1>3, <1>6, <1>7, <1>8
  <1>10. NewRows(d)
    BY <1>6, <1>8, <1>9 DEF NewRows, AttributionBounds
  <1>11. Agree(d)
    <2>1. DOMAIN d.point = Account
      BY <1>8, TablesFacts
    <2>2. \A b \in Batch : d.head[b].account = Move!Legacy
      BY <1>5, <1>8
    <2>3. \A x \in d.raw \cup d.history \cup d.child : d.head[x.batch].account = x.account
      BY <1>9, <2>2
    <2>4. last # Move!NoBatch => d.head[last].account = Move!Legacy
      BY <1>6, <2>2
    <2>5. ASSUME NEW a \in Account, d.point[a] # Move!NoBatch
          PROVE  d.head[d.point[a]].account = a
      BY <1>8, <2>4, <2>5, Accounts
    <2>. QED
      BY <2>1, <2>3, <2>5 DEF Agree
  <1>12. Versioned(d)
    BY <1>9, Accounts DEF Versioned
  <1>. QED
    BY <1>8, <1>10, <1>11, <1>12 DEF DataOk

LEMMA AttributionInit ==
  ASSUME AttributionBounds, Move!Init
  PROVE  AttributionInv
  <1>1. DataOk(db)
    BY LegacyOk DEF Move!Init
  <1>2. pc \in [Actor -> Stages] /\ \A r \in Actor : pc[r] = "start"
    BY DEF Move!Init, Stages
  <1>3. seen \in [Actor -> TablesOf]
    BY NoPlanTyped DEF Move!Init
  <1>4. answer \in [Actor -> AnswerOf]
    <2>1. Move!Unanswered \in AnswerOf
      BY DEF Move!Unanswered, AnswerOf
    <2>. QED
      BY <2>1 DEF Move!Init
  <1>5. moved = {}
    BY DEF Move!Init
  <1>6. AttributionTypes
    BY <1>1, <1>2, <1>3, <1>4, <1>5 DEF AttributionTypes, DataOk
  <1>7. HoldsLock /\ PlansHold /\ \A r \in Actor : Told(r)
    BY <1>2, <1>5 DEF HoldsLock, PlansHold, Told
  <1>. QED
    BY <1>1, <1>5, <1>6, <1>7, DataInv

\* The answers.
LEMMA AnswerTyped ==
  ASSUME AttributionInv, NEW r \in Actor, NEW a \in AnswerOf, answer' = [answer EXCEPT ![r] = a]
  PROVE  answer' \in [Actor -> AnswerOf] /\ answer'[r] = a
         /\ \A q \in Actor \ {r} : answer'[q] = answer[q]
  BY DEF AttributionInv, AttributionTypes

LEMMA SeenTyped ==
  ASSUME AttributionInv, NEW r \in Actor, NEW p \in TablesOf, seen' = [seen EXCEPT ![r] = p]
  PROVE  seen' \in [Actor -> TablesOf] /\ seen'[r] = p
         /\ \A q \in Actor \ {r} : seen'[q] = seen[q]
  BY DEF AttributionInv, AttributionTypes

AnswerFor(s, c, b) == [status |-> s, code |-> c, restore |-> b]

LEMMA AnswerFields ==
  ASSUME NEW s, NEW c, NEW b
  PROVE  AnswerFor(s, c, b).status = s /\ AnswerFor(s, c, b).code = c
         /\ AnswerFor(s, c, b).restore = b
  BY DEF AnswerFor

Statuses == {"none", "blocked", "planned", "success", "error"}
Codes == {"none", "LOCK_BUSY", "PLAN_READY", "APPLIED", "COMMIT_FAILED", "BLOCKED",
         "RUNTIME_FAILED",
          "ROLLBACK_FAILED", "LOCK_RELEASE_FAILED", "CONNECTION_CLOSE_FAILED"}

\* A run answers something, or keeps its answer; it keeps, forgets or gets its plan.
Answers(r) == answer' = answer \/ \E a \in AnswerOf : answer' = [answer EXCEPT ![r] = a]
Plans(r) == seen' = seen \/ \E p \in TablesOf : seen' = [seen EXCEPT ![r] = p]

LEMMA Says ==
  ASSUME AttributionInv, NEW r \in Actor, NEW s \in Statuses, NEW c \in Codes, NEW b \in BOOLEAN,
         Move!Answer(r, s, c, b)
  PROVE  Answers(r) /\ answer'[r].status = s /\ answer'[r].code = c
  <1>1. AnswerFor(s, c, b) \in AnswerOf
    BY DEF AnswerFor, AnswerOf, Statuses, Codes
  <1>2. answer' = [answer EXCEPT ![r] = AnswerFor(s, c, b)]
    BY Zenon DEF Move!Answer, AnswerFor
  <1>3. answer'[r] = AnswerFor(s, c, b)
    BY <1>1, <1>2, AnswerTyped
  <1>4. answer'[r].status = s /\ answer'[r].code = c
    BY <1>3, AnswerFields
  <1>5. Answers(r)
    BY <1>1, <1>2, Zenon DEF Answers
  <1>. QED
    BY <1>4, <1>5, Zenon

LEMMA SaysRestore ==
  ASSUME AttributionInv, NEW r \in Actor, Move!Answer(r, "error", "COMMIT_FAILED", TRUE)
  PROVE  answer'[r].restore
  <1>1. answer \in [Actor -> AnswerOf]
    BY DEF AttributionInv, AttributionTypes
  <1>. QED
    BY <1>1 DEF Move!Answer

LEMMA Forgets ==
  ASSUME AttributionBounds, NEW r \in Actor, Move!Forget(r)
  PROVE  Plans(r)
  BY NoPlanTyped DEF Move!Forget, Plans

LEMMA RunSteps ==
  ASSUME AttributionInv, NEW r \in Actor, NEW st \in Stages, Move!Go(r, st), Answers(r), Plans(r),
         moved' \in {moved, moved \cup {r}}
  PROVE  Steps(r, st) /\ pc'[r] = st
  <1>1. /\ pc \in [Actor -> Stages] /\ seen \in [Actor -> TablesOf]
             /\ answer \in [Actor -> AnswerOf]
        /\ moved \subseteq Actor
    BY DEF AttributionInv, AttributionTypes
  <1>2. pc' = [pc EXCEPT ![r] = st] /\ pc'[r] = st
    BY <1>1 DEF Move!Go
  <1>3. answer' \in [Actor -> AnswerOf] /\ \A q \in Actor \ {r} : answer'[q] = answer[q]
    BY <1>1, AnswerTyped DEF Answers
  <1>4. seen' \in [Actor -> TablesOf] /\ \A q \in Actor \ {r} : seen'[q] = seen[q]
    BY <1>1, SeenTyped DEF Plans
  <1>5. moved' \subseteq Actor /\ \A q \in Actor \ {r} : q \in moved' <=> q \in moved
    BY <1>1
  <1>. QED
    BY <1>2, <1>3, <1>4, <1>5 DEF Steps

\* Before its commit a run has moved nothing and may answer anything but a success.
LEMMA QuietTold ==
  ASSUME AttributionInv, NEW r \in Actor, pc[r] \in {"start", "locked", "planned", "applied"},
         moved' = moved, pc'[r] \in {"locked", "planned", "applied"}
         \/ answer'[r].status # "success"
  PROVE  Told(r)'
  <1>1. r \notin moved'
    BY DEF AttributionInv, Told
  <1>. QED
    BY <1>1 DEF Told

LEMMA BusyStep ==
  ASSUME AttributionBounds, AttributionInv, NEW r \in Actor, Move!Busy(r)
  PROVE  AttributionInv'
  <1>1. Answers(r) /\ answer'[r].status = "blocked"
    BY Says DEF Move!Busy, Statuses, Codes
  <1>2. Steps(r, "close") /\ pc'[r] = "close"
    BY <1>1, RunSteps DEF Move!Busy, Plans, Stages
  <1>3. Told(r)'
    BY <1>1, <1>2, QuietTold DEF Move!Busy
  <1>. QED
    BY <1>2, <1>3, RunKeeps DEF Move!Busy, LockOk, Held, Stages

LEMMA TakeLockStep ==
  ASSUME AttributionBounds, AttributionInv, NEW r \in Actor, Move!TakeLock(r)
  PROVE  AttributionInv'
  <1>1. Steps(r, "locked") /\ pc'[r] = "locked"
    BY RunSteps DEF Move!TakeLock, Plans, Answers, Stages
  <1>2. Told(r)'
    BY <1>1, QuietTold DEF Move!TakeLock
  <1>. QED
    BY <1>1, <1>2, RunKeeps DEF Move!TakeLock, LockOk, Held, Stages

LEMMA PlanStep ==
  ASSUME AttributionBounds, AttributionInv, NEW r \in Actor, Move!Plan(r)
  PROVE  AttributionInv'
  <1>1. pc[r] = "locked" /\ Move!Fits(db) /\ lock' = lock /\ moved' = moved /\ db' = db
    BY DEF Move!Plan
  <1>2. CASE Move!Go(r, "planned") /\ seen' = [seen EXCEPT ![r] = db] /\ UNCHANGED answer
    <2>1. db \in TablesOf
      BY DEF AttributionInv, AttributionTypes
    <2>2. Steps(r, "planned") /\ pc'[r] = "planned"
      BY <1>1, <1>2, <2>1, RunSteps DEF Plans, Answers, Stages
    <2>3. seen'[r] = db
      BY <1>2, <2>1, SeenTyped
    <2>4. SameLegacy(db, seen'[r])
          /\ \A b \in Move!Candidates(seen'[r]) : Move!Whole(seen'[r], b, Move!Legacy)
      BY <1>1, <2>3 DEF SameLegacy, Move!Fits
    <2>5. Told(r)'
      BY <1>1, <2>2, QuietTold
    <2>. QED
      BY <1>1, <2>2, <2>4, <2>5, RunKeeps DEF LockOk, Held, Stages
  <1>3. CASE Move!Go(r, "release") /\ Move!Answer(r, "planned", "PLAN_READY", FALSE)
             /\ UNCHANGED seen
    <2>1. Answers(r) /\ answer'[r].status = "planned"
      BY <1>3, Says DEF Statuses, Codes
    <2>2. Steps(r, "release") /\ pc'[r] = "release"
      BY <1>1, <1>3, <2>1, RunSteps DEF Plans, Stages
    <2>3. Told(r)'
      BY <1>1, <2>1, <2>2, QuietTold
    <2>. QED
      BY <1>1, <2>2, <2>3, RunKeeps DEF LockOk, Held, Stages
  <1>. QED
    BY <1>2, <1>3 DEF Move!Plan

LEMMA ApplyStep ==
  ASSUME AttributionBounds, AttributionInv, NEW r \in Actor, Move!Apply(r)
  PROVE  AttributionInv'
  <1>1. Steps(r, "applied") /\ pc'[r] = "applied"
    BY RunSteps DEF Move!Apply, Plans, Answers, Stages
  <1>2. Told(r)'
    BY <1>1, QuietTold DEF Move!Apply
  <1>3. SameLegacy(db, seen'[r])
        /\ \A b \in Move!Candidates(seen'[r]) : Move!Whole(seen'[r], b, Move!Legacy)
    BY DEF Move!Apply, AttributionInv, PlansHold
  <1>. QED
    BY <1>1, <1>2, <1>3, RunKeeps DEF Move!Apply, LockOk, Held, Stages

LEMMA StopStep ==
  ASSUME AttributionBounds, AttributionInv, NEW r \in Actor, Move!Stop(r)
  PROVE  AttributionInv'
  <1>1. Answers(r) /\ answer'[r].status # "success"
    <2>1. CASE Move!Answer(r, "blocked", "BLOCKED", FALSE)
      BY <2>1, Says DEF Statuses, Codes
    <2>2. CASE Move!Answer(r, "error", "RUNTIME_FAILED", FALSE)
      BY <2>2, Says DEF Statuses, Codes
    <2>3. CASE Move!Answer(r, "error", "ROLLBACK_FAILED", pc[r] # "locked")
      <3>1. PICK b \in BOOLEAN : b = (pc[r] # "locked")
        OBVIOUS
      <3>2. Move!Answer(r, "error", "ROLLBACK_FAILED", b)
        BY <2>3, <3>1
      <3>. QED
        BY <3>2, Says DEF Statuses, Codes
    <2>. QED
      BY <2>1, <2>2, <2>3 DEF Move!Stop
  <1>2. Steps(r, "release") /\ pc'[r] = "release"
    BY <1>1, Forgets, RunSteps DEF Move!Stop, Stages
  <1>3. Told(r)'
    BY <1>1, <1>2, QuietTold DEF Move!Stop
  <1>. QED
    BY <1>2, <1>3, RunKeeps DEF Move!Stop, LockOk, Held, Stages

\* After its commit or without one, a run's answer stays or becomes an error of the cleanup.
LEMMA CleanupTold ==
  ASSUME AttributionInv, NEW r \in Actor, pc[r] \in {"release", "close"}, moved' = moved,
         pc'[r] \in {"close", "done"},
         \/ answer' = answer
         \/ /\ answer'[r].status = "error"
            /\ answer'[r].code \in {"LOCK_RELEASE_FAILED", "CONNECTION_CLOSE_FAILED"}
  PROVE  Told(r)'
  <1>1. Told(r)
    BY DEF AttributionInv
  <1>. QED
    BY <1>1 DEF Told

LEMMA ReleaseStep ==
  ASSUME AttributionBounds, AttributionInv, NEW r \in Actor, Move!Release(r)
  PROVE  AttributionInv'
  <1>1. /\ Answers(r)
        /\ \/ answer' = answer
           \/ answer'[r].status = "error" /\ answer'[r].code = "LOCK_RELEASE_FAILED"
    <2>1. CASE UNCHANGED answer
      BY <2>1 DEF Answers
    <2>2. CASE Move!Answer(r, "error", "LOCK_RELEASE_FAILED", answer[r].restore)
      <3>1. answer[r].restore \in BOOLEAN
        BY DEF AttributionInv, AttributionTypes, AnswerOf
      <3>. QED
        BY <2>2, <3>1, Says DEF Statuses, Codes
    <2>. QED
      BY <2>1, <2>2 DEF Move!Release
  <1>2. Steps(r, "close") /\ pc'[r] = "close"
    BY <1>1, RunSteps DEF Move!Release, Plans, Stages
  <1>3. Told(r)'
    BY <1>1, <1>2, CleanupTold DEF Move!Release
  <1>4. LockOk(r, "close")
    BY DEF Move!Release, LockOk, Held
  <1>. QED
    BY <1>2, <1>3, <1>4, RunKeeps DEF Move!Release, Stages

LEMMA CloseStep ==
  ASSUME AttributionBounds, AttributionInv, NEW r \in Actor, Move!Close(r)
  PROVE  AttributionInv'
  <1>1. /\ Answers(r)
        /\ \/ answer' = answer
           \/ answer'[r].status = "error" /\ answer'[r].code = "CONNECTION_CLOSE_FAILED"
    BY Says DEF Move!Close, Answers, Statuses, Codes
  <1>2. Steps(r, "done") /\ pc'[r] = "done"
    BY <1>1, RunSteps DEF Move!Close, Plans, Stages
  <1>3. Told(r)'
    BY <1>1, <1>2, CleanupTold DEF Move!Close
  <1>4. LockOk(r, "done")
    BY DEF Move!Close, LockOk, Held
  <1>. QED
    BY <1>2, <1>3, <1>4, RunKeeps DEF Move!Close, Stages

LEMMA CommitStep ==
  ASSUME AttributionBounds, AttributionInv, NEW r \in Actor, Move!Commit(r)
  PROVE  AttributionInv'
  <1>1. Answers(r) /\ answer'[r].status = "success"
    BY Says DEF Move!Commit, Statuses, Codes
  <1>2. Steps(r, "release") /\ pc'[r] = "release"
    BY <1>1, Forgets, RunSteps DEF Move!Commit, Stages
  <1>3. Told(r)'
    BY <1>1, <1>2 DEF Move!Commit, Told
  <1>. QED
    BY <1>2, <1>3, CommitKeeps DEF Move!Commit, LockOk, Held

LEMMA CommitLostStep ==
  ASSUME AttributionBounds, AttributionInv, NEW r \in Actor, Move!CommitLost(r)
  PROVE  AttributionInv'
  <1>1. Answers(r) /\ answer'[r].status = "error" /\ answer'[r].restore
    BY Says, SaysRestore DEF Move!CommitLost, Statuses, Codes
  <1>2. Steps(r, "release") /\ pc'[r] = "release"
    BY <1>1, Forgets, RunSteps DEF Move!CommitLost, Stages
  <1>3. Told(r)'
    BY <1>1, <1>2 DEF Told
  <1>4. CASE db' = Move!After(db, seen[r])
    BY <1>2, <1>3, <1>4, CommitKeeps DEF Move!CommitLost, LockOk, Held
  <1>5. CASE UNCHANGED <<db, moved>>
    BY <1>2, <1>3, <1>5, RunKeeps DEF Move!CommitLost, LockOk, Held, Stages
  <1>. QED
    BY <1>4, <1>5 DEF Move!CommitLost

LEMMA DieStep ==
  ASSUME AttributionBounds, AttributionInv, NEW r \in Actor, Move!Die(r)
  PROVE  AttributionInv'
  <1>1. Move!Unanswered \in AnswerOf /\ Move!Unanswered.status = "none"
    BY DEF Move!Unanswered, AnswerOf
  <1>2. Answers(r) /\ answer'[r].status = "none"
    BY <1>1, AnswerTyped DEF Move!Die, Answers
  <1>3. Steps(r, "done") /\ pc'[r] = "done"
    BY <1>2, Forgets, RunSteps DEF Move!Die, Stages
  <1>4. Told(r)' /\ LockOk(r, "done")
    BY <1>2, <1>3 DEF Told, Move!Die, LockOk, Held
  <1>5. CASE pc[r] = "applied" /\ db' = Move!After(db, seen[r])
    BY <1>3, <1>4, <1>5, CommitKeeps
  <1>6. CASE UNCHANGED <<db, moved>>
    BY <1>3, <1>4, <1>6, RunKeeps DEF Stages
  <1>. QED
    BY <1>5, <1>6 DEF Move!Die

\* The sync beside it.
LEMMA SyncHead ==
  ASSUME NEW d \in TablesOf, NEW h \in HeaderOf
  PROVE  LET e == [d EXCEPT !.head[b2] = h] IN
         /\ e \in TablesOf /\ e.raw = d.raw /\ e.history = d.history /\ e.child = d.child
         /\ e.point = d.point /\ e.head[b2] = h
         /\ \A b \in Batch : b # b2 => e.head[b] = d.head[b]
  BY DEF TablesOf, AnyBatch

LEMMA BeginSyncStep ==
  ASSUME AttributionBounds, AttributionInv, Move!BeginSync
  PROVE  AttributionInv'
  <1>1. db \in TablesOf /\ DataOk(db)
    BY DataInv DEF DataOk
  <1>2. PICK h \in HeaderOf : h = Move!Header(Move!Target, FALSE, 1, TRUE)
    <2>1. Move!Header(Move!Target, FALSE, 1, TRUE) \in HeaderOf
      BY Accounts DEF Move!Header, HeaderOf
    <2>. QED
      BY <2>1
  <1>3. h.account = Move!Target
    BY <1>2 DEF Move!Header
  <1>4. db' = [db EXCEPT !.head[b2] = h]
    BY <1>2, Zenon DEF Move!BeginSync
  <1>5. /\ db' \in TablesOf /\ db'.raw = db.raw /\ db'.history = db.history
             /\ db'.child = db.child
        /\ db'.point = db.point /\ db'.head[b2] = h
        /\ \A b \in Batch : b # b2 => db'.head[b] = db.head[b]
    BY <1>1, <1>4, SyncHead
  \* Before it, its batch has no rows: a row would belong to account 0 and to the target.
  <1>6. db.head[b2].account = Move!Legacy
    BY LegacyHeaders DEF Move!BeginSync
  <1>7. \A x \in db.raw \cup db.history \cup db.child : x.batch \in AnyBatch /\ x.batch # b2
    BY <1>1, <1>6, TablesFacts, RowFields, ChildFields, Accounts DEF DataOk, Agree, NewRows
  <1>8. \A a \in Account : db.point[a] \in AnyBatch \cup {Move!NoBatch} /\ db.point[a] # b2
    BY <1>1, <1>6, TablesFacts, Accounts DEF DataOk, Agree, NewRows, AttributionBounds
  <1>9. DOMAIN db.point = Account
    BY <1>1, TablesFacts
  <1>10. Agree(db')
    BY <1>1, <1>5, <1>7, <1>8, <1>9 DEF DataOk, Agree, AnyBatch
  <1>11. NewRows(db') /\ Versioned(db') /\ SameLegacy(db', db)
    BY <1>1, <1>3, <1>5 DEF DataOk, NewRows, Versioned, SameLegacy
  <1>. QED
    BY <1>5, <1>10, <1>11, SyncKeeps DEF DataOk, Move!BeginSync

Paged(d, x) ==
  [d EXCEPT !.raw = Move!Mine(@) \cup {x},
            !.history = IF Move!Stores(@, x) THEN @ ELSE @ \cup {x}]

LEMMA PagedFields ==
  ASSUME NEW d \in TablesOf, NEW x \in RowOf
  PROVE  /\ Paged(d, x) \in TablesOf /\ Paged(d, x).head = d.head /\ Paged(d, x).child = d.child
         /\ Paged(d, x).point = d.point /\ Paged(d, x).raw = Move!Mine(d.raw) \cup {x}
         /\ d.history \subseteq Paged(d, x).history
              /\ Paged(d, x).history \subseteq d.history \cup {x}
         /\ Move!Stores(d.history, x) \/ x \in Paged(d, x).history
  <1>. DEFINE contents == Move!Mine(d.raw) \cup {x}
              versions == IF Move!Stores(d.history, x) THEN d.history ELSE d.history \cup {x}
  <1>1. contents \in SUBSET RowOf /\ versions \in SUBSET RowOf
    BY TablesFacts DEF Move!Mine
  <1>2. Paged(d, x) = [d EXCEPT !.raw = contents, !.history = versions]
    BY Zenon DEF Paged
  <1>3. /\ d.history \subseteq versions /\ versions \subseteq d.history \cup {x}
        /\ Move!Stores(d.history, x) \/ x \in versions
    OBVIOUS
  <1>. HIDE DEF contents, versions
  <1>4. LET e == [d EXCEPT !.raw = contents, !.history = versions] IN
        /\ e \in TablesOf /\ e.head = d.head /\ e.child = d.child /\ e.point = d.point
        /\ e.raw = contents /\ e.history = versions
    BY <1>1 DEF TablesOf
  <1>. QED
    BY <1>2, <1>3, <1>4 DEF contents

LEMMA StorePageStep ==
  ASSUME AttributionBounds, AttributionInv, Move!StorePage
  PROVE  AttributionInv'
  <1>1. db \in TablesOf /\ DataOk(db)
    BY DataInv DEF DataOk
  <1>2. PICK v \in Version : db' = Paged(db, Move!Content(Move!Target, v, b2))
    BY Zenon DEF Move!StorePage, Paged
  <1>3. PICK x \in RowOf : x = Move!Content(Move!Target, v, b2)
    BY Accounts DEF Move!Content, RowOf, AnyBatch
  <1>4. x.account = Move!Target /\ x.batch = b2 /\ x.version = v
    BY <1>3 DEF Move!Content
  <1>5. db' = Paged(db, x)
    BY <1>2, <1>3
  <1>6. /\ db' \in TablesOf /\ db'.head = db.head /\ db'.child = db.child /\ db'.point = db.point
        /\ db'.raw = Move!Mine(db.raw) \cup {x}
        /\ db.history \subseteq db'.history /\ db'.history \subseteq db.history \cup {x}
        /\ Move!Stores(db.history, x) \/ x \in db'.history
    BY <1>1, <1>5, PagedFields
  <1>7. db.head[b2].account = Move!Target
    BY DEF Move!StorePage, Move!Header
  <1>8. Move!Mine(db'.raw) = Move!Mine(db.raw) /\ Move!Mine(db'.history) = Move!Mine(db.history)
    BY <1>4, <1>6, Accounts DEF Move!Mine
  <1>9. NewRows(db') /\ Agree(db')
    BY <1>1, <1>4, <1>6, <1>7 DEF DataOk, NewRows, Agree, Move!Mine
  <1>10. Versioned(db')
    <2>1. ASSUME NEW y \in db'.raw, y.account = Move!Target
          PROVE  Move!Stores(db'.history, y)
      <3>1. y = x
        BY <1>6, <2>1, Accounts DEF Move!Mine
      <3>. QED
        BY <1>6, <3>1 DEF Move!Stores
    <2>. QED
      BY <2>1 DEF Versioned
  <1>11. SameLegacy(db', db)
    BY <1>6, <1>8 DEF SameLegacy
  <1>. QED
    BY <1>6, <1>9, <1>10, <1>11, SyncKeeps DEF DataOk, Move!StorePage

Ended(d, c) ==
  [d EXCEPT !.head[b2].ended = TRUE, !.child = @ \cup {c}, !.point[Move!Target] = b2]

LEMMA EndedFields ==
  ASSUME NEW d \in TablesOf, NEW c \in ChildOf
  PROVE  /\ Ended(d, c) \in TablesOf /\ Ended(d, c).raw = d.raw /\ Ended(d, c).history = d.history
         /\ Ended(d, c).child = d.child \cup {c}
         /\ Ended(d, c).point[Move!Legacy] = d.point[Move!Legacy]
              /\ Ended(d, c).point[Move!Target] = b2
         /\ \A b \in AnyBatch : Ended(d, c).head[b].account = d.head[b].account
  <1>. DEFINE head == [d.head EXCEPT ![b2].ended = TRUE]
              child == d.child \cup {c}
              points == [d.point EXCEPT ![Move!Target] = b2]
  <1>1. /\ head \in [AnyBatch -> HeaderOf]
        /\ \A b \in AnyBatch : head[b].account = d.head[b].account
    <2>1. d.head \in [AnyBatch -> HeaderOf]
      BY TablesFacts
    <2>2. ASSUME NEW h \in HeaderOf
          PROVE  [h EXCEPT !.ended = TRUE] \in HeaderOf
                 /\ [h EXCEPT !.ended = TRUE].account = h.account
      BY DEF HeaderOf
    <2>. QED
      BY <2>1, <2>2 DEF AnyBatch
  <1>2. child \in SUBSET ChildOf
    BY TablesFacts
  <1>3. /\ points \in [Account -> AnyBatch \cup {Move!NoBatch}]
             /\ points[Move!Legacy] = d.point[Move!Legacy]
        /\ points[Move!Target] = b2
    BY TablesFacts, Accounts DEF AnyBatch
  <1>4. Ended(d, c) = [d EXCEPT !.head = head, !.child = child, !.point = points]
    BY DEF Ended, TablesOf
  <1>. HIDE DEF head, child, points
  <1>5. LET e == [d EXCEPT !.head = head, !.child = child, !.point = points] IN
        /\ e \in TablesOf /\ e.raw = d.raw /\ e.history = d.history
        /\ e.head = head /\ e.child = child /\ e.point = points
    BY <1>1, <1>2, <1>3 DEF TablesOf
  <1>. QED
    BY <1>1, <1>3, <1>4, <1>5 DEF child

LEMMA EndSyncStep ==
  ASSUME AttributionBounds, AttributionInv, Move!EndSync
  PROVE  AttributionInv'
  <1>1. db \in TablesOf /\ DataOk(db)
    BY DataInv DEF DataOk
  <1>2. PICK c \in ChildOf : c = Move!Child("log", Move!Target, Move!Api, b2)
    BY Accounts DEF Move!Child, ChildOf, AnyBatch
  <1>3. c.account = Move!Target /\ c.batch = b2
    BY <1>2 DEF Move!Child
  <1>4. db' = Ended(db, c)
    BY <1>2, Zenon DEF Move!EndSync, Ended
  <1>5. /\ db' \in TablesOf /\ db'.raw = db.raw /\ db'.history = db.history
        /\ db'.child = db.child \cup {c}
        /\ db'.point[Move!Legacy] = db.point[Move!Legacy] /\ db'.point[Move!Target] = b2
        /\ \A b \in AnyBatch : db'.head[b].account = db.head[b].account
    BY <1>1, <1>4, EndedFields
  <1>6. db.head[b2].account = Move!Target
    BY DEF Move!EndSync, Move!Header
  <1>7. b2 \in AnyBatch
    BY DEF AnyBatch
  <1>8. NewRows(db')
    BY <1>1, <1>3, <1>5, <1>6, <1>7 DEF DataOk, NewRows
  <1>9. \A x \in db'.raw \cup db'.history \cup db'.child : db'.head[x.batch].account = x.account
    <2>1. \A x \in db.raw \cup db.history \cup db.child :
            x.batch \in AnyBatch /\ db.head[x.batch].account = x.account
      BY <1>1, TablesFacts, RowFields, ChildFields DEF DataOk, Agree
    <2>. QED
      BY <1>3, <1>5, <1>6, <1>7, <2>1
  <1>10. \A a \in DOMAIN db'.point : db'.point[a] # Move!NoBatch
         => db'.head[db'.point[a]].account = a
    <2>1. DOMAIN db'.point = Account /\ DOMAIN db.point = Account
      BY <1>1, <1>5, TablesFacts
    <2>2. db.point[Move!Legacy] \in AnyBatch \cup {Move!NoBatch}
      BY <1>1, TablesFacts, Accounts
    <2>3. db.point[Move!Legacy] # Move!NoBatch
          => db.head[db.point[Move!Legacy]].account = Move!Legacy
      BY <1>1, <2>1, Accounts DEF DataOk, Agree
    <2>4. CASE TRUE
      BY <1>5, <1>6, <1>7, <2>1, <2>2, <2>3, Accounts
    <2>. QED
      BY <2>4
  <1>11. Agree(db') /\ Versioned(db')
    BY <1>1, <1>5, <1>9, <1>10 DEF DataOk, Agree, Versioned
  <1>12. SameLegacy(db', db)
    BY <1>3, <1>5, Accounts DEF SameLegacy, Move!Mine
  <1>. QED
    BY <1>5, <1>8, <1>11, <1>12, SyncKeeps DEF DataOk, Move!EndSync

LEMMA AttributionStep ==
  ASSUME AttributionBounds, AttributionInv, [Move!Next]_Move!vars
  PROVE  AttributionInv'
  <1>1. CASE UNCHANGED Move!vars
    <2>1. UNCHANGED <<db, lock, pc, seen, answer, moved>>
      BY <1>1 DEF Move!vars
    <2>2. DataOk(db) /\ SameLegacy(db, db)
      BY DataInv DEF SameLegacy
    <2>. QED
      BY <2>1, <2>2, SyncKeeps
  <1>2. ASSUME NEW r \in Actor,
               Move!Busy(r) \/ Move!TakeLock(r) \/ Move!Plan(r) \/ Move!Apply(r)
               \/ Move!Commit(r) \/ Move!CommitLost(r)
                 \/ Move!Stop(r) \/ Move!Release(r) \/ Move!Close(r) \/ Move!Die(r)
        PROVE  AttributionInv'
    BY <1>2, BusyStep, TakeLockStep, PlanStep, ApplyStep, CommitStep, CommitLostStep, StopStep,
       ReleaseStep, CloseStep, DieStep
  <1>. QED
    BY <1>1, <1>2, BeginSyncStep, StorePageStep, EndSyncStep DEF Move!Next

LEMMA AttributionGives == AttributionInv => Move!MovedWhole
  BY DEF AttributionInv, Move!MovedWhole, Move!ToldWhenMoved, Told

AttributionFocus == focus = "legacy" => AttributionInv

LEMMA AttributionAlways == MCSpec => []AttributionFocus
  <1>1. AttributionBounds
    BY BatchesAssumption DEF AttributionBounds, Move!Free, Move!NoBatch
  <1>2. MCInit => AttributionFocus
    BY <1>1, AttributionInit DEF MCInit, AttributionFocus
  <1>3. ASSUME AttributionFocus, [MCNext]_MCvars
        PROVE  AttributionFocus'
    <2>. SUFFICES ASSUME focus = "legacy"
                  PROVE  AttributionInv'
      BY <1>3, FocusStays DEF AttributionFocus
    <2>1. CASE MCNext
      BY <1>1, <1>3, <2>1, AttributionStep DEF MCNext, AttributionFocus
    <2>2. CASE UNCHANGED MCvars
      <3>1. UNCHANGED Move!vars
        BY <2>2 DEF MCvars, OfLegacy, Move!vars
      <3>. QED
        BY <1>1, <1>3, <3>1, AttributionStep DEF AttributionFocus
    <2>. QED
      BY <1>3, <2>1, <2>2
  <1>. QED
    BY <1>2, <1>3, PTL DEF MCSpec

\* LegacyAttribution: whatever fails, whoever else runs the command, and whatever the sync
\* of the target stores meanwhile, all rows move or none, rows stay with the account of
\* their batch, and the answer does not deny a move.
THEOREM MovedAsWhole == MCSpec => []MovedWhole
  <1>1. AttributionFocus => MovedWhole
    BY AttributionGives DEF AttributionFocus, MovedWhole
  <1>. QED
    BY <1>1, AttributionAlways, PTL

\* LegacyAttribution: the lock is free or a run's.
LockTyped == focus = "legacy" => lock \in Actor \cup {Move!Free}

LEMMA LockAlways == MCSpec => []LockTyped
  <1>1. MCInit => LockTyped
    BY DEF MCInit, LockTyped, Move!Init
  <1>2. ASSUME LockTyped, [MCNext]_MCvars
        PROVE  LockTyped'
    <2>. SUFFICES ASSUME focus = "legacy"
                  PROVE  lock' \in Actor \cup {Move!Free}
      BY <1>2, FocusStays DEF LockTyped
    <2>1. lock \in Actor \cup {Move!Free}
      BY <1>2 DEF LockTyped
    <2>2. CASE MCNext
      <3>1. Move!Next
        BY <2>2 DEF MCNext
      <3>2. ASSUME NEW r \in Actor,
                   \/ Move!Busy(r) \/ Move!TakeLock(r) \/ Move!Plan(r) \/ Move!Apply(r)
                   \/ Move!Commit(r) \/ Move!CommitLost(r) \/ Move!Stop(r) \/ Move!Release(r)
                   \/ Move!Close(r) \/ Move!Die(r)
            PROVE  lock' \in {lock, r, Move!Free}
        BY <3>2 DEF Move!Busy, Move!TakeLock, Move!Plan, Move!Apply, Move!Commit,
           Move!CommitLost, Move!Stop, Move!Release, Move!Close, Move!Die
      <3>3. Move!BeginSync \/ Move!StorePage \/ Move!EndSync => lock' = lock
        BY DEF Move!BeginSync, Move!StorePage, Move!EndSync
      <3>. QED
        BY <2>1, <3>1, <3>2, <3>3 DEF Move!Next
    <2>3. CASE UNCHANGED MCvars
      BY <2>1, <2>3 DEF MCvars, OfLegacy
    <2>. QED
      BY <1>2, <2>2, <2>3
  <1>. QED
    BY <1>1, <1>2, PTL DEF MCSpec

LEMMA AttributionTyped ==
  ASSUME AttributionInv, lock \in Actor \cup {Move!Free}
  PROVE  Move!TypeOK
  <1>1. /\ db \in TablesOf /\ pc \in [Actor -> Stages] /\ moved \subseteq Actor
    BY DEF AttributionInv, AttributionTypes
  <1>2. db.raw \subseteq RowOf /\ db.history \subseteq RowOf
        /\ db.head \in [AnyBatch -> HeaderOf] /\ db.point \in [Account -> AnyBatch \cup {Move!NoBatch}]
    BY <1>1 DEF TablesOf
  <1>3. \A x \in db.raw \cup db.history :
          /\ x.account \in Account /\ x.version \in Version /\ x.batch \in AnyBatch
    BY <1>2 DEF RowOf
  <1>4. \A b \in DOMAIN db.head : db.head[b].account \in Account
    BY <1>2 DEF HeaderOf
  <1>5. Account = {Move!Legacy, Move!Target} /\ AnyBatch = Batch \cup {b2}
    BY DEF Account, AnyBatch
  <1>. QED
    BY <1>1, <1>2, <1>3, <1>4, <1>5 DEF Move!TypeOK, Stages

-----------------------------------------------------------------------------
(* RateLimiter, which the composition extends.                              *)

Stage == {"idle", "ask", "take", "sent", "told", "defer"}

CallState == [stage : Stage, key : Key, now : Nat, wait : Nat,
              attempt : 0 .. Retries, renewed : BOOLEAN]

LimiterTypes ==
  /\ clock \in 0 .. MaxClock
  /\ next \in [Key -> Int]
  /\ slot \in [Key -> Int]
  /\ cool \in [Key -> Int]
  /\ call \in [Caller -> CallState]

\* A time that was read lies in the past.
ReadBefore == \A c \in Caller : call[c].now <= clock

\* The row remembers every slot and every cooldown.
RowRemembers == \A k \in Key : slot[k] <= next[k] /\ cool[k] <= next[k]

RateInv == LimiterTypes /\ ReadBefore /\ RowRemembers

\* Calls.

LEMMA IdleTyped == Idle \in CallState
  BY PaceAssumption DEF Idle, CallState, Stage, Key

\* Whatever a failed attempt leaves behind has no time and no wait.
LEMMA AfterFailureTyped ==
  ASSUME LimiterTypes, NEW c \in Caller
  PROVE  AfterFailure(c) \in CallState /\ AfterFailure(c).now = 0
         /\ AfterFailure(c).stage \in {"ask", "idle"}
  <1>1. call[c].attempt \in 0 .. Retries
    BY DEF LimiterTypes, CallState
  <1>2. CASE call[c].attempt \in 1 .. Retries - 1
    <2>1. call[c].attempt + 1 \in 0 .. Retries
      BY <1>2, PaceAssumption
    <2>2. AfterFailure(c) = [stage |-> "ask", key |-> "api", now |-> 0, wait |-> 0,
                             attempt |-> call[c].attempt + 1, renewed |-> FALSE]
      BY <1>2 DEF AfterFailure, Idle
    <2>3. QED
      BY <2>1, <2>2 DEF CallState, Stage, Key
  <1>3. CASE call[c].attempt \notin 1 .. Retries - 1
    BY <1>3, IdleTyped DEF AfterFailure, Idle
  <1>4. QED
    BY <1>2, <1>3

\* A caller that goes on with a proper state whose time is in the past keeps LimiterTypes and
\* ReadBefore, as long as clock stands still.
LEMMA BecomeTyped ==
  ASSUME LimiterTypes, ReadBefore, NEW c \in Caller, NEW state \in CallState,
         state.now <= clock, Become(c, state), clock' = clock
  PROVE  call' \in [Caller -> CallState] /\ ReadBefore'
  <1>1. call' = [call EXCEPT ![c] = state]
    BY DEF Become
  <1>2. call' \in [Caller -> CallState]
    BY <1>1 DEF LimiterTypes
  <1>3. ASSUME NEW d \in Caller
        PROVE  call'[d].now <= clock'
    BY <1>1, <1>3 DEF LimiterTypes, ReadBefore
  <1>4. QED
    BY <1>2, <1>3 DEF ReadBefore

\* A row used for the first time counts as the time the transaction works with.
LEMMA RowValue ==
  ASSUME LimiterTypes, RowRemembers, NEW k \in Key, NEW t \in Nat
  PROVE  Row(k, t) \in Int /\ slot[k] <= Row(k, t) /\ cool[k] <= Row(k, t)
  BY DEF LimiterTypes, RowRemembers, Row, Absent

\* The invariant.

LEMMA RateInit == Init => RateInv
  <1> SUFFICES ASSUME Init
               PROVE  RateInv
    OBVIOUS
  <1>1. LimiterTypes
    BY IdleTyped, PaceAssumption DEF Init, LimiterTypes, Absent
  <1>2. ReadBefore
    <2>1. Idle.now = 0
      BY DEF Idle
    <2>2. clock = 0 /\ \A c \in Caller : call[c] = Idle
      BY DEF Init
    <2>3. ASSUME NEW c \in Caller
          PROVE  call[c].now = 0
      BY <2>1, <2>2, Zenon
    <2>4. ASSUME NEW c \in Caller
          PROVE  call[c].now <= clock
      <3>1. call[c].now = 0 /\ clock = 0
        BY <2>2, <2>3
      <3>2. QED
        BY <3>1
    <2>5. QED
      BY <2>4 DEF ReadBefore
  <1>3. RowRemembers
    BY DEF Init, RowRemembers, Absent
  <1>4. QED
    BY <1>1, <1>2, <1>3 DEF RateInv

\* The steps that only move a caller on.
CallerMoves(c) ==
  \/ Begin(c) \/ ReadNow(c) \/ Wait(c) \/ Succeed(c) \/ TellToSlowDown(c)
  \/ Unauthorized(c) \/ Break(c) \/ Die(c)

LEMMA CallerMovesKeeps ==
  ASSUME RateInv, NEW c \in Caller, CallerMoves(c)
  PROVE  RateInv'
  <1> USE DEF RateInv
  <1>0. UNCHANGED <<clock, next, slot, cool>>
    BY DEF CallerMoves, Begin, ReadNow, Wait, Succeed, TellToSlowDown, Unauthorized, Break, Die
  <1>1. call[c] \in CallState /\ call[c].now <= clock /\ clock \in Nat
    BY DEF LimiterTypes, ReadBefore
  <1>2. \E state \in CallState : state.now <= clock /\ Become(c, state)
    <2>1. CASE Begin(c)
      <3>1. 1 \in 0 .. Retries
        BY PaceAssumption
      <3> DEFINE forToken == [Idle EXCEPT !.stage = "ask", !.key = "token"]
                 forCall == [Idle EXCEPT !.stage = "ask", !.attempt = 1]
      <3>2. forToken \in CallState /\ forCall \in CallState
        BY <3>1, IdleTyped DEF CallState, Stage, Key
      <3>3. forToken.now = 0 /\ forCall.now = 0
        BY DEF Idle
      <3>4. Become(c, forToken) \/ Become(c, forCall)
        BY <2>1 DEF Begin
      <3> HIDE DEF forToken, forCall
      <3>5. QED
        BY <1>1, <3>2, <3>3, <3>4
    <2>2. CASE ReadNow(c)
      <3> DEFINE toTake == [call[c] EXCEPT !.stage = "take", !.now = clock, !.wait = 0]
                 toDefer == [call[c] EXCEPT !.stage = "defer", !.now = clock]
      <3>1. toTake \in CallState /\ toDefer \in CallState
        BY <1>1 DEF CallState, Stage
      <3>2. toTake.now = clock /\ toDefer.now = clock
        BY <1>1 DEF CallState
      <3>3. Become(c, toTake) \/ Become(c, toDefer)
        BY <2>2 DEF ReadNow
      <3> HIDE DEF toTake, toDefer
      <3>4. QED
        BY <1>1, <3>1, <3>2, <3>3
    <2>3. CASE Wait(c)
      <3> DEFINE k == call[c].key
                 w == clock + Row(k, call[c].now) - call[c].now
      <3>1. k \in Key /\ call[c].now \in Nat
        BY <1>1 DEF CallState
      <3>2. Row(k, call[c].now) \in Int
        BY <3>1, RowValue
      <3>3. Row(k, call[c].now) > call[c].now
        BY <2>3 DEF Wait
      <3> HIDE DEF k
      <3>4. w \in Nat
        BY <1>1, <3>1, <3>2, <3>3
      <3> HIDE DEF w
      <3>5. [call[c] EXCEPT !.stage = "ask", !.now = 0, !.wait = w] \in CallState
        BY <1>1, <3>4 DEF CallState, Stage
      <3>6. [call[c] EXCEPT !.stage = "ask", !.now = 0, !.wait = w].now <= clock
        BY <1>1 DEF CallState
      <3>7. Become(c, [call[c] EXCEPT !.stage = "ask", !.now = 0, !.wait = w])
        BY <2>3 DEF Wait, k, w
      <3>8. QED
        BY <3>5, <3>6, <3>7
    <2>4. CASE Succeed(c)
      <3>1. 1 \in 0 .. Retries
        BY PaceAssumption
      <3> DEFINE next1 == [call[c] EXCEPT !.stage = "ask", !.key = "api",
                             !.attempt = IF @ = 0 THEN 1 ELSE @,
                             !.renewed = call[c].attempt # 0]
      <3>2. next1 \in CallState /\ next1.now <= clock
        BY <1>1, <3>1 DEF CallState, Stage, Key
      <3>3. Idle.now <= clock
        BY <1>1 DEF Idle
      <3>4. QED
        BY <2>4, <3>2, <3>3, IdleTyped DEF Succeed
    <2>5. CASE TellToSlowDown(c)
      <3>1. PICK s \in RetryAfter : Become(c, [call[c] EXCEPT !.stage = "told", !.wait = s])
        BY <2>5 DEF TellToSlowDown
      <3>2. s \in Nat
        BY PaceAssumption DEF RetryAfter
      <3>3. [call[c] EXCEPT !.stage = "told", !.wait = s] \in CallState
        BY <1>1, <3>2 DEF CallState, Stage
      <3>4. [call[c] EXCEPT !.stage = "told", !.wait = s].now <= clock
        BY <1>1 DEF CallState
      <3>5. QED
        BY <3>1, <3>3, <3>4
    <2>6. CASE Unauthorized(c)
      <3>1. [call[c] EXCEPT !.stage = "ask", !.key = "token"] \in CallState
        BY <1>1 DEF CallState, Stage, Key
      <3>2. [call[c] EXCEPT !.stage = "ask", !.key = "token"].now <= clock
        BY <1>1 DEF CallState
      <3>3. QED
        BY <2>6, <3>1, <3>2 DEF Unauthorized
    <2>7. CASE Break(c)
      BY <2>7, <1>1, AfterFailureTyped DEF Break
    <2>8. CASE Die(c)
      BY <2>8, <1>1, IdleTyped DEF Die, Idle
    <2>9. QED
      BY <2>1, <2>2, <2>3, <2>4, <2>5, <2>6, <2>7, <2>8 DEF CallerMoves
  <1>3. call' \in [Caller -> CallState] /\ ReadBefore'
    BY <1>0, <1>2, BecomeTyped
  <1>4. LimiterTypes' /\ RowRemembers'
    BY <1>0, <1>3 DEF LimiterTypes, RowRemembers
  <1>5. QED
    BY <1>3, <1>4

\* A slot is taken from a row that is due: the row moves behind the new slot and stays
\* behind every cooldown.
LEMMA TakeKeeps ==
  ASSUME RateInv, NEW c \in Caller, Take(c)
  PROVE  RateInv'
  <1> USE DEF RateInv
  <1> DEFINE k == call[c].key
             t == call[c].now
             until == t + Interval[k]
             after == [call[c] EXCEPT !.stage = "sent", !.now = 0, !.wait = 0]
  <1>1. call[c] \in CallState /\ k \in Key /\ t \in Nat /\ clock \in Nat
    BY DEF LimiterTypes, CallState
  <1>2. Interval[k] \in Nat /\ until \in Int /\ until >= t
    BY <1>1, PaceAssumption
  <1>3. /\ Row(k, t) <= t
        /\ next' = [next EXCEPT ![k] = until]
        /\ slot' = [slot EXCEPT ![k] = until]
        /\ Become(c, after)
        /\ clock' = clock /\ cool' = cool
    BY DEF Take, Go
  <1>4. after \in CallState /\ after.now <= clock
    <2>1. after.now = 0
      BY <1>1 DEF CallState
    <2>2. after \in CallState
      BY <1>1 DEF CallState, Stage
    <2>3. QED
      BY <1>1, <2>1, <2>2
  <1>5. Row(k, t) \in Int /\ cool[k] <= Row(k, t)
    BY <1>1, RowValue
  <1> HIDE DEF k, t, until, after
  <1>6. call' \in [Caller -> CallState] /\ ReadBefore'
    BY <1>3, <1>4, BecomeTyped
  <1>7. LimiterTypes'
    BY <1>1, <1>2, <1>3, <1>6 DEF LimiterTypes
  <1>8. RowRemembers'
    <2> SUFFICES ASSUME NEW j \in Key
                 PROVE  slot'[j] <= next'[j] /\ cool'[j] <= next'[j]
      BY DEF RowRemembers
    <2>1. CASE j = k
      <3>1. next'[j] = until /\ slot'[j] = until /\ cool'[j] = cool[k]
        BY <2>1, <1>3 DEF LimiterTypes
      <3>2. cool[k] \in Int
        BY <1>1 DEF LimiterTypes
      <3>3. QED
        BY <3>1, <3>2, <1>1, <1>2, <1>3, <1>5
    <2>2. CASE j # k
      BY <2>2, <1>3 DEF LimiterTypes, RowRemembers
    <2>3. QED
      BY <2>1, <2>2
  <1>9. QED
    BY <1>6, <1>7, <1>8

\* A cooldown only moves the row back.
LEMMA DeferKeeps ==
  ASSUME RateInv, NEW c \in Caller, Defer(c)
  PROVE  RateInv'
  <1> USE DEF RateInv
  <1> DEFINE k == call[c].key
             t == call[c].now
             until == t + call[c].wait
             due == Row(k, t)
  <1>1. call[c] \in CallState /\ k \in Key /\ t \in Nat /\ until \in Nat /\ clock \in Nat
    BY DEF LimiterTypes, CallState
  <1>2. due \in Int /\ slot[k] <= due /\ cool[k] <= due
    BY <1>1, RowValue
  <1>3. /\ next' = [next EXCEPT ![k] = Later(due, until)]
        /\ cool' = [cool EXCEPT ![k] = Later(@, until)]
        /\ Become(c, AfterFailure(c))
        /\ clock' = clock /\ slot' = slot
    BY DEF Defer
  <1>4. AfterFailure(c) \in CallState /\ AfterFailure(c).now <= clock
    BY <1>1, AfterFailureTyped
  <1> HIDE DEF k, t, until, due
  <1>5. call' \in [Caller -> CallState] /\ ReadBefore'
    BY <1>3, <1>4, BecomeTyped
  <1>6. Later(due, until) \in Int /\ Later(cool[k], until) \in Int
    BY <1>1, <1>2 DEF Later, LimiterTypes
  <1>7. LimiterTypes'
    BY <1>3, <1>5, <1>6 DEF LimiterTypes
  <1>8. RowRemembers'
    <2> SUFFICES ASSUME NEW j \in Key
                 PROVE  slot'[j] <= next'[j] /\ cool'[j] <= next'[j]
      BY DEF RowRemembers
    <2>1. CASE j = k
      <3>1. next'[j] = Later(due, until) /\ cool'[j] = Later(cool[k], until)
            /\ slot'[j] = slot[k]
        BY <2>1, <1>1, <1>3 DEF LimiterTypes
      <3>2. slot[k] \in Int /\ cool[k] \in Int
        BY <1>1 DEF LimiterTypes
      <3>3. QED
        BY <3>1, <3>2, <1>1, <1>2 DEF Later
    <2>2. CASE j # k
      BY <2>2, <1>3 DEF LimiterTypes, RowRemembers
    <2>3. QED
      BY <2>1, <2>2
  <1>9. QED
    BY <1>5, <1>7, <1>8

LEMMA RateStep == RateInv /\ [Next]_vars => RateInv'
  <1> SUFFICES ASSUME RateInv, [Next]_vars
               PROVE  RateInv'
    OBVIOUS
  <1>1. ASSUME NEW c \in Caller, CallerMoves(c)
        PROVE  RateInv'
    BY <1>1, CallerMovesKeeps
  <1>2. ASSUME NEW c \in Caller, Take(c)
        PROVE  RateInv'
    BY <1>2, TakeKeeps
  <1>3. ASSUME NEW c \in Caller, Defer(c)
        PROVE  RateInv'
    BY <1>3, DeferKeeps
  <1>4. CASE Tick
    <2>1. clock' \in 0 .. MaxClock /\ clock <= clock' /\ UNCHANGED <<next, call, slot, cool>>
      BY <1>4, PaceAssumption DEF Tick, RateInv, LimiterTypes
    <2>2. ReadBefore'
      BY <2>1, PaceAssumption DEF RateInv, ReadBefore, LimiterTypes, CallState
    <2>3. LimiterTypes' /\ RowRemembers'
      BY <2>1 DEF RateInv, LimiterTypes, RowRemembers
    <2>4. QED
      BY <2>2, <2>3 DEF RateInv
  <1>5. CASE UNCHANGED vars
    BY <1>5 DEF vars, RateInv, LimiterTypes, ReadBefore, RowRemembers
  <1>6. QED
    BY <1>1, <1>2, <1>3, <1>4, <1>5 DEF Next, CallerMoves

THEOREM RateAlways == Spec => []RateInv
  BY RateInit, RateStep, PTL DEF Spec

\* The properties.

\* The rows and calls hold values of their types, and a transaction never works with a
\* time that lies ahead (acquire and defer read the time before they lock the row).
THEOREM TypeCorrect == Spec => []TypeOK
  <1>1. RateInv => TypeOK
    BY DEF RateInv, LimiterTypes, ReadBefore, TypeOK, CallState
  <1>2. QED
    BY <1>1, RateAlways, PTL

\* Only a caller that takes a slot goes on to send.
LEMMA SentByTake ==
  ASSUME RateInv, [Next]_vars, NEW c \in Caller, At(c, "take"), call'[c].stage = "sent"
  PROVE  Take(c)
  <1>1. call[c] \in CallState /\ call \in [Caller -> CallState]
    BY DEF RateInv, LimiterTypes
  <1>2. ASSUME NEW d \in Caller, NEW state, Become(d, state), d # c
        PROVE  FALSE
    BY <1>1, <1>2 DEF Become, At
  <1>3. ASSUME NEW d \in Caller, Begin(d) \/ ReadNow(d) \/ Defer(d) \/ Succeed(d)
                                 \/ TellToSlowDown(d) \/ Unauthorized(d) \/ Break(d)
        PROVE  FALSE
    <2>1. d # c
      BY <1>3 DEF Begin, ReadNow, Defer, Succeed, TellToSlowDown, Unauthorized, Break, At
    <2>2. \E state : Become(d, state)
      BY <1>3 DEF Begin, ReadNow, Defer, Succeed, TellToSlowDown, Unauthorized, Break
    <2>3. QED
      BY <2>1, <2>2, <1>2
  <1>4. ASSUME NEW d \in Caller, Wait(d)
        PROVE  FALSE
    <2>1. CASE d = c
      BY <2>1, <1>1, <1>4 DEF Wait, Become, CallState
    <2>2. CASE d # c
      BY <2>2, <1>2, <1>4 DEF Wait
    <2>3. QED
      BY <2>1, <2>2
  <1>5. ASSUME NEW d \in Caller, Die(d)
        PROVE  FALSE
    <2>1. CASE d = c
      BY <2>1, <1>1, <1>5 DEF Die, Become, Idle
    <2>2. CASE d # c
      BY <2>2, <1>2, <1>5 DEF Die
    <2>3. QED
      BY <2>1, <2>2
  <1>6. ASSUME NEW d \in Caller, Take(d)
        PROVE  Take(c)
    <2>1. CASE d = c
      BY <2>1, <1>6
    <2>2. CASE d # c
      BY <2>2, <1>2, <1>6 DEF Take, Go
    <2>3. QED
      BY <2>1, <2>2
  <1>7. CASE Tick \/ UNCHANGED vars
    BY <1>7 DEF Tick, vars, At
  <1>8. QED
    BY <1>3, <1>4, <1>5, <1>6, <1>7 DEF Next

\* acquire never gives a slot within the interval of an earlier one nor before a cooldown
\* that defer noted has passed, for every number of callers, pace and cooldown.
THEOREM SlotsSpaced == Spec => SlotsAreSpaced
  <1>1. ASSUME RateInv, [Next]_vars, NEW c \in Caller, At(c, "take"), call'[c].stage = "sent"
        PROVE  call[c].now >= slot[call[c].key] /\ call[c].now >= cool[call[c].key]
    <2>1. Take(c)
      BY <1>1, SentByTake
    <2>2. call[c].key \in Key /\ call[c].now \in Nat
      BY <1>1 DEF RateInv, LimiterTypes, CallState
    <2>3. Row(call[c].key, call[c].now) <= call[c].now
      BY <2>1 DEF Take
    <2>4. /\ Row(call[c].key, call[c].now) \in Int
          /\ slot[call[c].key] <= Row(call[c].key, call[c].now)
          /\ cool[call[c].key] <= Row(call[c].key, call[c].now)
      BY <1>1, <2>2, RowValue DEF RateInv
    <2>5. slot[call[c].key] \in Int /\ cool[call[c].key] \in Int
      BY <1>1, <2>2 DEF RateInv, LimiterTypes
    <2>6. QED
      BY <2>2, <2>3, <2>4, <2>5
  <1>2. RateInv /\ [Next]_vars =>
          [\A c \in Caller :
             At(c, "take") /\ call'[c].stage = "sent" =>
               LET k == call[c].key IN
               call[c].now >= slot[k] /\ call[c].now >= cool[k]]_vars
    BY <1>1
  <1>3. QED
    BY <1>2, RateAlways, PTL DEF Spec, SlotsAreSpaced

\* A step of the composition is one of the limiter, or leaves it alone.
LEMMA LimiterFollowed == MCSpec => Spec
  <1>1. MCInit => Init
    BY DEF MCInit
  <1>2. ASSUME [MCNext]_MCvars
        PROVE  [Next]_vars
    BY <1>2 DEF MCNext, MCvars, Limiter, vars
  <1>. QED
    BY <1>1, <1>2, PTL DEF MCSpec, Spec

\* RateLimiter: no slot is given within the interval of an earlier one nor before a cooldown
\* that was noted has passed.
THEOREM SlotsSpacedHere == MCSpec => SlotsAreSpaced
  BY LimiterFollowed, SlotsSpaced

-----------------------------------------------------------------------------
(* The types of all.                                                        *)

ParamRows == focus = "params" => ParamTypes /\ ParamRunOk /\ ParamKeysOk

LEMMA ParamRowsAlways == MCSpec => []ParamRows
  <1>1. ParamBounds
    BY ParamsAssumption DEF ParamBounds
  <1>2. MCInit => ParamRows
    BY <1>1, ParamRowsStart DEF MCInit, ParamRows
  <1>3. ASSUME ParamRows, [MCNext]_MCvars
        PROVE  ParamRows'
    <2>. SUFFICES ASSUME focus = "params"
                  PROVE  ParamTypes' /\ ParamRunOk' /\ ParamKeysOk'
      BY <1>3, FocusStays DEF ParamRows
    <2>1. [Params!Next]_Params!vars
      BY <1>3 DEF MCNext, MCvars, OfParams, Params!vars
    <2>. QED
      BY <1>1, <1>3, <2>1, ParamRowsStep DEF ParamRows
  <1>. QED
    BY <1>2, <1>3, PTL DEF MCSpec

\* Every module's state stays what it is: the tables, rows, plans, clocks and runs of all
\* components, whatever fails, is lost or is restarted.  There is a day to fetch, and no
\* actor is the value that stands for no job.
THEOREM AllTyped ==
  ASSUME Actors, Calendar
  PROVE  MCSpec => []TypesOK
  <1>1. TypeOK /\ UsersInv /\ SyncInv /\ ParamRows /\ CalendarFocus /\ InputsInv /\ RegistryInv
          /\ AttributionFocus /\ LockTyped => TypesOK
    <2>. SUFFICES ASSUME TypeOK, UsersInv, SyncInv, ParamRows, CalendarFocus, InputsInv,
                         RegistryInv, AttributionFocus, LockTyped
                  PROVE  TypesOK
      OBVIOUS
    <2>1. focus = "users" => Users!TypeOK
      BY Users!Promises DEF UsersInv
    <2>2. focus = "sync" => Sync!TypeOK
      BY Sync!Promises DEF SyncInv
    <2>3. focus = "params" => Params!TypeOK
      BY DEF ParamRows, ParamTypes, ParamRunOk, Params!TypeOK
    <2>4. focus = "backfill" => Backfill!TypeOK
      BY BackfillTyped DEF CalendarFocus
    <2>5. focus = "inputs" => Inputs!TypeOK
      BY InputsPromise DEF InputsInv
    <2>6. focus = "registry" => Registry!TypeOK
      BY Registry!Promises DEF RegistryInv
    <2>7. focus = "legacy" => Move!TypeOK
      BY AttributionTyped DEF AttributionFocus, LockTyped
    <2>. QED
      BY <2>1, <2>2, <2>3, <2>4, <2>5, <2>6, <2>7 DEF TypesOK
  <1>2. MCSpec => []TypeOK
    BY LimiterFollowed, TypeCorrect
  <1>. QED
    BY <1>1, <1>2, UsersAlways, SyncAlways, ParamRowsAlways, CalendarAlways, InputsAlways,
       RegistryAlways, AttributionAlways, LockAlways, PTL

=============================================================================
