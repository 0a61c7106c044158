------------------------- MODULE LegacyAttribution -------------------------
(***************************************************************************)
(* The command that gives the sale returns of account 0, stored before      *)
(* there were accounts, to a real one                                       *)
(* (legacy_sale_return_attribution_service.py): one connection, the global  *)
(* named lock, one transaction that plans, moves every row, checks the      *)
(* result and commits, and an answer that tells the operator whether the    *)
(* database must be restored.                                               *)
(*                                                                          *)
(* Beside it runs a sync of the target account.  In production it holds a   *)
(* lock of its account, which does not exclude the command.  Nothing writes *)
(* rows of account 0: main.py refuses this API.                             *)
(*                                                                          *)
(* A table is a set of rows.  The schema check, the account lookup and the  *)
(* checks for missing and mock batches stand in the failures of Stop.       *)
(***************************************************************************)
EXTENDS Integers, FiniteSets

CONSTANTS
  Run,       \* runs of the command
  Batch,     \* batches of account 0
  NewBatch,  \* the batch of the sync beside it
  Version    \* contents of the one record there is

Legacy == 0
Target == 1
Free == "free"
NoBatch == "none"
Api == "sale_return_order_page"
OtherApi == "other"

VARIABLES
  db,      \* the committed tables, see Tables
  lock,    \* the holder of the named lock
  pc,      \* where a run is
  seen,    \* its snapshot: the tables its plan was made from
  answer,  \* what it printed: status, code, restoreRequired
  moved    \* the runs whose transaction was committed

vars == <<db, lock, pc, seen, answer, moved>>

-----------------------------------------------------------------------------
(* The tables: batch headers (account, ended, number of APIs, whether a job  *)
(* of the web refers to it), the snapshot and its history, the logs and      *)
(* failed requests of batches, and the last batch of each checkpoint.        *)

Header(account, ended, apis, job) ==
  [account |-> account, ended |-> ended, apis |-> apis, job |-> job]

Absent == Header(Legacy, FALSE, 0, FALSE)

Content(account, v, b) == [account |-> account, version |-> v, batch |-> b]

Child(table, account, api, b) ==
  [table |-> table, account |-> account, api |-> api, batch |-> b]

\* An ended batch logged each of its APIs; one whose process died is running for ever.
LogsOf(head) ==
  {Child("log", Legacy, api, b) : api \in {Api}, b \in {c \in Batch : head[c].ended}}
    \cup {Child("log", Legacy, OtherApi, b) : b \in {c \in Batch : head[c].apis = 2}}

Tables(head, raw, history, child, last) ==
  [head |-> [b \in Batch \cup {NewBatch} |-> IF b = NewBatch THEN Absent ELSE head[b]],
   raw |-> raw, history |-> history, child |-> child,
   point |-> [a \in {Legacy, Target} |-> IF a = Legacy THEN last ELSE NoBatch]]

NoPlan == Tables([b \in Batch |-> Absent], {}, {}, {}, NoBatch)

AtMostOne(S) == {{}} \cup {{x} : x \in S}

\* What older releases left: history came after the snapshots and may lack versions.
LegacyHeads == {Header(Legacy, TRUE, 1, FALSE), Header(Legacy, TRUE, 2, FALSE),
                Header(Legacy, FALSE, 1, FALSE)}
LegacyContents == {Content(Legacy, v, b) : v \in Version, b \in Batch}
LegacyFailures == {Child("failed", Legacy, Api, b) : b \in Batch}

LegacyStock ==
  [head : [Batch -> LegacyHeads], raw : AtMostOne(LegacyContents),
   history : AtMostOne(LegacyContents), failed : AtMostOne(LegacyFailures),
   last : Batch \cup {NoBatch}]

LegacyTables ==
  {Tables(old.head, old.raw, old.history, LogsOf(old.head) \cup old.failed, old.last) :
     old \in LegacyStock}

Unanswered == [status |-> "none", code |-> "none", restore |-> FALSE]

Init ==
  /\ db \in LegacyTables
  /\ lock = Free
  /\ pc = [r \in Run |-> "start"]
  /\ seen = [r \in Run |-> NoPlan]
  /\ answer = [r \in Run |-> Unanswered]
  /\ moved = {}

-----------------------------------------------------------------------------
(* The plan.                                                                *)

Mine(rows) == {x \in rows : x.account = Legacy}
MyChildren(d) == {c \in Mine(d.child) : c.api = Api}

\* A slip: batches that left no data are forgotten.
CandidatesWithData(d) ==
  ({x.batch : x \in Mine(d.raw) \cup Mine(d.history)} \cup {d.point[Legacy]}) \ {NoBatch}

\* CANDIDATE_BATCH_BODY
Candidates(d) ==
  ({x.batch : x \in Mine(d.raw) \cup Mine(d.history) \cup MyChildren(d)}
     \cup {d.point[Legacy]}) \ {NoBatch}

Stores(rows, x) == \E y \in rows : y.account = x.account /\ y.version = x.version

Ours(x) == [x EXCEPT !.account = Target]

\* BASELINE_RAW_IDS_SQL: snapshots whose content neither history has.
Baseline(d) == {x \in Mine(d.raw) : ~Stores(d.history, x) /\ ~Stores(d.history, Ours(x))}

\* A terminal batch of one API, with one log, none of it somebody else's.
Whole(d, b, account) ==
  /\ d.head[b] = Header(account, TRUE, 1, FALSE)
  /\ Cardinality({c \in d.child : c.table = "log" /\ c.batch = b}) = 1
  /\ \A c \in d.child : c.batch = b => c.account = account /\ c.api = Api
  /\ \A x \in d.raw \cup d.history : x.batch = b => x.account = account
  /\ \A a \in DOMAIN d.point : d.point[a] = b => a = account

\* The unique keys of the three tables.
Collides(d) ==
  \/ \E x \in Mine(d.raw), y \in d.raw : y.account = Target
  \/ \E x \in Mine(d.history) : Stores(d.history, Ours(x))
  \/ d.point[Legacy] # NoBatch /\ d.point[Target] # NoBatch

\* evaluate_plan
Fits(d) == ~Collides(d) /\ \A b \in Candidates(d) : Whole(d, b, Legacy)

-----------------------------------------------------------------------------
(* The move.                                                                *)

Moved(rows) == {IF x.account = Legacy THEN Ours(x) ELSE x : x \in rows}

\* apply_attribution: history, missing baselines, snapshots, logs, checkpoint, batches of
\* the plan p, all statements reading what is committed now.
After(d, p) ==
  LET history == Moved(d.history)
      seeded == {Ours(x) : x \in Baseline(p) \cap Mine(d.raw)}
  IN  [head |-> [b \in DOMAIN d.head |->
                   IF b \in Candidates(p) /\ d.head[b].account = Legacy
                   THEN Ours(d.head[b]) ELSE d.head[b]],
       raw |-> Moved(d.raw),
       history |-> history \cup {x \in seeded : ~Stores(history, x)},
       child |-> (d.child \ MyChildren(d)) \cup {Ours(c) : c \in MyChildren(d)},
       point |-> IF d.point[Legacy] = NoBatch THEN d.point
                 ELSE [a \in DOMAIN d.point |->
                         IF a = Target THEN d.point[Legacy] ELSE NoBatch]]

\* What PLAN_SUMMARY_SQL counts of account 0.
Counts(d) ==
  <<Cardinality(Mine(d.raw)), Cardinality(Mine(d.history)), Cardinality(MyChildren(d)),
    d.point[Legacy] = NoBatch>>

\* evaluate_postflight: the rows each statement changed are as many as planned.
SameCounts(d, p) ==
  /\ Counts(d) = Counts(p)
  /\ \A x \in Baseline(p) : ~Stores(Moved(d.history), Ours(x))

\* REMAINING_LEGACY_SQL
Remaining(d) == Mine(d.raw) \cup Mine(d.history) \cup MyChildren(d)

\* BATCH_POSTFLIGHT_SQL
BatchesMoved(d, p) == \A b \in Candidates(p) : Whole(d, b, Target)

\* BASELINE_POSTFLIGHT_SQL
BaselinesStored(d, p) == \A x \in Baseline(p) : Stores(d.history, Ours(x))

Passes(d, p) ==
  /\ SameCounts(d, p)
  /\ Remaining(After(d, p)) = {}
  /\ BatchesMoved(After(d, p), p)
  /\ BaselinesStored(After(d, p), p)

-----------------------------------------------------------------------------
(* One run.                                                                 *)

Go(r, stage) == pc' = [pc EXCEPT ![r] = stage]
Forget(r) == seen' = [seen EXCEPT ![r] = NoPlan]

Answer(r, status, code, restore) ==
  answer' = [answer EXCEPT ![r] = [status |-> status, code |-> code, restore |-> restore]]

Busy(r) ==
  /\ pc[r] = "start" /\ lock # Free
  /\ Answer(r, "blocked", "LOCK_BUSY", FALSE) /\ Go(r, "close")
  /\ UNCHANGED <<db, lock, seen, moved>>

TakeLock(r) ==
  /\ pc[r] = "start" /\ lock = Free
  /\ lock' = r /\ Go(r, "locked")
  /\ UNCHANGED <<db, seen, answer, moved>>

\* The snapshot of the transaction, the plan and its checks.
Plan(r) ==
  /\ pc[r] = "locked" /\ Fits(db)
  /\ \/ /\ Go(r, "planned")
        /\ seen' = [seen EXCEPT ![r] = db] /\ UNCHANGED answer
     \/ /\ Go(r, "release")  \* a dry run
        /\ Answer(r, "planned", "PLAN_READY", FALSE) /\ UNCHANGED seen
  /\ UNCHANGED <<db, lock, moved>>

\* Apply and postflight.  From here to the end of the transaction the rows are locked.
Apply(r) ==
  /\ pc[r] = "planned" /\ ~Collides(db) /\ Passes(db, seen[r])
  /\ Go(r, "applied")
  /\ UNCHANGED <<db, lock, seen, answer, moved>>

Commit(r) ==
  /\ pc[r] = "applied"
  /\ db' = After(db, seen[r]) /\ moved' = moved \cup {r}
  /\ Answer(r, "success", "APPLIED", FALSE) /\ Go(r, "release") /\ Forget(r)
  /\ UNCHANGED lock

\* commit raised: nobody knows whether the server did it.
CommitLost(r) ==
  /\ pc[r] = "applied"
  /\ \/ db' = After(db, seen[r]) /\ moved' = moved \cup {r}
     \/ UNCHANGED <<db, moved>>
  /\ Answer(r, "error", "COMMIT_FAILED", TRUE) /\ Go(r, "release") /\ Forget(r)
  /\ UNCHANGED lock

\* A check refuses, a statement raises; then the rollback may fail as well.  Once a
\* statement may have written, a failed rollback asks for a restore.
Stop(r) ==
  /\ pc[r] \in {"locked", "planned", "applied"}
  /\ \/ /\ pc[r] = "locked" => ~Fits(db)
        /\ pc[r] = "planned" => ~Passes(db, seen[r])
        /\ pc[r] # "applied"
        /\ Answer(r, "blocked", "BLOCKED", FALSE)
     \/ Answer(r, "error", "RUNTIME_FAILED", FALSE)
     \/ Answer(r, "error", "ROLLBACK_FAILED", pc[r] # "locked")
  /\ Go(r, "release") /\ Forget(r)
  /\ UNCHANGED <<db, lock, moved>>

\* A lock that could not be released is an error, of a success too; the server frees it
\* with the connection.
Release(r) ==
  /\ pc[r] = "release" /\ Go(r, "close")
  /\ \/ lock' = Free /\ UNCHANGED answer
     \/ /\ Answer(r, "error", "LOCK_RELEASE_FAILED", answer[r].restore)
        /\ UNCHANGED lock
  /\ UNCHANGED <<db, seen, moved>>

Close(r) ==
  /\ pc[r] = "close" /\ Go(r, "done")
  /\ lock' = IF lock = r THEN Free ELSE lock
  /\ \/ UNCHANGED answer
     \/ /\ answer[r].status \in {"planned", "success"}
        /\ Answer(r, "error", "CONNECTION_CLOSE_FAILED", FALSE)
  /\ UNCHANGED <<db, seen, moved>>

\* The process is killed; the server may have taken its commit.
Die(r) ==
  /\ pc[r] # "done" /\ Go(r, "done")
  /\ lock' = IF lock = r THEN Free ELSE lock
  /\ answer' = [answer EXCEPT ![r] = Unanswered]
  /\ \/ pc[r] = "applied" /\ db' = After(db, seen[r]) /\ moved' = moved \cup {r}
     \/ UNCHANGED <<db, moved>>
  /\ Forget(r)

-----------------------------------------------------------------------------
(* The sync of the target account.  It waits for the rows a run has locked. *)

Locked == \E r \in Run : pc[r] = "applied"

BeginSync ==
  /\ db.head[NewBatch] = Absent
  /\ db' = [db EXCEPT !.head[NewBatch] = Header(Target, FALSE, 1, TRUE)]
  /\ UNCHANGED <<lock, pc, seen, answer, moved>>

\* A page: the history first, then the snapshot.
StorePage ==
  /\ db.head[NewBatch] = Header(Target, FALSE, 1, TRUE) /\ ~Locked
  /\ \E v \in Version :
       LET x == Content(Target, v, NewBatch) IN
       db' = [db EXCEPT !.raw = Mine(@) \cup {x},
                        !.history = IF Stores(@, x) THEN @ ELSE @ \cup {x}]
  /\ UNCHANGED <<lock, pc, seen, answer, moved>>

EndSync ==
  /\ db.head[NewBatch] = Header(Target, FALSE, 1, TRUE) /\ ~Locked
  /\ db' = [db EXCEPT !.head[NewBatch].ended = TRUE,
                      !.child = @ \cup {Child("log", Target, Api, NewBatch)},
                      !.point[Target] = NewBatch]
  /\ UNCHANGED <<lock, pc, seen, answer, moved>>

Next ==
  \/ \E r \in Run :
       \/ Busy(r) \/ TakeLock(r) \/ Plan(r) \/ Apply(r) \/ Commit(r) \/ CommitLost(r)
       \/ Stop(r) \/ Release(r) \/ Close(r) \/ Die(r)
  \/ BeginSync \/ StorePage \/ EndSync

Spec == Init /\ [][Next]_vars

-----------------------------------------------------------------------------

TypeOK ==
  /\ \A x \in db.raw \cup db.history :
       /\ x.account \in {Legacy, Target} /\ x.version \in Version
       /\ x.batch \in Batch \cup {NewBatch}
  /\ \A b \in DOMAIN db.head : db.head[b].account \in {Legacy, Target}
  /\ db.point \in [{Legacy, Target} -> Batch \cup {NewBatch, NoBatch}]
  /\ lock \in Run \cup {Free}
  /\ pc \in [Run -> {"start", "locked", "planned", "applied", "release", "close", "done"}]
  /\ moved \subseteq Run

\* A row belongs to the account of its batch.
BatchesAgree ==
  /\ \A x \in db.raw \cup db.history \cup db.child : db.head[x.batch].account = x.account
  /\ \A a \in DOMAIN db.point : db.point[a] # NoBatch => db.head[db.point[a]].account = a

\* Every snapshot of the target account has its version in the history.
SnapshotsHaveHistory == \A x \in db.raw : x.account = Target => Stores(db.history, x)

\* Once a run committed, account 0 has none of its rows and no checkpoint left.
AllOrNothing ==
  moved # {} => Remaining(db) = {} /\ db.point[Legacy] = NoBatch

\* A run that moved the rows and has answered asked for a restore or reported the success,
\* unless what failed is the release of the lock or of the connection.
ToldWhenMoved ==
  \A r \in Run : pc[r] = "done" /\ answer[r].status # "none" =>
    /\ answer[r].status = "success" => r \in moved
    /\ r \in moved =>
         \/ answer[r].status = "success" \/ answer[r].restore
         \/ answer[r].code \in {"LOCK_RELEASE_FAILED", "CONNECTION_CLOSE_FAILED"}

\* A move is whole, whatever fails and whatever the target account's sync does meanwhile,
\* and an operator is not told otherwise.
MovedWhole == BatchesAgree /\ SnapshotsHaveHistory /\ AllOrNothing /\ ToldWhenMoved

=============================================================================
