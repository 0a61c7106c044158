------------------------------ MODULE ApiSync ------------------------------
(***************************************************************************)
(* How the engine copies one API into raw_api_data (sync_engine.py): page   *)
(* after page while the upstream list changes under it, each page in a      *)
(* transaction of its own ("pages") or the whole API in one ("whole"), and  *)
(* what the checkpoint, the API log and the batch then say about it.        *)
(*                                                                          *)
(* A run is one call of the engine for the API.  SyncWindows says which     *)
(* dates a run asks for; here the list is what the upstream has for them.   *)
(* SyncJobQueue says when two runs may overlap: only when a named lock was  *)
(* lost under its holder.                                                   *)
(***************************************************************************)
EXTENDS Integers, Sequences, FiniteSets

CONSTANTS
  Rec,         \* records, by primary key
  Engine,      \* engine instances
  Setting,     \* the configurations of the API and of its surroundings
  First,       \* the upstream list to begin with
  PageSize,    \* page.page_size
  MaxChanges,  \* bound: changes of the upstream list
  MaxRuns      \* bound: calls of the engine

VARIABLES
  setting,  \* of the API: commit ("pages", "whole"), storage, paging, served, maxPages;
            \* of the job: advance; of the surroundings: overlap
  list,     \* the upstream list, in the order it is paged
  version,  \* updateTime of each record, 0 when it never existed
  raw,      \* raw_api_data: the version stored of each record, 0 for none
  history,  \* raw_api_data_history: the versions kept
  count,    \* raw_api_data_stat.record_count
  batches,  \* sync_batch: status of each run
  logs,     \* sync_api_log: statuses written for each run
  point,    \* the run that wrote the checkpoint last, 0 for none
  vouched,  \* record versions that a checkpoint or a success stands for
  run,      \* what each engine is doing
  changes   \* changes of the list so far

store == <<raw, history, count>>
report == <<batches, logs, point, vouched>>
upstream == <<setting, list, version, changes>>
vars == <<upstream, store, report, run>>

Idle == [stage |-> "idle", id |-> 0, page |-> 0, got |-> 0, total |-> 0, payload |-> {},
         known |-> {}, start |-> {}, shifted |-> FALSE, tries |-> 0,
         result |-> "none", tx |-> << >>]

Init ==
  /\ setting \in Setting
  /\ list = First
  /\ version = [r \in Rec |-> IF \E i \in DOMAIN First : First[i] = r THEN 1 ELSE 0]
  /\ raw = [r \in Rec |-> 0] /\ history = {} /\ count = 0
  /\ batches = << >> /\ logs = << >> /\ point = 0 /\ vouched = {}
  /\ run = [e \in Engine |-> Idle]
  /\ changes = 0

At(e, stage) == run[e].stage = stage
Become(e, r) == run' = [run EXCEPT ![e] = r]
Paged == setting.commit = "pages"
Now == {<<list[i], version[list[i]]>> : i \in DOMAIN list}
Keys(payload) == {x[1] : x \in payload}
Least(a, b) == IF a < b THEN a ELSE b
None == -1

-----------------------------------------------------------------------------
(* The store.                                                               *)

\* What a transaction sees: its own writes, when it is the one of the whole API.
Committed == [raw |-> raw, history |-> history, count |-> count]
Seen(e) == IF run[e].tx = << >> THEN Committed ELSE run[e].tx[1]

Stored(s) == {r \in Rec : s.raw[r] # 0}

\* A slip: every row of a page counts as a new record.
WrittenCountingAll(s, payload, known) ==
  [raw |-> [r \in Rec |-> IF r \in Keys(payload)
                          THEN (CHOOSE x \in payload : x[1] = r)[2] ELSE s.raw[r]],
   history |-> s.history \cup payload,
   count |-> s.count + Cardinality(payload)]

\* _insert_raw_items: the history gets every version, the snapshot is replaced by a
\* version that is not older, and records not known before are counted.
Written(s, payload, known) ==
  LET of(r) == (CHOOSE x \in payload : x[1] = r)[2]
      replaces(r) == setting.storage = "latest" \/ of(r) >= s.raw[r]
  IN [raw |-> [r \in Rec |-> IF r \in Keys(payload) /\ replaces(r) THEN of(r) ELSE s.raw[r]],
      history |-> IF setting.storage = "history" THEN s.history \cup payload ELSE s.history,
      count |-> s.count + Cardinality(Keys(payload) \ known)]

Put(s) == raw' = s.raw /\ history' = s.history /\ count' = s.count

-----------------------------------------------------------------------------
(* One run.                                                                 *)

\* The batch row is committed first; then the checkpoint is read and, when the
\* whole API is one transaction, that transaction begins.
Begin(e) ==
  /\ At(e, "idle") /\ Len(batches) < MaxRuns
  /\ setting.overlap \/ \A f \in Engine : At(f, "idle")
  /\ batches' = Append(batches, "running") /\ logs' = Append(logs, {})
  /\ Become(e, [Idle EXCEPT !.stage = "ask", !.id = Len(batches) + 1, !.page = 1,
                            !.start = Now, !.tx = IF Paged THEN << >> ELSE <<Committed>>])
  /\ UNCHANGED <<upstream, store, point, vouched>>

\* _response_total: the rows of the list, or a count of something else, which is not
\* smaller (amazon_shop_page counts the sites of its shops), or nothing.
Total == CASE setting.paging = "total" -> Len(list)
           [] setting.paging = "short" -> Len(list) + 1
           [] OTHER -> None

\* The server's page: it may hold fewer rows than were asked for, or the whole list.
Page(n) ==
  IF setting.paging = "none" THEN Now
  ELSE {<<list[i], version[list[i]]>> :
     i \in {k \in DOMAIN list : (n - 1) * setting.served < k /\ k <= n * setting.served}}

\* _ensure_pagination_capacity, before the page is written.
EnoughPages(total) ==
  setting.paging = "total" /\ setting.maxPages # None =>
    setting.maxPages * PageSize >= total

Failed(r) == [r EXCEPT !.stage = "fail", !.payload = {}, !.known = {}]

\* _request_with_retry and _response_items: the answer to the request of a page.
Answer(e) ==
  /\ At(e, "ask")
  /\ LET r == [run[e] EXCEPT !.total = Total, !.payload = Page(run[e].page),
                             !.stage = "write", !.tries = 0]
     IN Become(e, IF EnoughPages(Total) THEN r ELSE Failed(r))
  /\ UNCHANGED <<upstream, store, report>>

\* The last attempt of the request failed, or its answer could not be used.
RequestFails(e) ==
  /\ At(e, "ask")
  /\ Become(e, Failed(run[e]))
  /\ UNCHANGED <<upstream, store, report>>

\* The page's transaction looks up the records it is about to write.
LookUp(e) ==
  /\ At(e, "write")
  /\ Become(e, [run[e] EXCEPT !.stage = "upsert", !.known = Stored(Seen(e))])
  /\ UNCHANGED <<upstream, store, report>>

Turned(r) == [r EXCEPT !.stage = "turn", !.got = @ + Cardinality(r.payload), !.tries = 0,
                       !.known = {}]

\* The upsert; a page's own transaction is committed, the whole API's stays open.
Write(e) ==
  LET s == Written(Seen(e), run[e].payload, run[e].known) IN
  /\ At(e, "upsert")
  /\ IF Paged
       THEN Put(s) /\ Become(e, Turned(run[e]))
       ELSE UNCHANGED store /\ Become(e, [Turned(run[e]) EXCEPT !.tx = <<s>>])
  /\ UNCHANGED <<upstream, report>>

\* The connection is lost while the page is written, before or after the commit
\* took effect: the page is written once more over a new one.
LoseConnection(e) ==
  /\ At(e, "upsert") /\ Paged
  /\ \/ UNCHANGED store
     \/ Put(Written(Seen(e), run[e].payload, run[e].known))
  /\ Become(e, IF run[e].tries = 0
               THEN [run[e] EXCEPT !.stage = "write", !.tries = 1, !.known = {}]
               ELSE Failed(run[e]))
  /\ UNCHANGED <<upstream, report>>

\* Any other error of the database, or of the progress callback.
WriteFails(e) ==
  /\ At(e, "upsert")
  /\ Become(e, Failed(run[e]))
  /\ UNCHANGED <<upstream, store, report>>

\* The transaction of the whole API is lost with its connection: the failure is
\* logged in a new one.
LoseTransaction(e) ==
  /\ run[e].stage \in {"upsert", "turn"} /\ ~Paged
  /\ Become(e, [Failed(run[e]) EXCEPT !.tx = << >>])
  /\ UNCHANGED <<upstream, store, report>>

\* _pagination_max_pages
UnderMaxPages(r) == setting.maxPages # None => r.page < setting.maxPages

\* _short_page_complete
ShortPageComplete(r) == setting.paging = "short" /\ Cardinality(r.payload) < PageSize

\* _paged_payloads: is there another page to ask for?
More(r) ==
  /\ UnderMaxPages(r) /\ ~ShortPageComplete(r)
  /\ setting.paging # "none" /\ r.page * PageSize < r.total

NextPage(e) ==
  /\ At(e, "turn") /\ More(run[e])
  /\ Become(e, [run[e] EXCEPT !.stage = "ask", !.page = @ + 1, !.payload = {}])
  /\ UNCHANGED <<upstream, store, report>>

\* _insert_api_log
Log(e, status) == logs' = [logs EXCEPT ![run[e].id] = @ \cup {status}]

\* The pause callback is asked after each page that was stored.
Pause(e) ==
  /\ At(e, "turn") /\ Paged
  /\ Log(e, "paused")
  /\ Become(e, [run[e] EXCEPT !.stage = "close", !.result = "paused", !.payload = {}])
  /\ UNCHANGED <<upstream, store, batches, point, vouched>>

\* A slip: what was fetched is not compared with the total.
NotTruncatedAlways(r) == TRUE

\* _ensure_pagination_not_truncated.
NotTruncated(r) == setting.paging = "total" => r.got >= r.total

\* The checkpoint and the success are written in one transaction, which is also the
\* one of the pages when the whole API is one.
Report(e) ==
  /\ Log(e, "success")
  /\ point' = IF setting.advance THEN run[e].id ELSE point
  /\ vouched' = IF run[e].shifted THEN vouched ELSE vouched \cup run[e].start
  /\ IF Paged THEN UNCHANGED store ELSE Put(Seen(e))
  /\ UNCHANGED <<upstream, batches>>

Complete(e) == At(e, "turn") /\ ~More(run[e]) /\ NotTruncated(run[e])

Succeed(e) ==
  /\ Complete(e) /\ Report(e)
  /\ Become(e, [run[e] EXCEPT !.stage = "close", !.result = "success", !.tx = << >>,
                              !.payload = {}])

\* The commit took effect, but its answer was lost: a paged run logs a failure on
\* top of its success, the other one ends in an exception.
SucceedUnheard(e) ==
  /\ Complete(e) /\ Report(e)
  /\ Become(e, IF Paged THEN Failed(run[e]) ELSE Idle)

Truncated(e) ==
  /\ At(e, "turn") /\ ~More(run[e]) /\ ~NotTruncated(run[e])
  /\ Become(e, Failed(run[e]))
  /\ UNCHANGED <<upstream, store, report>>

\* The failure is logged; the pages of the whole API's transaction, while it lives,
\* are committed with it.
LogFailure(e) ==
  /\ At(e, "fail")
  /\ Log(e, "failed")
  /\ IF Paged THEN UNCHANGED store ELSE Put(Seen(e))
  /\ Become(e, [run[e] EXCEPT !.stage = "close", !.result = "failed", !.tx = << >>])
  /\ UNCHANGED <<upstream, batches, point, vouched>>

\* sync_enabled_apis sums up several APIs, test_api_once has only this one.
Summary(result, other) ==
  IF other = "none" THEN result
  ELSE IF {result, other} = {"success"} THEN "success"
  ELSE IF "success" \in {result, other} THEN "partial_failed" ELSE "failed"

Close(e) ==
  /\ At(e, "close")
  /\ \E other \in {"none", "success", "failed"} :
       /\ run[e].result = "paused" => other = "none"
       /\ batches' = [batches EXCEPT ![run[e].id] = Summary(run[e].result, other)]
  /\ Become(e, Idle)
  /\ UNCHANGED <<upstream, store, logs, point, vouched>>

\* The process dies: an open transaction is rolled back, the batch stays running.
Die(e) ==
  /\ ~At(e, "idle")
  /\ Become(e, Idle)
  /\ UNCHANGED <<upstream, store, report>>

-----------------------------------------------------------------------------
(* The upstream list changes while it is paged.                             *)

\* Those behind r move up one place.
Without(r) ==
  IF \E i \in DOMAIN list : list[i] = r
  THEN LET p == CHOOSE i \in DOMAIN list : list[i] = r
       IN [i \in 1 .. Len(list) - 1 |-> IF i < p THEN list[i] ELSE list[i + 1]]
  ELSE list

Change ==
  /\ changes < MaxChanges
  /\ changes' = changes + 1
  /\ UNCHANGED <<setting, store, report>>

\* A record is new, or updated and comes first: the runs under way may miss it, and
\* leave it to the next one.
Appear(r) ==
  /\ Change
  /\ version' = [version EXCEPT ![r] = @ + 1]
  /\ list' = <<r>> \o Without(r)
  /\ run' = [e \in Engine |-> [run[e] EXCEPT !.start = {x \in @ : x[1] # r}]]

Touch(r) ==
  /\ Change
  /\ \E i \in DOMAIN list : list[i] = r
  /\ version' = [version EXCEPT ![r] = @ + 1]
  /\ UNCHANGED <<list, run>>

\* A record goes: those behind it move up, past the page that is asked for next.
Vanish(r) ==
  /\ Change
  /\ \E i \in DOMAIN list : list[i] = r
  /\ list' = Without(r)
  /\ run' = [e \in Engine |-> IF At(e, "idle") THEN Idle ELSE [run[e] EXCEPT !.shifted = TRUE]]
  /\ UNCHANGED version

Next ==
  \/ \E e \in Engine :
       \/ Begin(e) \/ Answer(e) \/ RequestFails(e) \/ LookUp(e) \/ Write(e)
       \/ LoseConnection(e) \/ WriteFails(e) \/ LoseTransaction(e) \/ NextPage(e) \/ Pause(e)
       \/ Succeed(e) \/ SucceedUnheard(e) \/ Truncated(e) \/ LogFailure(e) \/ Close(e) \/ Die(e)
  \/ \E r \in Rec : Appear(r) \/ Touch(r) \/ Vanish(r)

Spec == Init /\ [][Next]_vars

-----------------------------------------------------------------------------
(* Properties.                                                              *)

TypeOK ==
  /\ setting \in Setting
  /\ raw \in [Rec -> Nat] /\ count \in Nat
  /\ point \in 0 .. Len(batches) /\ Len(logs) = Len(batches)
  /\ \A r \in Rec : raw[r] <= version[r]
  /\ \A i \in DOMAIN logs : logs[i] \subseteq {"success", "failed", "paused"}

\* A success, and the checkpoint written with it, stand for every record that was
\* in the list when the run began, in that version or a newer one, however often
\* pages failed, were written twice, or older runs went on.  Not vouched for are a
\* record that moved to the front meanwhile, and a list that lost records.
VouchedIsStored == \A x \in vouched : raw[x[1]] >= x[2]

\* The record count counts the stored records, and an API with history keeps each
\* version that is or was its snapshot: retried pages and rolled back ones included.
StoreAgrees ==
  /\ ~setting.overlap => count = Cardinality({r \in Rec : raw[r] # 0})
  /\ setting.storage = "history" => \A r \in Rec : raw[r] # 0 => <<r, raw[r]>> \in history

=============================================================================
