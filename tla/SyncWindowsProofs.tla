-------------------------- MODULE SyncWindowsProofs --------------------------
(***************************************************************************)
(* Theorems about SyncWindows for every floor, window length, lag, number  *)
(* of workers and number of executions.                                    *)
(***************************************************************************)
EXTENDS SyncWindows, SequenceTheorems, TLAPS

\* A backfill without T0 has no checkpoint at all.
Watermark ==
  history.t0 = None => history.next = Floor /\ history.frozen = None

TypeInv == TypeOK /\ Watermark

-----------------------------------------------------------------------------
(* Windows.                                                                 *)

LEMMA QuotientNat ==
  ASSUME NEW a \in Nat, NEW b \in Nat \ {0}
  PROVE  a \div b \in Nat
  OBVIOUS

LEMMA CeilingNat ==
  ASSUME NEW a \in Nat
  PROVE  Ceiling(a, WindowDays) \in Nat
  <1>1. a + WindowDays - 1 \in Nat
    BY DaysAssumption
  <1>. QED
    BY <1>1, QuotientNat, DaysAssumption DEF Ceiling

LEMMA ClosedWindowsLength ==
  ASSUME NEW first \in Day, NEW last \in Day, first <= last
  PROVE  /\ Len(ClosedWindows(first, last)) \in Nat
         /\ Len(ClosedWindows(first, last)) = Ceiling(last - first + 1, WindowDays)
  <1>. DEFINE n == Ceiling(last - first + 1, WindowDays)
  <1>1. last - first + 1 \in Nat
    BY DaysAssumption DEF Day
  <1>2. n \in Nat
    BY <1>1, CeilingNat
  <1>3. DOMAIN ClosedWindows(first, last) = 1 .. n
    BY DEF ClosedWindows
  <1>4. ClosedWindows(first, last) \in Seq(Int \X Int)
    <2>. DEFINE e(i) == <<first + (i - 1) * WindowDays,
                          Least(first + i * WindowDays - 1, last)>>
    <2>1. ASSUME NEW i \in 1 .. n PROVE e(i) \in Int \X Int
      <3>1. i * WindowDays \in Int /\ (i - 1) * WindowDays \in Int
        BY <1>2, DaysAssumption
      <3>. QED
        BY <3>1, DaysAssumption DEF Least, Day
    <2>2. ClosedWindows(first, last) = [i \in 1 .. n |-> e(i)]
      BY DEF ClosedWindows
    <2>. QED
      BY <1>2, <2>1, <2>2
  <1>5. Len(ClosedWindows(first, last)) \in Nat
        /\ DOMAIN ClosedWindows(first, last) = 1 .. Len(ClosedWindows(first, last))
    BY <1>4, LenProperties
  <1>. QED
    BY <1>2, <1>3, <1>5

LEMMA WindowType ==
  ASSUME NEW kind \in Kind, NEW start \in Day, NEW target \in Day, start <= target,
         NEW t0 \in Day, NEW completed \in Nat, NEW total \in Nat
  PROVE  [kind |-> kind, start |-> start, end |-> Least(start + WindowDays - 1, target),
          target |-> target, t0 |-> t0, completed |-> completed, total |-> total] \in Window
  <1>1. Least(start + WindowDays - 1, target) \in Day
    BY DaysAssumption DEF Least, Day
  <1>. QED
    BY <1>1 DEF Window

LEMMA TodayFacts ==
  ASSUME TypeOK
  PROVE  today \in Day /\ today - Lag \in Day /\ MaxDay \in Day
  BY DaysAssumption DEF TypeOK, Day

LEMMA HistoryPlanType ==
  ASSUME TypeInv, HistoryPlan.start <= HistoryPlan.target
  PROVE  HistoryPlan \in Window
  <1>. DEFINE renewed == history.frozen = None \/ (~Incremental /\ history.next > history.frozen)
              target == IF renewed THEN today - Lag ELSE history.frozen
              total == Ceiling(target - Floor + 1, WindowDays)
              t0 == IF history.t0 = None THEN today ELSE history.t0
              done == Least((history.next - Floor) \div WindowDays, total)
  <1>1. target \in Day
    BY TodayFacts DEF TypeInv, TypeOK
  <1>2. t0 \in Day
    BY TodayFacts DEF TypeInv, TypeOK
  <1>3. history.next \in Day /\ history.next <= target
    <2>1. HistoryPlan.start = history.next /\ HistoryPlan.target = target
      BY DEF HistoryPlan
    <2>. QED
      BY <1>1, <2>1, DaysAssumption DEF TypeInv, TypeOK, Day
  <1>4. total \in Nat
    <2>1. target - Floor + 1 \in Nat
      BY <1>1, DaysAssumption DEF Day
    <2>. QED
      BY <2>1, CeilingNat
  <1>5. done \in Nat
    <2>1. history.next - Floor \in Nat
      BY <1>3, DaysAssumption DEF Day
    <2>2. (history.next - Floor) \div WindowDays \in Nat
      BY <2>1, QuotientNat, DaysAssumption
    <2>. QED
      BY <1>4, <2>2 DEF Least
  <1>6. HistoryPlan = [kind |-> "history", start |-> history.next,
                       end |-> Least(history.next + WindowDays - 1, target),
                       target |-> target, t0 |-> t0, completed |-> done, total |-> total]
    BY DEF HistoryPlan
  <1>. HIDE DEF target, total, t0, done
  <1>. QED
    BY <1>1, <1>2, <1>3, <1>4, <1>5, <1>6, WindowType DEF Kind

LEMMA HistoryTotalNat ==
  ASSUME TypeInv
  PROVE  HistoryPlan.total \in Nat
  <1>. DEFINE renewed == history.frozen = None \/ (~Incremental /\ history.next > history.frozen)
              target == IF renewed THEN today - Lag ELSE history.frozen
  <1>1. target \in Day
    BY TodayFacts DEF TypeInv, TypeOK
  <1>2. target - Floor + 1 \in Nat
    BY <1>1, DaysAssumption DEF Day
  <1>3. HistoryPlan.total = Ceiling(target - Floor + 1, WindowDays)
    BY DEF HistoryPlan
  <1>. QED
    BY <1>2, <1>3, CeilingNat

LEMMA UpdatePlanType ==
  ASSUME TypeInv, ~(HistoryPlan.start <= HistoryPlan.target), NEW count \in Nat,
         UpdatePlan(count).start <= UpdatePlan(count).target
  PROVE  UpdatePlan(count) \in Window
  <1>. DEFINE start == IF update = None THEN history.t0 ELSE update
              target == today - UpdateLag
  <1>1. history.t0 \in Day
    <2>1. CASE history.t0 = None
      <3>1. history.next = Floor /\ history.frozen = None
        BY <2>1 DEF TypeInv, Watermark
      <3>2. HistoryPlan.start = Floor /\ HistoryPlan.target = today - Lag
        BY <3>1 DEF HistoryPlan
      <3>. QED
        BY <3>2, TodayFacts, DaysAssumption DEF TypeInv, Day
    <2>. QED
      BY <2>1 DEF TypeInv, TypeOK
  <1>2. UpdatePlan(count) = [kind |-> "update", start |-> start,
                             end |-> Least(start + WindowDays - 1, target),
                             target |-> target, t0 |-> history.t0,
                             completed |-> count, total |-> count]
    BY DEF UpdatePlan
  <1>3. start \in Day \cup {MaxDay + 1}
    BY <1>1 DEF TypeInv, TypeOK
  <1>4. start <= target
    BY <1>2
  <1>5. start \in Day /\ target \in Day
    BY <1>3, <1>4, DaysAssumption DEF TypeInv, TypeOK, Day
  <1>. HIDE DEF start, target
  <1>. QED
    BY <1>1, <1>2, <1>4, <1>5, WindowType DEF Kind

LEMMA NextWindowType ==
  ASSUME TypeInv, NEW p \in NextWindow
  PROVE  p \in Window /\ p.start <= p.target
  <1>1. CASE HistoryPlan.start <= HistoryPlan.target
    <2>1. p = HistoryPlan
      BY <1>1 DEF NextWindow
    <2>. QED
      BY <1>1, <2>1, HistoryPlanType
  <1>2. CASE ~(HistoryPlan.start <= HistoryPlan.target)
    <2>1. p = UpdatePlan(HistoryPlan.total) /\ p.start <= p.target
      BY <1>2 DEF NextWindow
    <2>. QED
      BY <1>2, <2>1, UpdatePlanType, HistoryTotalNat
  <1>. QED
    BY <1>1, <1>2

-----------------------------------------------------------------------------
(* Typing of the steps.                                                     *)

LEMMA InitTypeInv == Init => TypeInv
  <1>. SUFFICES ASSUME Init PROVE TypeInv
    OBVIOUS
  <1>1. today \in FirstDay .. MaxDay /\ Floor \in Day
    BY DaysAssumption DEF Init, Day
  <1>2. exec \in [Worker -> [stage : {"idle", "paging", "paged", "committed"},
                             job : JobId, day : Day \cup {None}]]
    BY DaysAssumption DEF Init, Idle, JobId
  <1>3. \A w \in Worker : exec[w].stage = "idle"
    BY DEF Init, Idle
  <1>4. jobs \in Seq(Execution) /\ Len(jobs) <= MaxJobs
    BY EmptySeq, DaysAssumption DEF Init
  <1>. QED
    BY <1>1, <1>2, <1>3, <1>4 DEF Init, TypeInv, TypeOK, Watermark

LEMMA JobType ==
  ASSUME TypeInv, NEW j \in DOMAIN jobs
  PROVE  /\ jobs[j] \in Execution
         /\ jobs[j].plan \in Window
         /\ j \in 1 .. Len(jobs)
         /\ Len(jobs) \in Nat /\ Len(jobs) <= MaxJobs
         /\ j \in JobId
  <1>1. jobs \in Seq(Execution)
    BY DEF TypeInv, TypeOK
  <1>2. j \in 1 .. Len(jobs) /\ Len(jobs) \in Nat
    BY <1>1, LenProperties
  <1>3. jobs[j] \in Execution
    BY <1>1, <1>2, ElementOfSeq
  <1>4. Len(jobs) <= MaxJobs
    BY DEF TypeInv, TypeOK
  <1>. QED
    BY <1>2, <1>3, <1>4, DaysAssumption DEF Execution, JobId

\* A step that only appends an execution.
LEMMA InsertType ==
  ASSUME TypeInv, NEW job \in Execution, Insert(job)
  PROVE  TypeInv'
  <1>1. /\ jobs' \in Seq(Execution) /\ \A j \in DOMAIN jobs : j \in DOMAIN jobs'
        /\ Len(jobs') <= MaxJobs
    BY AppendProperties, LenProperties, DaysAssumption DEF Insert, TypeInv, TypeOK
  <1>. QED
    BY <1>1 DEF Insert, Rest, TypeInv, TypeOK, Watermark

\* A step that rewrites one execution and leaves the rest alone.
LEMMA RewriteType ==
  ASSUME TypeInv, NEW j \in DOMAIN jobs, NEW job \in Execution, jobs' = [jobs EXCEPT ![j] = job]
  PROVE  jobs' \in Seq(Execution) /\ DOMAIN jobs' = DOMAIN jobs /\ Len(jobs') = Len(jobs)
  BY ExceptSeq, LenProperties DEF TypeInv, TypeOK

LEMMA NewTaskType ==
  ASSUME TypeInv, Len(jobs) < MaxJobs,
         NEW p \in Window, NEW windows \in Nat, NEW first \in Day, NEW last \in Day,
         NEW shops \in {"all", "some"}
  PROVE  NewTask(p, windows, first, last, shops) \in Execution
  <1>1. Len(jobs) + 1 \in JobId
    BY LenProperties, DaysAssumption DEF TypeInv, TypeOK, JobId
  <1>. QED
    BY <1>1, TodayFacts DEF NewTask, Execution, TypeInv, Active

LEMMA StatusType ==
  ASSUME TypeInv, NEW j \in DOMAIN jobs,
         NEW status \in Active \cup {"success", "failed", "ended"}
  PROVE  [jobs[j] EXCEPT !.status = status] \in Execution
  BY JobType DEF Execution

LEMMA EntryType ==
  ASSUME TypeInv, Entry
  PROVE  TypeInv'
  <1>1. ASSUME NEW shops \in {"all", "some"}, CreateManual(shops) PROVE TypeInv'
    <2>1. PICK p \in NextWindow :
            Insert(NewTask(p, Len(ClosedWindows(p.start, p.target)), p.start, p.target, shops))
      BY <1>1 DEF CreateManual
    <2>2. p \in Window /\ p.start \in Day /\ p.target \in Day /\ p.start <= p.target
      BY NextWindowType DEF Window
    <2>3. Len(ClosedWindows(p.start, p.target)) \in Nat
      BY <2>2, ClosedWindowsLength
    <2>. QED
      BY <2>1, <2>2, <2>3, NewTaskType, InsertType DEF Insert
  <1>2. CASE CreateScheduled
    <2>1. PICK p \in NextWindow : Insert(NewTask(p, 1, p.start, p.end, "all"))
      BY <1>2 DEF CreateScheduled
    <2>2. p \in Window /\ p.start \in Day /\ p.end \in Day
      BY NextWindowType DEF Window
    <2>. QED
      BY <2>1, <2>2, NewTaskType, InsertType DEF Insert
  <1>3. ASSUME NEW first \in Day, NEW last \in Day, CreateCustom(first, last) PROVE TypeInv'
    <2>1. first <= last
      BY <1>3 DEF CreateCustom
    <2>2. Len(ClosedWindows(first, last)) \in Nat
      BY <2>1, ClosedWindowsLength
    <2>3. CustomPlan(first, last) \in Window
      BY <2>1, <2>2, TodayFacts, WindowType DEF CustomPlan, Kind, TypeInv
    <2>4. CustomPlan(first, last).total \in Nat
      BY <2>2 DEF CustomPlan
    <2>. QED
      BY <1>3, <2>3, <2>4, NewTaskType, InsertType DEF CreateCustom, Insert
  <1>4. ASSUME NEW j \in DOMAIN jobs, Retry(j) PROVE TypeInv'
    <2>1. PICK p \in RetryPlan(j) : Insert([jobs[j] EXCEPT !.plan = p, !.status = "queued"])
      BY <1>4 DEF Retry
    <2>2. p \in Window
      BY JobType, NextWindowType DEF RetryPlan
    <2>3. [jobs[j] EXCEPT !.plan = p, !.status = "queued"] \in Execution
      BY <2>2, JobType DEF Execution, Active
    <2>. QED
      BY <2>1, <2>3, InsertType
  <1>5. ASSUME NEW j \in DOMAIN jobs, RetryCaughtUp(j) PROVE TypeInv'
    <2>1. [jobs[j] EXCEPT !.resolved = TRUE] \in Execution
      BY JobType DEF Execution
    <2>2. jobs' = [jobs EXCEPT ![j] = [jobs[j] EXCEPT !.resolved = TRUE]]
      BY <1>5 DEF RetryCaughtUp
    <2>3. jobs' \in Seq(Execution) /\ DOMAIN jobs' = DOMAIN jobs /\ Len(jobs') = Len(jobs)
      BY <2>1, <2>2, RewriteType
    <2>. QED
      BY <1>5, <2>3 DEF RetryCaughtUp, Rest, TypeInv, TypeOK, Watermark
  <1>6. ASSUME NEW j \in DOMAIN jobs, Resume(j) PROVE TypeInv'
    BY <1>6, StatusType, InsertType DEF Resume, Active
  <1>7. ASSUME NEW j \in DOMAIN jobs, Give(j) PROVE TypeInv'
    <2>1. jobs' = [jobs EXCEPT ![j] = [jobs[j] EXCEPT !.status = "ended"]]
      BY <1>7 DEF Give
    <2>2. jobs' \in Seq(Execution) /\ DOMAIN jobs' = DOMAIN jobs /\ Len(jobs') = Len(jobs)
      BY <2>1, StatusType, RewriteType
    <2>. QED
      BY <1>7, <2>2 DEF Give, Rest, TypeInv, TypeOK, Watermark
  <1>. QED
    BY <1>1, <1>2, <1>3, <1>4, <1>5, <1>6, <1>7 DEF Entry

\* A window of a chain is well formed if the one before it is.
LEMMA FollowingType ==
  ASSUME NEW p \in Window, NEW first \in Int, NEW last \in Day,
         Floor <= first, NEW q \in Following(p, first, last)
  PROVE  q \in Window /\ q.kind = p.kind
  <1>1. first <= last
    BY DaysAssumption DEF Following, Day
  <1>2. first \in Day
    BY <1>1, DaysAssumption DEF Day
  <1>3. q = [p EXCEPT !.start = first, !.end = Least(first + WindowDays - 1, last),
                      !.target = last]
    BY <1>1 DEF Following
  <1>4. Least(first + WindowDays - 1, last) \in Day
    BY <1>1, <1>2, DaysAssumption DEF Least, Day
  <1>5. q = [kind |-> p.kind, start |-> first, end |-> Least(first + WindowDays - 1, last),
             target |-> last, t0 |-> p.t0, completed |-> p.completed, total |-> p.total]
    BY <1>3 DEF Window
  <1>. QED
    BY <1>2, <1>4, <1>5 DEF Window

LEMMA ChainedType ==
  ASSUME TypeInv, NEW p \in Window, NEW q \in Chained(p)
  PROVE  q \in Window
  <1>. DEFINE done == [p EXCEPT !.completed = IF p.kind = "update" THEN @ ELSE @ + 1]
  <1>1. done \in Window
    BY DEF Window
  <1>2. p.t0 \in Day /\ p.end \in Day /\ p.target \in Day
    BY DEF Window
  <1>5. done.end = p.end /\ done.target = p.target
    BY DEF Window
  <1>3. CASE p.kind = "history" /\ done.completed >= done.total
    <2>1. PICK r \in Following(done, p.t0, today - UpdateLag) : q = [r EXCEPT !.kind = "update"]
      <3>1. Chained(p) = {[r EXCEPT !.kind = "update"] :
                r \in {r \in Following(done, p.t0, today - UpdateLag) : Incremental}}
        BY <1>3 DEF Chained, Completed, UpdatesFrom
      <3>. QED
        BY <3>1
    <2>2. p.t0 <= today - UpdateLag
      <3>1. ~(p.t0 > today - UpdateLag)
        BY <2>1 DEF Following
      <3>2. today - UpdateLag \in Int /\ p.t0 \in Int
        BY <1>2, DaysAssumption DEF TypeInv, TypeOK, Day
      <3>. QED
        BY <3>1, <3>2
    <2>3. today - UpdateLag \in Day
      <3>1. today \in Int /\ today <= MaxDay
        BY DaysAssumption DEF TypeInv, TypeOK, Day
      <3>2. p.t0 \in Int /\ Floor <= p.t0
        BY <1>2, DaysAssumption DEF Day
      <3>3. UpdateLag \in Nat /\ Floor \in Int /\ MaxDay \in Int
        BY DaysAssumption
      <3>. HIDE DEF done
      <3>. QED
        BY <2>2, <3>1, <3>2, <3>3 DEF Day
    <2>4. r \in Window
      <3>1. p.t0 \in Int /\ Floor <= p.t0
        BY <1>2, DaysAssumption DEF Day
      <3>. HIDE DEF done
      <3>. QED
        BY <1>1, <2>1, <2>3, <3>1, FollowingType
    <2>5. q = [kind |-> "update", start |-> r.start, end |-> r.end, target |-> r.target,
               t0 |-> r.t0, completed |-> r.completed, total |-> r.total]
      BY <2>1, <2>4 DEF Window
    <2>. QED
      BY <2>4, <2>5 DEF Window, Kind
  <1>4. CASE ~(p.kind = "history" /\ done.completed >= done.total)
    <2>1. q \in Following(done, p.end + 1, p.target)
      BY <1>4, <1>5 DEF Chained, Completed, NextOfKind
    <2>2. p.end + 1 \in Int /\ Floor <= p.end + 1
      BY <1>2, DaysAssumption DEF Day
    <2>. HIDE DEF done
    <2>. QED
      BY <1>1, <1>2, <2>1, <2>2, FollowingType
  <1>. QED
    BY <1>3, <1>4

\* What is left to show of a step of a worker.
LEMMA WorkFrame ==
  ASSUME TypeInv, NEW w \in Worker,
         NEW stage \in {"idle", "paging", "paged", "committed"},
         NEW j \in JobId, NEW day \in Day \cup {None},
         stage # "idle" => j \in DOMAIN jobs /\ day \in Day,
         exec' = [exec EXCEPT ![w] = [stage |-> stage, job |-> j, day |-> day]],
         jobs' \in Seq(Execution), DOMAIN jobs \subseteq DOMAIN jobs',
         Len(jobs') <= MaxJobs,
         UNCHANGED <<today, history, update, fetched>>
  PROVE  TypeInv'
  <1>1. ASSUME NEW v \in Worker, exec'[v].stage # "idle"
        PROVE  exec'[v].job \in DOMAIN jobs' /\ exec'[v].day \in Day
    BY <1>1 DEF TypeInv, TypeOK
  <1>. QED
    BY <1>1 DEF TypeInv, TypeOK, Watermark

LEMMA WorkingType ==
  ASSUME TypeInv, NEW w \in Worker, exec[w].stage # "idle"
  PROVE  /\ exec[w].job \in DOMAIN jobs /\ exec[w].job \in JobId
         /\ exec[w].day \in Day
         /\ Plan(w) \in Window
  BY JobType DEF TypeInv, TypeOK, Plan

LEMMA IdleType == Idle = [stage |-> "idle", job |-> 1, day |-> None] /\ 1 \in JobId
  BY DaysAssumption DEF Idle, JobId

\* The execution of a worker is ended or not, and the worker is idle again.
LEMMA BackType ==
  ASSUME TypeInv, NEW w \in Worker, exec[w].stage # "idle",
         NEW status \in Active \cup {"success", "failed", "ended"},
         exec' = [exec EXCEPT ![w] = Idle],
         \/ jobs' = [jobs EXCEPT ![exec[w].job].status = status]
         \/ jobs' = jobs,
         UNCHANGED <<today, history, update, fetched>>
  PROVE  TypeInv'
  <1>1. jobs' \in Seq(Execution) /\ DOMAIN jobs' = DOMAIN jobs /\ Len(jobs') <= MaxJobs
    <2>1. CASE jobs' = [jobs EXCEPT ![exec[w].job].status = status]
      <3>1. jobs' = [jobs EXCEPT ![exec[w].job] = [jobs[exec[w].job] EXCEPT !.status = status]]
        BY <2>1
      <3>. QED
        BY <3>1, WorkingType, JobType, StatusType, RewriteType
    <2>2. CASE jobs' = jobs
      BY <2>2 DEF TypeInv, TypeOK
    <2>. QED
      BY <2>1, <2>2
  <1>. QED
    BY <1>1, IdleType, WorkFrame

LEMMA StartType ==
  ASSUME TypeInv, NEW w \in Worker, NEW j \in DOMAIN jobs, Start(w, j)
  PROVE  TypeInv'
  <1>1. jobs' = [jobs EXCEPT ![j] = [jobs[j] EXCEPT !.status = "running"]]
    BY DEF Start
  <1>2. jobs' \in Seq(Execution) /\ DOMAIN jobs' = DOMAIN jobs /\ Len(jobs') <= MaxJobs
    BY <1>1, JobType, StatusType, RewriteType DEF Active
  <1>3. j \in JobId
    BY JobType
  <1>4. today \in Day
    BY TodayFacts DEF TypeInv
  <1>. QED
    BY <1>2, <1>3, <1>4, WorkFrame DEF Start

LEMMA StageType ==
  ASSUME TypeInv, NEW w \in Worker, exec[w].stage # "idle",
         NEW stage \in {"paged", "committed"}, exec' = [exec EXCEPT ![w].stage = stage]
  PROVE  /\ exec' \in [Worker -> [stage : {"idle", "paging", "paged", "committed"},
                                  job : JobId, day : Day \cup {None}]]
         /\ \A v \in Worker : exec'[v].stage # "idle" =>
              exec'[v].job \in DOMAIN jobs /\ exec'[v].day \in Day
  BY DEF TypeInv, TypeOK

LEMMA FetchType ==
  ASSUME TypeInv, NEW w \in Worker, Fetch(w)
  PROVE  TypeInv'
  <1>1. exec[w].day \in Day
    BY WorkingType DEF Fetch
  <1>2. fetched' \in [Kind -> [Day -> Day \cup {None}]]
    BY <1>1 DEF Fetch, TypeInv, TypeOK
  <1>3. exec[w].stage # "idle" /\ exec' = [exec EXCEPT ![w].stage = "paged"]
    BY DEF Fetch
  <1>. QED
    BY <1>2, <1>3, StageType DEF Fetch, TypeInv, TypeOK, Watermark

LEMMA CommitType ==
  ASSUME TypeInv, NEW w \in Worker, Commit(w)
  PROVE  TypeInv'
  <1>1. Plan(w) \in Window
    BY WorkingType DEF Commit
  <1>2. /\ Plan(w).end \in Day /\ Plan(w).target \in Day /\ Plan(w).t0 \in Day
        /\ Plan(w).end + 1 \in Day \cup {MaxDay + 1}
        /\ Plan(w).t0 # None
    BY <1>1, DaysAssumption DEF Window, Day, None
  <1>3. /\ history' \in [next : Day \cup {MaxDay + 1}, frozen : Day \cup {None},
                         t0 : Day \cup {None}]
        /\ Watermark'
    <2>1. CASE Plan(w).kind = "history"
      BY <1>2, <2>1 DEF Commit, Watermark
    <2>2. CASE Plan(w).kind # "history"
      BY <2>2 DEF Commit, Watermark, TypeInv, TypeOK
    <2>. QED
      BY <2>1, <2>2
  <1>4. update' \in Day \cup {None, MaxDay + 1}
    BY <1>2 DEF Commit, TypeInv, TypeOK
  <1>5. exec[w].stage # "idle" /\ exec' = [exec EXCEPT ![w].stage = "committed"]
    BY DEF Commit
  <1>. QED
    BY <1>3, <1>4, <1>5, StageType DEF Commit, TypeInv, TypeOK

\* The execution that carries a task on.
LEMMA SuccessorType ==
  ASSUME NEW r \in Execution, NEW p \in Window
  PROVE  LET next == [r EXCEPT !.plan = p, !.status = "queued", !.index = @ + 1] IN
         next \in Execution /\ next.shops = r.shops
  <1>. DEFINE next == [r EXCEPT !.plan = p, !.status = "queued", !.index = @ + 1]
  <1>1. next = [[[r EXCEPT !.plan = p] EXCEPT !.status = "queued"] EXCEPT !.index = r.index + 1]
    BY DEF Execution
  <1>2. r.index + 1 \in Nat
    BY DEF Execution
  <1>3. [r EXCEPT !.plan = p] \in Execution /\ [r EXCEPT !.plan = p].shops = r.shops
    BY DEF Execution
  <1>4. [[r EXCEPT !.plan = p] EXCEPT !.status = "queued"] \in Execution
        /\ [[r EXCEPT !.plan = p] EXCEPT !.status = "queued"].shops = r.shops
    BY <1>3 DEF Execution, Active
  <1>. HIDE DEF next
  <1>5. next \in Execution /\ next.shops = r.shops
    BY <1>1, <1>2, <1>4 DEF Execution
  <1>. QED
    BY <1>5 DEF next

\* The rows a success leaves behind.
LEMMA FinishJobs ==
  ASSUME TypeInv, NEW w \in Worker, NEW how, Finish(w, how)
  PROVE  /\ jobs' \in Seq(Execution) /\ Len(jobs') <= MaxJobs
         /\ DOMAIN jobs \subseteq DOMAIN jobs'
         /\ \A j \in DOMAIN jobs : jobs'[j].plan = jobs[j].plan /\ jobs'[j].shops = jobs[j].shops
         /\ \A j \in DOMAIN jobs' : j \in DOMAIN jobs \/ jobs'[j].shops = jobs[exec[w].job].shops
  <1>. DEFINE j == exec[w].job
              status == IF how = "stop" THEN "ended" ELSE "success"
              row == [jobs[j] EXCEPT !.status = status]
              done == [jobs EXCEPT ![j] = row]
  <1>1. j \in DOMAIN jobs /\ Plan(w) \in Window
    BY WorkingType DEF Finish
  <1>2. row \in Execution
    BY <1>1, StatusType
  <1>3. /\ done \in Seq(Execution) /\ DOMAIN done = DOMAIN jobs /\ Len(done) = Len(jobs)
        /\ \A k \in DOMAIN jobs : done[k].plan = jobs[k].plan /\ done[k].shops = jobs[k].shops
    <2>1. done \in Seq(Execution) /\ Len(done) = Len(jobs)
      BY <1>1, <1>2, JobType, ExceptSeq DEF TypeInv, TypeOK
    <2>. QED
      BY <1>1, <2>1, JobType DEF Execution, TypeInv, TypeOK
  <1>4. CASE jobs' = done
    BY <1>3, <1>4 DEF TypeInv, TypeOK
  <1>5. ASSUME NEW p \in Chained(Plan(w)), Len(jobs) < MaxJobs,
               jobs' = Append(done, [jobs[j] EXCEPT !.plan = p, !.status = "queued",
                                                    !.index = @ + 1])
        PROVE  /\ jobs' \in Seq(Execution) /\ Len(jobs') <= MaxJobs
               /\ DOMAIN jobs \subseteq DOMAIN jobs'
               /\ \A k \in DOMAIN jobs : jobs'[k].plan = jobs[k].plan /\ jobs'[k].shops = jobs[k].shops
               /\ \A k \in DOMAIN jobs' : k \in DOMAIN jobs \/ jobs'[k].shops = jobs[exec[w].job].shops
    <2>. DEFINE next == [jobs[j] EXCEPT !.plan = p, !.status = "queued", !.index = @ + 1]
    <2>1. next \in Execution /\ next.shops = jobs[j].shops
      <3>1. p \in Window
        BY <1>1, <1>5, ChainedType
      <3>2. jobs[j] \in Execution
        BY <1>1, JobType
      <3>. QED
        BY <3>1, <3>2, SuccessorType
    <2>2. /\ jobs' \in Seq(Execution) /\ Len(jobs') = Len(jobs) + 1
          /\ \A k \in 1 .. Len(jobs) : jobs'[k] = done[k]
          /\ jobs'[Len(jobs) + 1] = next
      BY <1>3, <1>5, <2>1, AppendProperties
    <2>3. DOMAIN jobs = 1 .. Len(jobs) /\ DOMAIN jobs' = 1 .. Len(jobs) + 1 /\ Len(jobs) \in Nat
      BY <2>2, LenProperties DEF TypeInv, TypeOK
    <2>4. Len(jobs') <= MaxJobs
      BY <1>5, <2>2, <2>3, DaysAssumption
    <2>5. ASSUME NEW k \in DOMAIN jobs
          PROVE  k \in DOMAIN jobs' /\ jobs'[k].plan = jobs[k].plan /\ jobs'[k].shops = jobs[k].shops
      <3>1. k \in 1 .. Len(jobs) /\ k \in 1 .. Len(jobs) + 1
        BY <2>3
      <3>2. jobs'[k] = done[k]
        BY <2>2, <3>1
      <3>. HIDE DEF next, done
      <3>. QED
        BY <1>3, <2>3, <3>1, <3>2
    <2>6. ASSUME NEW k \in DOMAIN jobs', k \notin DOMAIN jobs
          PROVE  jobs'[k].shops = jobs[exec[w].job].shops
      <3>1. k = Len(jobs) + 1
        BY <2>3, <2>6
      <3>. QED
        BY <2>1, <2>2, <3>1
    <2>. QED
      BY <2>2, <2>4, <2>5, <2>6
  <1>6. \/ jobs' = done
        \/ \E p \in Chained(Plan(w)) : Len(jobs) < MaxJobs /\
             jobs' = Append(done, [jobs[j] EXCEPT !.plan = p, !.status = "queued",
                                                  !.index = @ + 1])
    BY DEF Finish
  <1>. QED
    BY <1>4, <1>5, <1>6

LEMMA WorkType ==
  ASSUME TypeInv, NEW w \in Worker, Work(w)
  PROVE  TypeInv'
  <1>1. ASSUME NEW j \in DOMAIN jobs, Rejected(w, j) PROVE TypeInv'
    <2>1. jobs' = [jobs EXCEPT ![j] = [jobs[j] EXCEPT !.status = "failed"]]
      BY <1>1 DEF Rejected
    <2>2. jobs' \in Seq(Execution) /\ DOMAIN jobs' = DOMAIN jobs /\ Len(jobs') = Len(jobs)
      BY <2>1, StatusType, RewriteType
    <2>. QED
      BY <1>1, <2>2 DEF Rejected, Rest, TypeInv, TypeOK, Watermark
  <1>2. ASSUME NEW status \in {"paused", "failed"}, Halt(w, status) PROVE TypeInv'
    BY <1>2, BackType DEF Halt, Active
  <1>3. ASSUME NEW how, Finish(w, how) PROVE TypeInv'
    BY <1>3, FinishJobs, IdleType, WorkFrame DEF Finish
  <1>4. CASE Fail(w)
    BY <1>4, BackType DEF Fail
  <1>. QED
    BY <1>1, <1>2, <1>3, <1>4, StartType, FetchType, CommitType DEF Work

LEMMA LoseType ==
  ASSUME TypeInv, NEW j \in DOMAIN jobs, Lose(j)
  PROVE  TypeInv'
  <1>1. jobs' = [jobs EXCEPT ![j] = [jobs[j] EXCEPT !.status = "failed"]]
    BY DEF Lose
  <1>2. jobs' \in Seq(Execution) /\ DOMAIN jobs' = DOMAIN jobs /\ Len(jobs') = Len(jobs)
    BY <1>1, StatusType, RewriteType
  <1>. QED
    BY <1>2 DEF Lose, Rest, TypeInv, TypeOK, Watermark

LEMMA NextTypeInv == TypeInv /\ [Next]_vars => TypeInv'
  <1>. SUFFICES ASSUME TypeInv, [Next]_vars PROVE TypeInv'
    OBVIOUS
  <1>1. CASE Midnight
    BY <1>1, DaysAssumption DEF Midnight, TypeInv, TypeOK, Watermark
  <1>2. CASE UNCHANGED vars
    BY <1>2 DEF vars, TypeInv, TypeOK, Watermark
  <1>. QED
    BY <1>1, <1>2, EntryType, WorkType, LoseType DEF Next

\* The checkpoints, the executions, the workers and the fetched days stay well
\* formed in every behaviour: windows lie between the floor and the last day,
\* and a worker past the claim works on an execution that exists.
THEOREM TypeCorrect == Spec => []TypeOK
  <1>1. TypeInv => TypeOK
    BY DEF TypeInv
  <1>. QED
    BY <1>1, InitTypeInv, NextTypeInv, PTL DEF Spec

-----------------------------------------------------------------------------
(* The history checkpoint has no gap.  HistoryHasNoGap is not inductive: a   *)
(* worker may commit a window it began long ago, so each execution past its  *)
(* claim must carry the fact that all days before its window were fetched.   *)

Covered(n) == \A d \in Day : d < n => fetched["history"][d] # None

WorkerCovered(w) ==
  exec[w].stage # "idle" /\ Plan(w).kind = "history" =>
    /\ Covered(Plan(w).start)
    /\ exec[w].stage # "paging" => Covered(Plan(w).end + 1)

AllShops == \A j \in DOMAIN jobs : jobs[j].shops = "all"

GapInv ==
  /\ TypeInv
  /\ AllShops
  /\ HistoryHasNoGap
  /\ \A w \in Worker : WorkerCovered(w)

\* No step changes the window or the shops of an execution that exists.
JobsKept ==
  /\ DOMAIN jobs \subseteq DOMAIN jobs'
  /\ \A j \in DOMAIN jobs : jobs'[j].plan = jobs[j].plan
  /\ AllShops'

LEMMA InsertKeeps ==
  ASSUME GapInv, NEW job \in Execution, job.shops = "all", Insert(job)
  PROVE  JobsKept
  <1>1. jobs \in Seq(Execution) /\ jobs' = Append(jobs, job)
    BY DEF GapInv, TypeInv, TypeOK, Insert
  <1>2. DOMAIN jobs = 1 .. Len(jobs) /\ Len(jobs) \in Nat
    BY <1>1, LenProperties
  <1>3. /\ DOMAIN jobs' = 1 .. Len(jobs) + 1
        /\ \A k \in 1 .. Len(jobs) : jobs'[k] = jobs[k]
        /\ jobs'[Len(jobs) + 1] = job
    BY <1>1, AppendProperties, LenProperties
  <1>. QED
    BY <1>2, <1>3 DEF JobsKept, GapInv, AllShops

LEMMA RewriteKeeps ==
  ASSUME GapInv, NEW j \in DOMAIN jobs, NEW job \in Execution,
         job.plan = jobs[j].plan, job.shops = jobs[j].shops,
         jobs' = [jobs EXCEPT ![j] = job]
  PROVE  JobsKept
  <1>1. DOMAIN jobs' = DOMAIN jobs
    BY RewriteType DEF GapInv
  <1>2. jobs \in Seq(Execution) /\ j \in 1 .. Len(jobs) /\ DOMAIN jobs = 1 .. Len(jobs)
    BY JobType, LenProperties DEF GapInv, TypeInv, TypeOK
  <1>3. \A k \in DOMAIN jobs : jobs'[k] = IF k = j THEN job ELSE jobs[k]
    BY <1>2, ExceptSeq
  <1>. QED
    BY <1>1, <1>3 DEF JobsKept, GapInv, AllShops

LEMMA StatusKeeps ==
  ASSUME GapInv, NEW j \in DOMAIN jobs, NEW status \in Active \cup {"success", "failed", "ended"},
         jobs' = [jobs EXCEPT ![j].status = status]
  PROVE  JobsKept
  <1>1. [jobs[j] EXCEPT !.status = status] \in Execution
    BY StatusType DEF GapInv
  <1>2. /\ [jobs[j] EXCEPT !.status = status].plan = jobs[j].plan
        /\ [jobs[j] EXCEPT !.status = status].shops = jobs[j].shops
    BY JobType DEF GapInv, Execution
  <1>. QED
    BY <1>1, <1>2, RewriteKeeps

LEMMA EntryKeeps ==
  ASSUME ~SomeShops, GapInv, Entry
  PROVE  JobsKept
  <1>. USE DEF GapInv
  <1>1. ASSUME NEW shops \in {"all", "some"}, CreateManual(shops) PROVE JobsKept
    <2>1. PICK p \in NextWindow :
            Insert(NewTask(p, Len(ClosedWindows(p.start, p.target)), p.start, p.target, shops))
      BY <1>1 DEF CreateManual
    <2>2. p \in Window /\ p.start \in Day /\ p.target \in Day /\ p.start <= p.target
      BY NextWindowType DEF Window
    <2>3. NewTask(p, Len(ClosedWindows(p.start, p.target)), p.start, p.target, shops) \in Execution
      BY <2>1, <2>2, ClosedWindowsLength, NewTaskType DEF Insert
    <2>4. shops = "all"
      BY <1>1 DEF CreateManual
    <2>. QED
      BY <2>1, <2>3, <2>4, InsertKeeps DEF NewTask
  <1>2. CASE CreateScheduled
    <2>1. PICK p \in NextWindow : Insert(NewTask(p, 1, p.start, p.end, "all"))
      BY <1>2 DEF CreateScheduled
    <2>2. p \in Window /\ p.start \in Day /\ p.end \in Day
      BY NextWindowType DEF Window
    <2>3. NewTask(p, 1, p.start, p.end, "all") \in Execution
      BY <2>1, <2>2, NewTaskType DEF Insert
    <2>. QED
      BY <2>1, <2>3, InsertKeeps DEF NewTask
  <1>3. ASSUME NEW first \in Day, NEW last \in Day, CreateCustom(first, last) PROVE JobsKept
    <2>1. Len(ClosedWindows(first, last)) \in Nat
      BY <1>3, ClosedWindowsLength DEF CreateCustom
    <2>2. CustomPlan(first, last) \in Window /\ CustomPlan(first, last).total \in Nat
      BY <1>3, <2>1, TodayFacts, WindowType DEF CreateCustom, CustomPlan, Kind, TypeInv
    <2>3. NewTask(CustomPlan(first, last), CustomPlan(first, last).total, first, last, "all")
            \in Execution
      BY <1>3, <2>2, NewTaskType DEF CreateCustom, Insert
    <2>. QED
      BY <1>3, <2>3, InsertKeeps DEF CreateCustom, NewTask
  <1>4. ASSUME NEW j \in DOMAIN jobs, Retry(j) PROVE JobsKept
    <2>1. PICK p \in RetryPlan(j) : Insert([jobs[j] EXCEPT !.plan = p, !.status = "queued"])
      BY <1>4 DEF Retry
    <2>2. p \in Window
      BY JobType, NextWindowType DEF RetryPlan
    <2>3. /\ [jobs[j] EXCEPT !.plan = p, !.status = "queued"] \in Execution
          /\ [jobs[j] EXCEPT !.plan = p, !.status = "queued"].shops = jobs[j].shops
      BY <2>2, JobType DEF Execution, Active
    <2>. QED
      BY <2>1, <2>3, InsertKeeps DEF AllShops
  <1>5. ASSUME NEW j \in DOMAIN jobs, RetryCaughtUp(j) PROVE JobsKept
    <2>1. /\ [jobs[j] EXCEPT !.resolved = TRUE] \in Execution
          /\ [jobs[j] EXCEPT !.resolved = TRUE].plan = jobs[j].plan
          /\ [jobs[j] EXCEPT !.resolved = TRUE].shops = jobs[j].shops
      BY JobType DEF Execution
    <2>2. jobs' = [jobs EXCEPT ![j] = [jobs[j] EXCEPT !.resolved = TRUE]]
      BY <1>5 DEF RetryCaughtUp
    <2>. QED
      BY <2>1, <2>2, RewriteKeeps
  <1>6. ASSUME NEW j \in DOMAIN jobs, Resume(j) PROVE JobsKept
    <2>1. /\ [jobs[j] EXCEPT !.status = "queued"] \in Execution
          /\ [jobs[j] EXCEPT !.status = "queued"].shops = jobs[j].shops
      BY JobType DEF Execution, Active
    <2>. QED
      BY <1>6, <2>1, InsertKeeps DEF Resume, AllShops
  <1>7. ASSUME NEW j \in DOMAIN jobs, Give(j) PROVE JobsKept
    BY <1>7, StatusKeeps DEF Give
  <1>. QED
    BY <1>1, <1>2, <1>3, <1>4, <1>5, <1>6, <1>7 DEF Entry

LEMMA WorkKeeps ==
  ASSUME GapInv, NEW w \in Worker, Work(w)
  PROVE  JobsKept
  <1>. USE DEF GapInv
  <1>1. CASE jobs' = jobs
    BY <1>1 DEF JobsKept, AllShops
  <1>2. ASSUME NEW j \in DOMAIN jobs, Start(w, j) \/ Rejected(w, j) PROVE JobsKept
    BY <1>2, StatusKeeps DEF Start, Rejected, Active
  <1>3. ASSUME NEW status \in {"paused", "failed"}, Halt(w, status) PROVE JobsKept
    BY <1>1, <1>3, WorkingType, StatusKeeps DEF Halt, Active
  <1>4. ASSUME NEW how, Finish(w, how) PROVE JobsKept
    <2>1. exec[w].job \in DOMAIN jobs
      BY <1>4, WorkingType DEF Finish
    <2>. QED
      BY <1>4, <2>1, FinishJobs DEF JobsKept, AllShops
  <1>5. CASE Fail(w)
    BY <1>1, <1>5, WorkingType, StatusKeeps DEF Fail
  <1>6. CASE Fetch(w) \/ Commit(w)
    BY <1>1, <1>6 DEF Fetch, Commit
  <1>. QED
    BY <1>2, <1>3, <1>4, <1>5, <1>6 DEF Work

\* Steps that leave the checkpoint, the fetched days and the workers alone.
LEMMA RestCovers ==
  ASSUME GapInv, JobsKept, TypeInv', UNCHANGED <<history, fetched, exec>>
  PROVE  GapInv'
  <1>1. HistoryHasNoGap'
    BY DEF GapInv, HistoryHasNoGap
  <1>2. ASSUME NEW w \in Worker PROVE WorkerCovered(w)'
    <2>1. CASE exec[w].stage = "idle"
      BY <2>1 DEF WorkerCovered
    <2>2. CASE exec[w].stage # "idle"
      <3>1. Plan(w)' = Plan(w)
        BY <2>2, WorkingType DEF GapInv, JobsKept, Plan
      <3>. QED
        BY <3>1 DEF GapInv, WorkerCovered, Covered
    <2>. QED
      BY <2>1, <2>2
  <1>. QED
    BY <1>1, <1>2 DEF GapInv, JobsKept

\* The other workers, when one of them takes a step that keeps the rows and at
\* most adds to the fetched days.
LEMMA OthersCovered ==
  ASSUME GapInv, JobsKept, NEW w \in Worker, NEW v \in Worker, v # w,
         exec'[v] = exec[v],
         \A d \in Day : fetched["history"][d] # None => fetched'["history"][d] # None
  PROVE  WorkerCovered(v)'
  <1>1. CASE exec[v].stage = "idle"
    BY <1>1 DEF WorkerCovered
  <1>2. CASE exec[v].stage # "idle"
    <2>1. Plan(v)' = Plan(v)
      BY <1>2, WorkingType DEF GapInv, JobsKept, Plan
    <2>. QED
      BY <2>1 DEF GapInv, WorkerCovered, Covered
  <1>. QED
    BY <1>1, <1>2

\* A worker becomes idle.
LEMMA BackCovers ==
  ASSUME GapInv, JobsKept, TypeInv', NEW w \in Worker,
         exec' = [exec EXCEPT ![w] = Idle], UNCHANGED <<history, fetched>>
  PROVE  GapInv'
  <1>1. HistoryHasNoGap'
    BY DEF GapInv, HistoryHasNoGap
  <1>2. exec'[w] = Idle /\ \A v \in Worker : v # w => exec'[v] = exec[v]
    BY DEF GapInv, TypeInv, TypeOK
  <1>3. WorkerCovered(w)'
    BY <1>2 DEF WorkerCovered, Idle
  <1>4. \A v \in Worker : WorkerCovered(v)'
    BY <1>2, <1>3, OthersCovered
  <1>. QED
    BY <1>1, <1>4 DEF GapInv, JobsKept

\* The engine accepts a window of the backfill only where the checkpoint is.
LEMMA StartCovers ==
  ASSUME GapInv, JobsKept, TypeInv', NEW w \in Worker, NEW j \in DOMAIN jobs, Start(w, j)
  PROVE  GapInv'
  <1>1. HistoryHasNoGap'
    BY DEF GapInv, HistoryHasNoGap, Start
  <1>2. /\ exec'[w] = [stage |-> "paging", job |-> j, day |-> today]
        /\ \A v \in Worker : v # w => exec'[v] = exec[v]
    BY DEF Start, GapInv, TypeInv, TypeOK
  <1>3. WorkerCovered(w)'
    <2>1. Plan(w)' = jobs[j].plan
      BY <1>2 DEF Plan, JobsKept
    <2>2. jobs[j].plan.kind = "history" => jobs[j].plan.start = history.next
      BY DEF Start, Accepts
    <2>. QED
      BY <1>2, <2>1, <2>2 DEF WorkerCovered, Covered, GapInv, HistoryHasNoGap, Start
  <1>4. \A v \in Worker : WorkerCovered(v)'
    BY <1>2, <1>3, OthersCovered DEF Start
  <1>. QED
    BY <1>1, <1>4 DEF GapInv, JobsKept

LEMMA FetchCovers ==
  ASSUME GapInv, JobsKept, TypeInv', NEW w \in Worker, Fetch(w)
  PROVE  GapInv'
  <1>1. /\ exec'[w].stage = "paged" /\ exec'[w].job = exec[w].job
        /\ \A v \in Worker : v # w => exec'[v] = exec[v]
    BY DEF Fetch, GapInv, TypeInv, TypeOK
  <1>2. /\ exec[w].job \in DOMAIN jobs /\ exec[w].day \in Day
        /\ Plan(w) \in Window /\ Plan(w)' = Plan(w)
        /\ jobs[exec[w].job].shops = "all"
    BY <1>1, WorkingType DEF Fetch, GapInv, AllShops, JobsKept, Plan
  <1>3. exec[w].day # None
    BY <1>2, DaysAssumption DEF Day, None
  <1>4. \A d \in Day : fetched["history"][d] # None => fetched'["history"][d] # None
    BY <1>3 DEF Fetch, Kind
  <1>5. Plan(w).kind = "history" =>
          \A d \in Day : d \in Span(Plan(w)) => fetched'["history"][d] # None
    BY <1>2, <1>3 DEF Fetch, Kind
  <1>6. HistoryHasNoGap'
    BY <1>4 DEF GapInv, HistoryHasNoGap, Fetch
  <1>7. WorkerCovered(w)'
    <2>1. ASSUME Plan(w).kind = "history"
          PROVE  Covered(Plan(w).start)' /\ Covered(Plan(w).end + 1)'
      <3>1. Covered(Plan(w).start)
        BY <2>1 DEF GapInv, WorkerCovered, Fetch
      <3>2. Covered(Plan(w).start)'
        BY <1>2, <1>4, <3>1 DEF Covered
      <3>3. ASSUME NEW d \in Day, d < Plan(w).end + 1
            PROVE  fetched'["history"][d] # None
        <4>1. d < Plan(w).start \/ d \in Span(Plan(w))
          BY <1>2, <3>3, DaysAssumption DEF Window, Day, Span
        <4>. QED
          BY <1>4, <1>5, <2>1, <3>1, <4>1 DEF Covered
      <3>. QED
        BY <1>2, <3>2, <3>3 DEF Covered
    <2>. QED
      BY <1>2, <2>1 DEF WorkerCovered
  <1>8. \A v \in Worker : WorkerCovered(v)'
    BY <1>1, <1>4, <1>7, OthersCovered
  <1>. QED
    BY <1>6, <1>8 DEF GapInv, JobsKept

LEMMA CommitCovers ==
  ASSUME GapInv, JobsKept, TypeInv', NEW w \in Worker, Commit(w)
  PROVE  GapInv'
  <1>1. /\ exec'[w].stage = "committed" /\ exec'[w].job = exec[w].job
        /\ \A v \in Worker : v # w => exec'[v] = exec[v]
        /\ fetched' = fetched
    BY DEF Commit, GapInv, TypeInv, TypeOK
  <1>2. exec[w].job \in DOMAIN jobs /\ Plan(w)' = Plan(w)
    BY <1>1, WorkingType DEF Commit, GapInv, JobsKept, Plan
  <1>3. Plan(w).kind = "history" => Covered(Plan(w).start) /\ Covered(Plan(w).end + 1)
    BY DEF Commit, GapInv, WorkerCovered
  <1>4. HistoryHasNoGap'
    <2>1. CASE Plan(w).kind = "history"
      <3>1. history'.next = Plan(w).end + 1
        BY <2>1 DEF Commit
      <3>. QED
        BY <1>1, <1>3, <2>1, <3>1 DEF HistoryHasNoGap, Covered
    <2>2. CASE Plan(w).kind # "history"
      BY <1>1, <2>2 DEF Commit, GapInv, HistoryHasNoGap
    <2>. QED
      BY <2>1, <2>2
  <1>5. WorkerCovered(w)'
    BY <1>1, <1>2, <1>3 DEF WorkerCovered, Covered
  <1>6. \A v \in Worker : WorkerCovered(v)'
    BY <1>1, <1>5, OthersCovered
  <1>. QED
    BY <1>4, <1>6 DEF GapInv, JobsKept

LEMMA InitGapInv == Init => GapInv
  <1>. SUFFICES ASSUME Init PROVE GapInv
    OBVIOUS
  <1>1. AllShops
    <2>1. DOMAIN jobs = {}
      BY EmptySeq, LenProperties DEF Init
    <2>. QED
      BY <2>1 DEF AllShops
  <1>2. HistoryHasNoGap
    BY DaysAssumption DEF Init, HistoryHasNoGap, Day
  <1>3. \A w \in Worker : WorkerCovered(w)
    BY DEF Init, Idle, WorkerCovered
  <1>. QED
    BY <1>1, <1>2, <1>3, InitTypeInv DEF GapInv

LEMMA NextGapInv ==
  ASSUME ~SomeShops
  PROVE  GapInv /\ [Next]_vars => GapInv'
  <1>. SUFFICES ASSUME GapInv, [Next]_vars PROVE GapInv'
    OBVIOUS
  <1>1. TypeInv'
    BY NextTypeInv DEF GapInv
  <1>2. CASE Entry
    <2>1. UNCHANGED <<history, fetched, exec>>
      BY <1>2 DEF Entry, CreateManual, CreateScheduled, CreateCustom, Retry, RetryCaughtUp,
                  Resume, Give, Insert, Rest
    <2>. QED
      BY <1>1, <1>2, <2>1, EntryKeeps, RestCovers
  <1>3. ASSUME NEW w \in Worker, Work(w) PROVE GapInv'
    <2>1. JobsKept
      BY <1>3, WorkKeeps
    <2>2. ASSUME NEW j \in DOMAIN jobs, Start(w, j) PROVE GapInv'
      BY <1>1, <2>1, <2>2, StartCovers
    <2>3. ASSUME NEW j \in DOMAIN jobs, Rejected(w, j) PROVE GapInv'
      BY <1>1, <2>1, <2>3, RestCovers DEF Rejected, Rest
    <2>4. CASE Fetch(w)
      BY <1>1, <2>1, <2>4, FetchCovers
    <2>5. CASE Commit(w)
      BY <1>1, <2>1, <2>5, CommitCovers
    <2>6. ASSUME NEW status \in {"paused", "failed"}, Halt(w, status) PROVE GapInv'
      BY <1>1, <2>1, <2>6, BackCovers DEF Halt
    <2>7. ASSUME NEW how, Finish(w, how) PROVE GapInv'
      BY <1>1, <2>1, <2>7, BackCovers DEF Finish
    <2>8. CASE Fail(w)
      BY <1>1, <2>1, <2>8, BackCovers DEF Fail
    <2>. QED
      BY <1>3, <2>2, <2>3, <2>4, <2>5, <2>6, <2>7, <2>8 DEF Work
  <1>4. ASSUME NEW j \in DOMAIN jobs, Lose(j) PROVE GapInv'
    <2>1. JobsKept
      BY <1>4, StatusKeeps DEF Lose
    <2>. QED
      BY <1>1, <1>4, <2>1, RestCovers DEF Lose, Rest
  <1>5. CASE Midnight \/ UNCHANGED vars
    <2>1. jobs' = jobs /\ UNCHANGED <<history, fetched, exec>>
      BY <1>5 DEF Midnight, vars
    <2>2. JobsKept
      BY <2>1 DEF JobsKept, GapInv, AllShops
    <2>. QED
      BY <1>1, <2>1, <2>2, RestCovers
  <1>. QED
    BY <1>2, <1>3, <1>4, <1>5 DEF Next

\* While every task asks for all shops, the history checkpoint never claims a
\* business date that no complete fetch covered: for any windows, lags, retries,
\* pauses and crashes, and also when jobs are lost while their workers run on.
THEOREM HistoryComplete ==
  ASSUME ~SomeShops
  PROVE  Spec => []HistoryHasNoGap
  <1>1. GapInv => HistoryHasNoGap
    BY DEF GapInv
  <1>. QED
    BY <1>1, InitGapInv, NextGapInv, PTL DEF Spec
-----------------------------------------------------------------------------
(* Who owns what.  The queue lets one execution of the target be active, and *)
(* only a worker that claimed it when it waited works on it.                 *)

\* What a row keeps for good.
SameWindow(r, s) ==
  /\ r.plan = s.plan /\ r.task = s.task /\ r.index = s.index /\ r.windows = s.windows
  /\ r.first = s.first /\ r.last = s.last /\ r.since = s.since /\ r.shops = s.shops

\* No row is added and no status changes.
SameRows ==
  /\ DOMAIN jobs' = DOMAIN jobs
  /\ \A k \in DOMAIN jobs : SameWindow(jobs'[k], jobs[k]) /\ jobs'[k].status = jobs[k].status

\* Only the status of j changes.
StatusOf(j, status) ==
  /\ DOMAIN jobs' = DOMAIN jobs
  /\ \A k \in DOMAIN jobs :
       /\ SameWindow(jobs'[k], jobs[k])
       /\ jobs'[k].status = IF k = j THEN status ELSE jobs[k].status

\* A row is added and the others are left alone.
Added(job) ==
  /\ DOMAIN jobs' = DOMAIN jobs \cup {Len(jobs) + 1}
  /\ \A k \in DOMAIN jobs : jobs'[k] = jobs[k]
  /\ jobs'[Len(jobs) + 1] = job

\* j comes to an end, and a row that carries its task on is added.
Followed(j, status, job) ==
  /\ DOMAIN jobs' = DOMAIN jobs \cup {Len(jobs) + 1}
  /\ \A k \in DOMAIN jobs :
       /\ SameWindow(jobs'[k], jobs[k])
       /\ jobs'[k].status = IF k = j THEN status ELSE jobs[k].status
  /\ jobs'[Len(jobs) + 1] = job

LEMMA RowsLength ==
  ASSUME TypeInv
  PROVE  /\ DOMAIN jobs = 1 .. Len(jobs) /\ Len(jobs) \in Nat
         /\ Len(jobs) + 1 \notin DOMAIN jobs
         /\ \A k \in DOMAIN jobs : k \in Nat /\ k < Len(jobs) + 1
  BY LenProperties DEF TypeInv, TypeOK

LEMMA InsertAdds ==
  ASSUME TypeInv, NEW job \in Execution, Insert(job)
  PROVE  Added(job)
  <1>1. jobs \in Seq(Execution) /\ jobs' = Append(jobs, job)
    BY DEF TypeInv, TypeOK, Insert
  <1>2. /\ DOMAIN jobs' = 1 .. Len(jobs) + 1
        /\ \A k \in 1 .. Len(jobs) : jobs'[k] = jobs[k]
        /\ jobs'[Len(jobs) + 1] = job
    BY <1>1, AppendProperties, LenProperties
  <1>. QED
    BY <1>2, RowsLength DEF Added

LEMMA StatusWrites ==
  ASSUME TypeInv, NEW j \in DOMAIN jobs, NEW status, jobs' = [jobs EXCEPT ![j].status = status]
  PROVE  StatusOf(j, status)
  <1>1. DOMAIN jobs' = DOMAIN jobs
    OBVIOUS
  <1>2. ASSUME NEW k \in DOMAIN jobs
        PROVE  /\ SameWindow(jobs'[k], jobs[k])
               /\ jobs'[k].status = IF k = j THEN status ELSE jobs[k].status
    <2>1. jobs[k] \in Execution
      BY JobType
    <2>2. jobs'[k] = IF k = j THEN [jobs[k] EXCEPT !.status = status] ELSE jobs[k]
      OBVIOUS
    <2>. QED
      BY <2>1, <2>2 DEF SameWindow, Execution
  <1>. QED
    BY <1>1, <1>2 DEF StatusOf

LEMMA ResolvedWrites ==
  ASSUME TypeInv, NEW j \in DOMAIN jobs, jobs' = [jobs EXCEPT ![j].resolved = TRUE]
  PROVE  SameRows
  <1>1. DOMAIN jobs' = DOMAIN jobs
    OBVIOUS
  <1>2. ASSUME NEW k \in DOMAIN jobs
        PROVE  SameWindow(jobs'[k], jobs[k]) /\ jobs'[k].status = jobs[k].status
    <2>1. jobs[k] \in Execution
      BY JobType
    <2>2. jobs'[k] = IF k = j THEN [jobs[k] EXCEPT !.resolved = TRUE] ELSE jobs[k]
      OBVIOUS
    <2>. QED
      BY <2>1, <2>2 DEF SameWindow, Execution
  <1>. QED
    BY <1>1, <1>2 DEF SameRows

\* The row that carries a task on.
Successor(r, p) == [r EXCEPT !.plan = p, !.status = "queued", !.index = @ + 1]

LEMMA SuccessorFields ==
  ASSUME NEW r \in Execution, NEW p \in Window
  PROVE  /\ Successor(r, p) \in Execution
         /\ Successor(r, p).plan = p /\ Successor(r, p).status = "queued"
         /\ Successor(r, p).index = r.index + 1
         /\ Successor(r, p).task = r.task /\ Successor(r, p).windows = r.windows
         /\ Successor(r, p).first = r.first /\ Successor(r, p).last = r.last
         /\ Successor(r, p).since = r.since /\ Successor(r, p).shops = r.shops
  <1>. DEFINE a == [r EXCEPT !.plan = p]
              b == [a EXCEPT !.status = "queued"]
              c == [b EXCEPT !.index = r.index + 1]
  <1>1. Successor(r, p) = c
    BY DEF Successor, Execution
  <1>2. /\ a \in Execution /\ a.plan = p /\ a.task = r.task /\ a.index = r.index
        /\ a.windows = r.windows /\ a.first = r.first /\ a.last = r.last
        /\ a.since = r.since /\ a.shops = r.shops
    BY DEF Execution
  <1>. HIDE DEF a
  <1>3. /\ b \in Execution /\ b.plan = p /\ b.task = r.task /\ b.status = "queued"
        /\ b.windows = r.windows /\ b.first = r.first /\ b.last = r.last
        /\ b.since = r.since /\ b.shops = r.shops
    BY <1>2 DEF Execution, Active
  <1>. HIDE DEF b
  <1>4. r.index + 1 \in Nat
    BY DEF Execution
  <1>5. /\ c \in Execution /\ c.plan = p /\ c.task = r.task /\ c.status = "queued"
        /\ c.windows = r.windows /\ c.first = r.first /\ c.last = r.last
        /\ c.since = r.since /\ c.shops = r.shops /\ c.index = r.index + 1
    BY <1>3, <1>4 DEF Execution
  <1>. QED
    BY <1>1, <1>5

EndStatus(how) == IF how = "stop" THEN "ended" ELSE "success"

\* What Finish does to the rows.
LEMMA FinishRows ==
  ASSUME TypeInv, NEW w \in Worker, NEW how, Finish(w, how)
  PROVE  \/ StatusOf(exec[w].job, EndStatus(how))
         \/ \E p \in Chained(Plan(w)) :
              /\ p \in Window
              /\ how = "chain"
              /\ Followed(exec[w].job, EndStatus(how), Successor(jobs[exec[w].job], p))
  <1>. DEFINE j == exec[w].job
              done == [jobs EXCEPT ![j].status = EndStatus(how)]
  <1>1. j \in DOMAIN jobs /\ Plan(w) \in Window /\ jobs[j] \in Execution
    BY WorkingType, JobType DEF Finish
  <1>2. \/ jobs' = done
        \/ /\ how = "chain"
           /\ \E p \in Chained(Plan(w)) : jobs' = Append(done, Successor(jobs[j], p))
    BY DEF Finish, EndStatus, Successor
  <1>3. CASE jobs' = done
    <2>1. StatusOf(j, EndStatus(how))
      BY <1>1, <1>3, StatusWrites
    <2>. QED
      BY <2>1
  <1>4. ASSUME how = "chain", NEW p \in Chained(Plan(w)), jobs' = Append(done, Successor(jobs[j], p))
        PROVE  p \in Window /\ Followed(j, EndStatus(how), Successor(jobs[j], p))
    <2>1. p \in Window
      BY <1>1, ChainedType
    <2>2. Successor(jobs[j], p) \in Execution
      BY <1>1, <2>1, SuccessorFields
    <2>3. [jobs[j] EXCEPT !.status = EndStatus(how)] \in Execution
      BY <1>1, StatusType DEF EndStatus
    <2>4. done \in Seq(Execution) /\ Len(done) = Len(jobs)
      <3>1. done = [jobs EXCEPT ![j] = [jobs[j] EXCEPT !.status = EndStatus(how)]]
        OBVIOUS
      <3>. QED
        BY <1>1, <2>3, <3>1, JobType, ExceptSeq DEF TypeInv, TypeOK
    <2>5. /\ DOMAIN jobs' = 1 .. Len(jobs) + 1
          /\ \A k \in 1 .. Len(jobs) : jobs'[k] = done[k]
          /\ jobs'[Len(jobs) + 1] = Successor(jobs[j], p)
      BY <1>4, <2>2, <2>4, AppendProperties, LenProperties
    <2>6. ASSUME NEW k \in DOMAIN jobs
          PROVE  /\ SameWindow(jobs'[k], jobs[k])
                 /\ jobs'[k].status = IF k = j THEN EndStatus(how) ELSE jobs[k].status
      <3>1. jobs[k] \in Execution /\ jobs'[k] = done[k]
        BY <2>5, JobType
      <3>2. done[k] = IF k = j THEN [jobs[k] EXCEPT !.status = EndStatus(how)] ELSE jobs[k]
        OBVIOUS
      <3>. HIDE DEF done
      <3>. QED
        BY <3>1, <3>2 DEF SameWindow, Execution
    <2>7. DOMAIN jobs' = DOMAIN jobs \cup {Len(jobs) + 1}
      BY <2>5, RowsLength
    <2>. QED
      BY <2>1, <2>5, <2>6, <2>7 DEF Followed
  <1>. QED
    BY <1>2, <1>3, <1>4
\* The row of a retry.
Retried(r, p) == [r EXCEPT !.plan = p, !.status = "queued"]

LEMMA RetriedFields ==
  ASSUME NEW r \in Execution, NEW p \in Window
  PROVE  /\ Retried(r, p) \in Execution
         /\ Retried(r, p).plan = p /\ Retried(r, p).status = "queued"
         /\ Retried(r, p).index = r.index
         /\ Retried(r, p).task = r.task /\ Retried(r, p).windows = r.windows
         /\ Retried(r, p).first = r.first /\ Retried(r, p).last = r.last
         /\ Retried(r, p).since = r.since /\ Retried(r, p).shops = r.shops
  <1>. DEFINE a == [r EXCEPT !.plan = p]
              b == [a EXCEPT !.status = "queued"]
  <1>1. Retried(r, p) = b
    BY DEF Retried, Execution
  <1>2. /\ a \in Execution /\ a.plan = p /\ a.task = r.task /\ a.index = r.index
        /\ a.windows = r.windows /\ a.first = r.first /\ a.last = r.last
        /\ a.since = r.since /\ a.shops = r.shops
    BY DEF Execution
  <1>. HIDE DEF a
  <1>3. /\ b \in Execution /\ b.plan = p /\ b.task = r.task /\ b.status = "queued"
        /\ b.windows = r.windows /\ b.first = r.first /\ b.last = r.last
        /\ b.since = r.since /\ b.shops = r.shops /\ b.index = r.index
    BY <1>2 DEF Execution, Active
  <1>. QED
    BY <1>1, <1>3

LEMMA ResumedIsRetried ==
  ASSUME NEW r \in Execution
  PROVE  [r EXCEPT !.status = "queued"] = Retried(r, r.plan)
  BY DEF Retried, Execution

LEMMA NewTaskFields ==
  ASSUME NEW p, NEW windows, NEW first, NEW last, NEW shops
  PROVE  LET job == NewTask(p, windows, first, last, shops) IN
         /\ job.plan = p /\ job.task = Len(jobs) + 1 /\ job.index = 1
         /\ job.windows = windows /\ job.first = first /\ job.last = last
         /\ job.since = today /\ job.shops = shops /\ job.status = "queued"
  BY DEF NewTask

\* The rows that the operations of the queue add.
ByManual(job) ==
  \E p \in NextWindow, shops \in {"all", "some"} :
    /\ shops = "some" => SomeShops
    /\ job = NewTask(p, Len(ClosedWindows(p.start, p.target)), p.start, p.target, shops)

ByScheduler(job) == \E p \in NextWindow : job = NewTask(p, 1, p.start, p.end, "all")

ByRange(job) ==
  \E first, last \in Day :
    /\ first <= last
    /\ job = NewTask(CustomPlan(first, last), CustomPlan(first, last).total, first, last, "all")

ByRetry(job) ==
  \E j \in DOMAIN jobs, p \in Window :
    Failed(j) /\ p \in RetryPlan(j) /\ job = Retried(jobs[j], p)

ByResumption(job) ==
  \E j \in DOMAIN jobs :
    jobs[j].status = "paused" /\ ActiveJobs = {j} /\ job = Retried(jobs[j], jobs[j].plan)

Entrant(job) ==
  \/ NoActiveJob /\ (ByManual(job) \/ ByScheduler(job) \/ ByRange(job) \/ ByRetry(job))
  \/ ByResumption(job)

\* What the operations do to the rows; they do nothing else.
LEMMA EntryRows ==
  ASSUME TypeInv, Entry
  PROVE  /\ UNCHANGED <<today, history, update, exec, fetched>>
         /\ \/ \E job \in Execution : Added(job) /\ Entrant(job)
            \/ SameRows
            \/ \E j \in DOMAIN jobs :
                 jobs[j].status \in {"queued", "paused"} /\ StatusOf(j, "ended")
  <1>. DEFINE Goal == \/ \E job \in Execution : Added(job) /\ Entrant(job)
                      \/ SameRows
                      \/ \E j \in DOMAIN jobs :
                           jobs[j].status \in {"queued", "paused"} /\ StatusOf(j, "ended")
  <1>1. UNCHANGED <<today, history, update, exec, fetched>>
    BY DEF Entry, CreateManual, CreateScheduled, CreateCustom, Retry, RetryCaughtUp,
           Resume, Give, Insert, Rest
  <1>2. ASSUME NEW shops \in {"all", "some"}, CreateManual(shops) PROVE Goal
    <2>1. PICK p \in NextWindow :
            Insert(NewTask(p, Len(ClosedWindows(p.start, p.target)), p.start, p.target, shops))
      BY <1>2 DEF CreateManual
    <2>. DEFINE job == NewTask(p, Len(ClosedWindows(p.start, p.target)), p.start, p.target, shops)
    <2>2. p \in Window /\ p.start \in Day /\ p.target \in Day /\ p.start <= p.target
      BY NextWindowType DEF Window
    <2>3. job \in Execution
      BY <2>1, <2>2, ClosedWindowsLength, NewTaskType DEF Insert
    <2>4. ByManual(job) /\ NoActiveJob
      BY <1>2 DEF ByManual, CreateManual
    <2>5. Insert(job)
      BY <2>1
    <2>. HIDE DEF job
    <2>. QED
      BY <2>3, <2>4, <2>5, InsertAdds DEF Entrant
  <1>3. ASSUME CreateScheduled PROVE Goal
    <2>1. PICK p \in NextWindow : Insert(NewTask(p, 1, p.start, p.end, "all"))
      BY <1>3 DEF CreateScheduled
    <2>. DEFINE job == NewTask(p, 1, p.start, p.end, "all")
    <2>2. p \in Window /\ p.start \in Day /\ p.end \in Day
      BY NextWindowType DEF Window
    <2>3. job \in Execution
      BY <2>1, <2>2, NewTaskType DEF Insert
    <2>4. ByScheduler(job) /\ NoActiveJob
      BY <1>3 DEF ByScheduler, CreateScheduled
    <2>5. Insert(job)
      BY <2>1
    <2>. HIDE DEF job
    <2>. QED
      BY <2>3, <2>4, <2>5, InsertAdds DEF Entrant
  <1>4. ASSUME NEW first \in Day, NEW last \in Day, CreateCustom(first, last) PROVE Goal
    <2>. DEFINE job == NewTask(CustomPlan(first, last), CustomPlan(first, last).total,
                               first, last, "all")
    <2>1. Len(ClosedWindows(first, last)) \in Nat
      BY <1>4, ClosedWindowsLength DEF CreateCustom
    <2>2. CustomPlan(first, last) \in Window /\ CustomPlan(first, last).total \in Nat
      BY <1>4, <2>1, TodayFacts, WindowType DEF CreateCustom, CustomPlan, Kind, TypeInv
    <2>3. Insert(job)
      BY <1>4 DEF CreateCustom
    <2>4. job \in Execution
      BY <1>4, <2>2, <2>3, NewTaskType DEF CreateCustom, Insert
    <2>5. ByRange(job) /\ NoActiveJob
      BY <1>4 DEF ByRange, CreateCustom
    <2>. HIDE DEF job
    <2>. QED
      BY <2>3, <2>4, <2>5, InsertAdds DEF Entrant
  <1>5. ASSUME NEW j \in DOMAIN jobs, Retry(j) PROVE Goal
    <2>1. PICK p \in RetryPlan(j) : Insert(Retried(jobs[j], p))
      BY <1>5 DEF Retry, Retried
    <2>2. p \in Window /\ jobs[j] \in Execution
      BY JobType, NextWindowType DEF RetryPlan
    <2>3. Retried(jobs[j], p) \in Execution
      BY <2>2, RetriedFields
    <2>4. ByRetry(Retried(jobs[j], p)) /\ NoActiveJob
      BY <1>5, <2>2 DEF ByRetry, Retry
    <2>. QED
      BY <2>1, <2>3, <2>4, InsertAdds DEF Entrant
  <1>6. ASSUME NEW j \in DOMAIN jobs, RetryCaughtUp(j) PROVE Goal
    BY <1>6, ResolvedWrites DEF RetryCaughtUp
  <1>7. ASSUME NEW j \in DOMAIN jobs, Resume(j) PROVE Goal
    <2>1. jobs[j] \in Execution /\ jobs[j].plan \in Window
      BY JobType
    <2>2. Insert(Retried(jobs[j], jobs[j].plan))
      BY <1>7, <2>1, ResumedIsRetried DEF Resume
    <2>3. Retried(jobs[j], jobs[j].plan) \in Execution
      BY <2>1, RetriedFields
    <2>4. ByResumption(Retried(jobs[j], jobs[j].plan))
      BY <1>7 DEF ByResumption, Resume
    <2>. QED
      BY <2>2, <2>3, <2>4, InsertAdds DEF Entrant
  <1>8. ASSUME NEW j \in DOMAIN jobs, Give(j) PROVE Goal
    BY <1>8, StatusWrites DEF Give
  <1>. HIDE DEF Goal
  <1>9. Goal
    BY <1>2, <1>3, <1>4, <1>5, <1>6, <1>7, <1>8 DEF Entry
  <1>. QED
    BY <1>1, <1>9 DEF Goal

\* What a worker does to the rows.
LEMMA WorkRows ==
  ASSUME TypeInv, NEW w \in Worker, Work(w)
  PROVE  \/ \E j \in DOMAIN jobs : Start(w, j) /\ StatusOf(j, "running")
         \/ \E j \in DOMAIN jobs : Rejected(w, j) /\ StatusOf(j, "failed")
         \/ Fetch(w) /\ SameRows
         \/ Commit(w) /\ SameRows
         \/ /\ (\E status \in {"paused", "failed"} : Halt(w, status)) \/ Fail(w)
            /\ \/ ~Running(w) /\ SameRows
               \/ /\ Running(w)
                  /\ \E status \in {"paused", "failed"} :
                       /\ StatusOf(exec[w].job, status)
                       /\ status = "paused" => Halt(w, status)
         \/ \E how \in {"chain", "ineligible", "stop"} :
              /\ Finish(w, how)
              /\ \/ StatusOf(exec[w].job, EndStatus(how))
                 \/ \E p \in Chained(Plan(w)) :
                      /\ p \in Window /\ how = "chain"
                      /\ Followed(exec[w].job, EndStatus(how), Successor(jobs[exec[w].job], p))
  <1>1. jobs' = jobs => SameRows
    BY DEF SameRows, SameWindow
  <1>2. ASSUME NEW j \in DOMAIN jobs, Start(w, j)
        PROVE  StatusOf(j, "running")
    BY <1>2, StatusWrites DEF Start
  <1>3. ASSUME NEW j \in DOMAIN jobs, Rejected(w, j)
        PROVE  StatusOf(j, "failed")
    BY <1>3, StatusWrites DEF Rejected
  <1>4. ASSUME NEW status \in {"paused", "failed"}, Halt(w, status)
        PROVE  \/ ~Running(w) /\ SameRows
               \/ Running(w) /\ StatusOf(exec[w].job, status)
    <2>1. exec[w].job \in DOMAIN jobs
      BY <1>4, WorkingType DEF Halt
    <2>. QED
      BY <1>1, <1>4, <2>1, StatusWrites DEF Halt
  <1>5. ASSUME Fail(w)
        PROVE  \/ ~Running(w) /\ SameRows
               \/ Running(w) /\ StatusOf(exec[w].job, "failed")
    <2>1. exec[w].job \in DOMAIN jobs
      BY <1>5, WorkingType DEF Fail
    <2>. QED
      BY <1>1, <1>5, <2>1, StatusWrites DEF Fail
  <1>6. (Fetch(w) \/ Commit(w)) => jobs' = jobs
    BY DEF Fetch, Commit
  <1>7. CASE \E j \in DOMAIN jobs : Start(w, j) \/ Rejected(w, j)
    BY <1>2, <1>3, <1>7
  <1>8. CASE Fetch(w) \/ Commit(w)
    BY <1>1, <1>6, <1>8
  <1>9. CASE \E status \in {"paused", "failed"} : Halt(w, status)
    BY <1>4, <1>9
  <1>10. CASE Fail(w)
    BY <1>5, <1>10
  <1>11. CASE \E how \in {"chain", "ineligible", "stop"} : Finish(w, how)
    BY <1>11, FinishRows
  <1>. QED
    BY <1>7, <1>8, <1>9, <1>10, <1>11 DEF Work
\* An execution that waits or runs is the current one of its task.
LiveIsCurrent ==
  \A j \in DOMAIN jobs : jobs[j].status \in {"queued", "running"} => IsCurrent(j)

\* The target has one active execution.
OneActive == \A i, j \in ActiveJobs : i = j

\* What a worker works on was claimed, by this worker.
Claimed ==
  /\ \A w \in Worker : exec[w].stage # "idle" => jobs[exec[w].job].status # "queued"
  /\ \A v, w \in Worker :
       exec[v].stage # "idle" /\ exec[w].stage # "idle" /\ exec[v].job = exec[w].job => v = w

\* No claim is lost while its worker runs on.
StillOwned == ~LocksDrop => \A w \in Worker : exec[w].stage # "idle" => Running(w)

OwnInv == TypeInv /\ LiveIsCurrent /\ OneActive /\ Claimed /\ StillOwned

\* The statuses alone decide about the first two.
LEMMA StatusOwn ==
  ASSUME OwnInv, NEW j \in DOMAIN jobs, NEW status, StatusOf(j, status),
         jobs[j].status \in {"queued", "running"} \/ status \notin Active,
         status # "queued"
  PROVE  LiveIsCurrent' /\ OneActive'
  <1>1. \A k \in DOMAIN jobs' : k \in DOMAIN jobs /\ (IsCurrent(k)' <=> IsCurrent(k))
    BY DEF StatusOf, SameWindow, IsCurrent
  <1>2. IsCurrent(j) \/ status \notin Active
    BY DEF OwnInv, LiveIsCurrent
  <1>3. jobs[j].status \in Active \/ status \notin Active
    BY DEF Active
  <1>4. LiveIsCurrent'
    BY <1>1, <1>2 DEF OwnInv, LiveIsCurrent, StatusOf, Active
  <1>5. ActiveJobs' \subseteq ActiveJobs
    BY <1>1, <1>2, <1>3 DEF ActiveJobs, StatusOf
  <1>. QED
    BY <1>4, <1>5 DEF OwnInv, OneActive

LEMMA SameOwn ==
  ASSUME OwnInv, SameRows
  PROVE  LiveIsCurrent' /\ OneActive'
  <1>1. \A k \in DOMAIN jobs' : k \in DOMAIN jobs /\ (IsCurrent(k)' <=> IsCurrent(k))
    BY DEF SameRows, SameWindow, IsCurrent
  <1>. QED
    BY <1>1 DEF OwnInv, LiveIsCurrent, OneActive, ActiveJobs, SameRows

\* A row enters the queue when no other is active, or in the place of the paused one.
LEMMA EntrantOwn ==
  ASSUME OwnInv, NEW job \in Execution, Added(job), Entrant(job)
  PROVE  /\ LiveIsCurrent' /\ OneActive'
         /\ job.status = "queued"
         /\ \A k \in DOMAIN jobs : jobs[k].status \notin {"queued", "running"}
         /\ ActiveJobs' = {Len(jobs) + 1}
  <1>. PICK n \in Nat : n = Len(jobs) + 1
    BY RowsLength DEF OwnInv
  <1>1. TypeInv /\ n \notin DOMAIN jobs /\ n \in DOMAIN jobs' /\ jobs'[n] = job
    BY RowsLength DEF OwnInv, Added
  <1>2. \A k \in DOMAIN jobs : k \in Nat /\ k < n
    BY <1>1, RowsLength
  <1>3. \/ NoActiveJob
        \/ \E j \in DOMAIN jobs :
             jobs[j].status = "paused" /\ ActiveJobs = {j} /\ job.task = jobs[j].task
    <2>1. CASE NoActiveJob
      BY <2>1
    <2>2. ASSUME NEW j \in DOMAIN jobs, jobs[j].status = "paused", ActiveJobs = {j},
                 job = Retried(jobs[j], jobs[j].plan)
          PROVE  job.task = jobs[j].task
      BY <1>1, <2>2, JobType, RetriedFields
    <2>. QED
      BY <2>1, <2>2 DEF Entrant, ByResumption
  <1>4. job.status = "queued"
    <2>1. ASSUME NEW j \in DOMAIN jobs, NEW p \in Window, job = Retried(jobs[j], p)
          PROVE  job.status = "queued"
      BY <1>1, <2>1, JobType, RetriedFields
    <2>2. CASE ByManual(job) \/ ByScheduler(job) \/ ByRange(job)
      BY <2>2 DEF ByManual, ByScheduler, ByRange, NewTask
    <2>3. \A j \in DOMAIN jobs : jobs[j].plan \in Window
      BY <1>1, JobType
    <2>. QED
      BY <2>1, <2>2, <2>3 DEF Entrant, ByRetry, ByResumption
  <1>5. \A k \in DOMAIN jobs : jobs[k].status \in {"queued", "running"} => k \in ActiveJobs
    BY DEF OwnInv, LiveIsCurrent, ActiveJobs, Active
  <1>6. \A k \in DOMAIN jobs : jobs[k].status \notin {"queued", "running"}
    BY <1>3, <1>5 DEF NoActiveJob
  <1>7. DOMAIN jobs' = DOMAIN jobs \cup {n} /\ \A k \in DOMAIN jobs : jobs'[k] = jobs[k]
    BY DEF Added
  <1>8. \A k \in DOMAIN jobs : IsCurrent(k)' => IsCurrent(k) /\ jobs[k].task # job.task
    BY <1>1, <1>2, <1>7 DEF IsCurrent
  <1>9. IsCurrent(n)'
    BY <1>1, <1>2, <1>7 DEF IsCurrent
  <1>10. \A k \in DOMAIN jobs : k \notin ActiveJobs'
    <2>1. ASSUME NEW k \in DOMAIN jobs, k \in ActiveJobs' PROVE FALSE
      <3>1. k \in ActiveJobs /\ jobs[k].task # job.task
        BY <1>7, <1>8, <2>1 DEF ActiveJobs
      <3>. QED
        BY <1>3, <3>1 DEF NoActiveJob
    <2>. QED
      BY <2>1
  <1>11. ActiveJobs' = {n}
    BY <1>1, <1>4, <1>7, <1>9, <1>10 DEF ActiveJobs, Active
  <1>12. OneActive'
    BY <1>11 DEF OneActive
  <1>13. LiveIsCurrent'
    BY <1>1, <1>6, <1>7, <1>9 DEF LiveIsCurrent
  <1>. QED
    BY <1>4, <1>6, <1>11, <1>12, <1>13

\* So does the row that carries a task on, when the execution before it ends.
LEMMA FollowedOwn ==
  ASSUME OwnInv, NEW j \in DOMAIN jobs, jobs[j].status = "running",
         NEW status \in {"success", "ended"}, NEW p \in Window,
         Followed(j, status, Successor(jobs[j], p))
  PROVE  /\ LiveIsCurrent' /\ OneActive'
         /\ \A k \in DOMAIN jobs : jobs'[k].status \notin {"queued", "running"}
         /\ ActiveJobs' = {Len(jobs) + 1}
  <1>. DEFINE job == Successor(jobs[j], p)
  <1>. PICK n \in Nat : n = Len(jobs) + 1
    BY RowsLength DEF OwnInv
  <1>1. TypeInv /\ n \notin DOMAIN jobs /\ n \in DOMAIN jobs' /\ jobs'[n] = job
    BY RowsLength DEF OwnInv, Followed
  <1>2. \A k \in DOMAIN jobs : k \in Nat /\ k < n
    BY <1>1, RowsLength
  <1>3. job.task = jobs[j].task /\ job.status = "queued"
    BY <1>1, JobType, SuccessorFields
  <1>. HIDE DEF job
  <1>4. /\ DOMAIN jobs' = DOMAIN jobs \cup {n}
        /\ \A k \in DOMAIN jobs : jobs'[k].task = jobs[k].task
        /\ \A k \in DOMAIN jobs : jobs'[k].status = IF k = j THEN status ELSE jobs[k].status
    BY DEF Followed, SameWindow
  <1>5. \A k \in DOMAIN jobs : jobs[k].status \in {"queued", "running"} => k \in ActiveJobs
    BY DEF OwnInv, LiveIsCurrent, ActiveJobs, Active
  <1>6. \A k \in ActiveJobs : k = j
    BY <1>5 DEF OwnInv, OneActive
  <1>7. \A k \in DOMAIN jobs : jobs'[k].status \notin {"queued", "running"}
    BY <1>4, <1>5, <1>6
  <1>8. \A k \in DOMAIN jobs : IsCurrent(k)' => IsCurrent(k)
    BY <1>1, <1>2, <1>4 DEF IsCurrent
  <1>9. IsCurrent(n)'
    BY <1>1, <1>2, <1>4 DEF IsCurrent
  <1>10. \A k \in DOMAIN jobs : k \notin ActiveJobs'
    <2>1. ASSUME NEW k \in DOMAIN jobs, k \in ActiveJobs' PROVE FALSE
      <3>1. IsCurrent(k) /\ jobs'[k].status \in Active
        BY <1>8, <2>1 DEF ActiveJobs
      <3>2. k # j /\ jobs[k].status \in Active
        BY <1>4, <3>1 DEF Active
      <3>3. k \in ActiveJobs
        BY <3>1, <3>2 DEF ActiveJobs
      <3>. QED
        BY <1>6, <3>2, <3>3
    <2>. QED
      BY <2>1
  <1>11. ActiveJobs' = {n}
    BY <1>1, <1>3, <1>4, <1>9, <1>10 DEF ActiveJobs, Active
  <1>12. OneActive'
    BY <1>11 DEF OneActive
  <1>13. LiveIsCurrent'
    BY <1>1, <1>4, <1>7, <1>9 DEF LiveIsCurrent
  <1>. QED
    BY <1>7, <1>11, <1>12, <1>13
LEMMA InitOwn == Init => OwnInv
  <1>. SUFFICES ASSUME Init PROVE OwnInv
    OBVIOUS
  <1>1. DOMAIN jobs = {}
    BY EmptySeq, LenProperties DEF Init
  <1>2. \A w \in Worker : exec[w].stage = "idle"
    BY DEF Init, Idle
  <1>. QED
    BY <1>1, <1>2, InitTypeInv
       DEF OwnInv, LiveIsCurrent, OneActive, ActiveJobs, Claimed, StillOwned

\* Steps that leave the workers alone.
LEMMA RestOwn ==
  ASSUME OwnInv, UNCHANGED exec,
         \A w \in Worker : exec[w].stage # "idle" =>
           /\ jobs'[exec[w].job].status # "queued"
           /\ ~LocksDrop => jobs'[exec[w].job].status = "running"
  PROVE  Claimed' /\ StillOwned'
  BY DEF OwnInv, Claimed, StillOwned, Running

LEMMA EntryOwn ==
  ASSUME OwnInv, Entry
  PROVE  LiveIsCurrent' /\ OneActive' /\ Claimed' /\ StillOwned'
  <1>1. UNCHANGED exec
    BY EntryRows DEF OwnInv
  <1>2. ASSUME NEW w \in Worker, exec[w].stage # "idle"
        PROVE  /\ exec[w].job \in DOMAIN jobs
               /\ jobs[exec[w].job].status # "queued"
               /\ ~LocksDrop => jobs[exec[w].job].status = "running"
    BY <1>2, WorkingType DEF OwnInv, Claimed, StillOwned, Running
  <1>3. ASSUME NEW job \in Execution, Added(job), Entrant(job)
        PROVE  LiveIsCurrent' /\ OneActive' /\ Claimed' /\ StillOwned'
    <2>1. \A w \in Worker : exec[w].stage # "idle" => jobs'[exec[w].job] = jobs[exec[w].job]
      BY <1>2, <1>3 DEF Added
    <2>. QED
      BY <1>1, <1>2, <1>3, <2>1, EntrantOwn, RestOwn
  <1>4. CASE SameRows
    <2>1. \A w \in Worker : exec[w].stage # "idle" =>
            jobs'[exec[w].job].status = jobs[exec[w].job].status
      BY <1>2, <1>4 DEF SameRows
    <2>. QED
      BY <1>1, <1>2, <1>4, <2>1, SameOwn, RestOwn
  <1>5. ASSUME NEW j \in DOMAIN jobs, jobs[j].status \in {"queued", "paused"},
               StatusOf(j, "ended")
        PROVE  LiveIsCurrent' /\ OneActive' /\ Claimed' /\ StillOwned'
    <2>1. LiveIsCurrent' /\ OneActive'
      BY <1>5, StatusOwn DEF Active
    <2>2. \A w \in Worker : exec[w].stage # "idle" =>
            /\ jobs'[exec[w].job].status # "queued"
            /\ ~LocksDrop => jobs'[exec[w].job].status = "running"
      BY <1>2, <1>5 DEF StatusOf
    <2>. QED
      BY <1>1, <2>1, <2>2, RestOwn
  <1>. QED
    BY <1>3, <1>4, <1>5, EntryRows DEF OwnInv

\* A worker goes on or stops; no row waits that did not wait before, but for a new
\* one, and the rows of the other workers stay as they are.
LEMMA StepOwn ==
  ASSUME OwnInv, NEW w \in Worker, exec[w].stage # "idle",
         \A v \in Worker : v # w => exec'[v] = exec[v],
         exec'[w].stage # "idle" =>
           /\ exec'[w].job = exec[w].job
           /\ jobs'[exec[w].job].status = jobs[exec[w].job].status,
         \A k \in DOMAIN jobs : k # exec[w].job => jobs'[k].status = jobs[k].status
  PROVE  Claimed' /\ StillOwned'
  <1>1. ASSUME NEW v \in Worker, exec[v].stage # "idle"
        PROVE  exec[v].job \in DOMAIN jobs
    BY <1>1, WorkingType DEF OwnInv
  <1>2. ASSUME NEW v \in Worker, v # w, exec[v].stage # "idle"
        PROVE  jobs'[exec[v].job].status = jobs[exec[v].job].status
    <2>1. exec[v].job # exec[w].job
      BY <1>2 DEF OwnInv, Claimed
    <2>. QED
      BY <1>1, <1>2, <2>1
  <1>3. Claimed'
    BY <1>2 DEF OwnInv, Claimed
  <1>4. StillOwned'
    BY <1>2 DEF OwnInv, StillOwned, Running
  <1>. QED
    BY <1>3, <1>4

LEMMA WorkOwn ==
  ASSUME OwnInv, NEW w \in Worker, Work(w)
  PROVE  LiveIsCurrent' /\ OneActive' /\ Claimed' /\ StillOwned'
  <1>. DEFINE Goal == LiveIsCurrent' /\ OneActive' /\ Claimed' /\ StillOwned'
  <1>1. TypeInv /\ exec \in [Worker -> [stage : {"idle", "paging", "paged", "committed"},
                                        job : JobId, day : Day \cup {None}]]
    BY DEF OwnInv, TypeInv, TypeOK
  <1>2. \A v \in Worker : exec[v].stage # "idle" =>
          exec[v].job \in DOMAIN jobs /\ jobs[exec[v].job].status # "queued"
    BY <1>1, WorkingType DEF OwnInv, Claimed
  <1>3. ASSUME NEW j \in DOMAIN jobs, Start(w, j), StatusOf(j, "running") PROVE Goal
    <2>1. LiveIsCurrent' /\ OneActive'
      BY <1>3, StatusOwn DEF Start
    <2>2. /\ exec'[w] = [stage |-> "paging", job |-> j, day |-> today]
          /\ \A v \in Worker : v # w => exec'[v] = exec[v]
          /\ jobs[j].status = "queued"
      BY <1>1, <1>3 DEF Start
    <2>3. \A v \in Worker : exec[v].stage # "idle" =>
            exec[v].job # j /\ jobs'[exec[v].job].status = jobs[exec[v].job].status
      BY <1>2, <1>3, <2>2 DEF StatusOf
    <2>4. jobs'[j].status = "running" /\ exec'[w].job = j
      BY <1>3, <2>2 DEF StatusOf
    <2>5. Claimed'
      BY <1>2, <2>2, <2>3, <2>4 DEF OwnInv, Claimed
    <2>6. StillOwned'
      BY <1>2, <2>2, <2>3, <2>4 DEF OwnInv, StillOwned, Running
    <2>. QED
      BY <2>1, <2>5, <2>6
  <1>4. ASSUME NEW j \in DOMAIN jobs, Rejected(w, j), StatusOf(j, "failed") PROVE Goal
    <2>1. LiveIsCurrent' /\ OneActive'
      BY <1>4, StatusOwn DEF Active
    <2>2. jobs[j].status = "queued" /\ UNCHANGED exec
      BY <1>4 DEF Rejected, Rest
    <2>3. \A v \in Worker : exec[v].stage # "idle" =>
            jobs'[exec[v].job].status = jobs[exec[v].job].status
      BY <1>2, <1>4, <2>2 DEF StatusOf
    <2>4. Claimed' /\ StillOwned'
      BY <1>2, <2>2, <2>3, RestOwn DEF OwnInv, StillOwned, Running
    <2>. QED
      BY <2>1, <2>4
  <1>5. ASSUME Fetch(w) \/ Commit(w), SameRows PROVE Goal
    <2>1. /\ exec[w].stage # "idle" /\ exec'[w].job = exec[w].job
          /\ \A v \in Worker : v # w => exec'[v] = exec[v]
      BY <1>1, <1>5 DEF Fetch, Commit
    <2>2. \A k \in DOMAIN jobs : jobs'[k].status = jobs[k].status
      BY <1>5 DEF SameRows
    <2>3. Claimed' /\ StillOwned'
      BY <1>2, <2>1, <2>2, StepOwn
    <2>. QED
      BY <1>5, <2>3, SameOwn
  <1>6. ASSUME exec[w].stage # "idle", exec' = [exec EXCEPT ![w] = Idle],
               \A k \in DOMAIN jobs : k # exec[w].job => jobs'[k].status = jobs[k].status
        PROVE  Claimed' /\ StillOwned'
    <2>1. exec'[w].stage = "idle" /\ \A v \in Worker : v # w => exec'[v] = exec[v]
      BY <1>1, <1>6 DEF Idle
    <2>. QED
      BY <1>6, <2>1, StepOwn
  <1>7. ASSUME (\E status \in {"paused", "failed"} : Halt(w, status)) \/ Fail(w),
               SameRows
        PROVE  Goal
    <2>1. exec[w].stage # "idle" /\ exec' = [exec EXCEPT ![w] = Idle]
      BY <1>7 DEF Halt, Fail
    <2>. QED
      BY <1>6, <1>7, <2>1, SameOwn DEF SameRows
  <1>8. ASSUME (\E status \in {"paused", "failed"} : Halt(w, status)) \/ Fail(w),
               Running(w), NEW status \in {"paused", "failed"}, StatusOf(exec[w].job, status)
        PROVE  Goal
    <2>1. exec[w].stage # "idle" /\ exec' = [exec EXCEPT ![w] = Idle]
      BY <1>8 DEF Halt, Fail
    <2>2. LiveIsCurrent' /\ OneActive'
      BY <1>2, <1>8, <2>1, StatusOwn DEF Running
    <2>. QED
      BY <1>6, <1>8, <2>1, <2>2 DEF StatusOf
  <1>9. ASSUME NEW how, Finish(w, how), StatusOf(exec[w].job, EndStatus(how)) PROVE Goal
    <2>1. exec[w].stage # "idle" /\ exec' = [exec EXCEPT ![w] = Idle] /\ Running(w)
      BY <1>9 DEF Finish
    <2>2. LiveIsCurrent' /\ OneActive'
      BY <1>2, <1>9, <2>1, StatusOwn DEF EndStatus, Active
    <2>. QED
      BY <1>6, <1>9, <2>1, <2>2 DEF StatusOf
  <1>10. ASSUME NEW how, Finish(w, how), NEW p \in Window,
                Followed(exec[w].job, EndStatus(how), Successor(jobs[exec[w].job], p))
         PROVE  Goal
    <2>1. exec[w].stage # "idle" /\ exec' = [exec EXCEPT ![w] = Idle] /\ Running(w)
      BY <1>10 DEF Finish
    <2>2. LiveIsCurrent' /\ OneActive'
      BY <1>2, <1>10, <2>1, FollowedOwn DEF EndStatus, Running
    <2>. QED
      BY <1>6, <1>10, <2>1, <2>2 DEF Followed
  <1>. HIDE DEF Goal
  <1>11. Goal
    BY <1>1, <1>3, <1>4, <1>5, <1>7, <1>8, <1>9, <1>10, WorkRows
  <1>. QED
    BY <1>11 DEF Goal

LEMMA NextOwn ==
  ASSUME OwnInv, [Next]_vars
  PROVE  OwnInv'
  <1>1. TypeInv'
    BY NextTypeInv DEF OwnInv
  <1>2. ASSUME NEW j \in DOMAIN jobs, Lose(j)
        PROVE  LiveIsCurrent' /\ OneActive' /\ Claimed' /\ StillOwned'
    <2>1. StatusOf(j, "failed") /\ jobs[j].status = "running" /\ UNCHANGED exec /\ LocksDrop
      BY <1>2, StatusWrites DEF OwnInv, Lose, Rest
    <2>2. LiveIsCurrent' /\ OneActive'
      BY <2>1, StatusOwn DEF Active
    <2>3. \A w \in Worker : exec[w].stage # "idle" => jobs'[exec[w].job].status # "queued"
      BY <2>1, WorkingType DEF OwnInv, Claimed, StatusOf
    <2>. QED
      BY <2>1, <2>2, <2>3, RestOwn
  <1>3. CASE Midnight \/ UNCHANGED vars
    <2>1. SameRows /\ UNCHANGED <<jobs, exec>>
      BY <1>3 DEF SameRows, SameWindow, Midnight, vars
    <2>. QED
      BY <1>1, <2>1, SameOwn DEF OwnInv, Claimed, StillOwned, Running
  <1>. QED
    BY <1>1, <1>2, <1>3, EntryOwn, WorkOwn DEF Next, OwnInv
-----------------------------------------------------------------------------
(* Counting windows.                                                        *)

LEMMA Times ==
  ASSUME NEW a \in Int, NEW b \in Int, NEW w \in Nat, a <= b
  PROVE  a * w <= b * w
  <1>1. b - a \in Nat /\ (b - a) * w \in Nat
    OBVIOUS
  <1>2. b * w = a * w + (b - a) * w
    OBVIOUS
  <1>. QED
    BY <1>1, <1>2

\* The windows of n + 1 days: enough for the days, and not one too many.
LEMMA CeilingBounds ==
  ASSUME NEW n \in Nat
  PROVE  /\ Ceiling(n + 1, WindowDays) \in Nat
         /\ n < Ceiling(n + 1, WindowDays) * WindowDays
         /\ \A k \in Nat : k * WindowDays <= n => k < Ceiling(n + 1, WindowDays)
  <1>. DEFINE q == (n + WindowDays) \div WindowDays
  <1>1. WindowDays \in Nat /\ WindowDays > 0
    BY DaysAssumption
  <1>2. Ceiling(n + 1, WindowDays) = q
    BY <1>1 DEF Ceiling
  <1>3. q \in Nat /\ n + WindowDays < (q + 1) * WindowDays
    BY <1>1
  <1>. HIDE DEF q
  <1>4. (q + 1) * WindowDays = q * WindowDays + WindowDays
    BY <1>1, <1>3
  <1>5. q * WindowDays \in Nat
    BY <1>1, <1>3
  <1>6. n < q * WindowDays
    BY <1>1, <1>3, <1>4, <1>5
  <1>7. ASSUME NEW k \in Nat, k * WindowDays <= n PROVE k < q
    <2>1. CASE q <= k
      <3>1. q * WindowDays <= k * WindowDays /\ k * WindowDays \in Nat
        BY <1>1, <1>3, <2>1, Times
      <3>. QED
        BY <1>5, <1>6, <1>7, <3>1
    <2>. QED
      BY <1>3, <2>1
  <1>. QED
    BY <1>2, <1>3, <1>6, <1>7

\* A window of a walk that began at the floor, and where the walk ends.
LEMMA WalkPosition ==
  ASSUME NEW k \in Nat, NEW target \in Day, Floor + k * WindowDays <= target
  PROVE  /\ ((Floor + k * WindowDays) - Floor) \div WindowDays = k
         /\ k < Ceiling(target - Floor + 1, WindowDays)
  <1>1. WindowDays \in Nat /\ WindowDays > 0 /\ Floor \in Int /\ target - Floor \in Nat
    BY DaysAssumption DEF Day
  <1>2. k * WindowDays \in Nat
    BY <1>1
  <1>3. (Floor + k * WindowDays) - Floor = k * WindowDays /\ k * WindowDays <= target - Floor
    BY <1>1, <1>2 DEF Day
  <1>4. (k * WindowDays) \div WindowDays = k
    BY <1>1, <1>2
  <1>. QED
    BY <1>1, <1>3, <1>4, CeilingBounds

LEMMA WalkCount ==
  ASSUME NEW k \in Nat, NEW target \in Day, NEW n \in Int,
         n = Floor + k * WindowDays, n <= target
  PROVE  Least((n - Floor) \div WindowDays, Ceiling(target - Floor + 1, WindowDays)) = k
  <1>1. ((Floor + k * WindowDays) - Floor) \div WindowDays = k
        /\ k < Ceiling(target - Floor + 1, WindowDays)
    BY WalkPosition
  <1>2. Ceiling(target - Floor + 1, WindowDays) \in Nat
    <2>1. target - Floor \in Nat
      BY DaysAssumption DEF Day
    <2>. QED
      BY <2>1, CeilingBounds
  <1>3. n - Floor = (Floor + k * WindowDays) - Floor
    OBVIOUS
  <1>. QED
    BY <1>1, <1>2, <1>3 DEF Least

LEMMA WalkEnd ==
  ASSUME NEW k \in Nat, NEW target \in Day,
         k + 1 >= Ceiling(target - Floor + 1, WindowDays)
  PROVE  target <= Floor + k * WindowDays + WindowDays - 1
  <1>1. WindowDays \in Nat /\ WindowDays > 0 /\ Floor \in Int /\ target - Floor \in Nat
    BY DaysAssumption DEF Day
  <1>. DEFINE q == Ceiling(target - Floor + 1, WindowDays)
  <1>2. q \in Nat /\ target - Floor < q * WindowDays
    BY <1>1, CeilingBounds
  <1>3. q <= k + 1
    BY <1>2
  <1>. HIDE DEF q
  <1>4. q * WindowDays <= (k + 1) * WindowDays
    BY <1>1, <1>2, <1>3, Times
  <1>5. (k + 1) * WindowDays = k * WindowDays + WindowDays /\ k * WindowDays \in Nat
    BY <1>1
  <1>6. q * WindowDays \in Nat
    BY <1>1, <1>2
  <1>. QED
    BY <1>1, <1>2, <1>4, <1>5, <1>6 DEF Day

-----------------------------------------------------------------------------
(* Where windows come from.                                                 *)

\* No window but these is ever planned.
Origin(p) ==
  \/ \E k \in DOMAIN jobs : p = jobs[k].plan
  \/ p \in NextWindow
  \/ \E first, last \in Day : first <= last /\ p = CustomPlan(first, last)
  \/ \E w \in Worker : exec[w].stage = "committed" /\ Running(w) /\ p \in Chained(Plan(w))

LEMMA EntrantOrigin ==
  ASSUME TypeInv, NEW job \in Execution, Entrant(job)
  PROVE  Origin(job.plan)
  <1>1. CASE ByManual(job)
    BY <1>1 DEF ByManual, NewTask, Origin
  <1>2. CASE ByScheduler(job)
    BY <1>2 DEF ByScheduler, NewTask, Origin
  <1>3. CASE ByRange(job)
    BY <1>3 DEF ByRange, NewTask, Origin
  <1>4. ASSUME NEW j \in DOMAIN jobs, NEW p \in Window, p \in RetryPlan(j),
               job = Retried(jobs[j], p)
        PROVE  Origin(job.plan)
    <2>1. job.plan = p
      BY <1>4, JobType, RetriedFields
    <2>2. p = jobs[j].plan \/ p \in NextWindow
      BY <1>4 DEF RetryPlan
    <2>. QED
      BY <2>1, <2>2 DEF Origin
  <1>5. ASSUME NEW j \in DOMAIN jobs, job = Retried(jobs[j], jobs[j].plan)
        PROVE  Origin(job.plan)
    <2>1. job.plan = jobs[j].plan
      BY <1>5, JobType, RetriedFields
    <2>. QED
      BY <2>1 DEF Origin
  <1>. QED
    BY <1>1, <1>2, <1>3, <1>4, <1>5 DEF Entrant, ByRetry, ByResumption

LEMMA PlanOrigins ==
  ASSUME TypeInv, [Next]_vars
  PROVE  /\ \A k \in DOMAIN jobs : k \in DOMAIN jobs' /\ SameWindow(jobs'[k], jobs[k])
         /\ \A j \in DOMAIN jobs' : Origin(jobs'[j].plan)
  <1>. DEFINE Goal == /\ \A k \in DOMAIN jobs : k \in DOMAIN jobs' /\ SameWindow(jobs'[k], jobs[k])
                      /\ \A j \in DOMAIN jobs' : Origin(jobs'[j].plan)
  <1>1. \A k \in DOMAIN jobs : Origin(jobs[k].plan) /\ SameWindow(jobs[k], jobs[k])
    BY DEF Origin, SameWindow
  <1>2. SameRows => Goal
    BY <1>1 DEF SameRows, SameWindow
  <1>3. ASSUME NEW j, NEW status, StatusOf(j, status) PROVE Goal
    BY <1>1, <1>3 DEF StatusOf, SameWindow
  <1>4. ASSUME NEW job \in Execution, Added(job), Entrant(job) PROVE Goal
    <2>1. Origin(job.plan)
      BY <1>4, EntrantOrigin
    <2>. HIDE DEF Entrant
    <2>2. \A k \in DOMAIN jobs : k \in DOMAIN jobs' /\ SameWindow(jobs'[k], jobs[k])
      BY <1>1, <1>4 DEF Added
    <2>3. \A j \in DOMAIN jobs' : Origin(jobs'[j].plan)
      BY <1>1, <1>4, <2>1 DEF Added
    <2>. QED
      BY <2>2, <2>3
  <1>5. ASSUME NEW w \in Worker, NEW how, Finish(w, how), NEW p \in Chained(Plan(w)),
               p \in Window,
               Followed(exec[w].job, EndStatus(how), Successor(jobs[exec[w].job], p))
        PROVE  Goal
    <2>1. Successor(jobs[exec[w].job], p).plan = p
      BY <1>5, WorkingType, JobType, SuccessorFields DEF Finish
    <2>2. Origin(p)
      BY <1>5 DEF Finish, Origin
    <2>3. \A k \in DOMAIN jobs : k \in DOMAIN jobs' /\ SameWindow(jobs'[k], jobs[k])
      BY <1>5 DEF Followed
    <2>4. \A k \in DOMAIN jobs : Origin(jobs'[k].plan)
      BY <1>1, <2>3 DEF SameWindow
    <2>5. \A j \in DOMAIN jobs' : Origin(jobs'[j].plan)
      BY <1>5, <2>1, <2>2, <2>4 DEF Followed
    <2>. QED
      BY <2>3, <2>5
  <1>6. jobs' = jobs => SameRows
    BY DEF SameRows, SameWindow
  <1>7. ASSUME NEW j \in DOMAIN jobs, Lose(j) PROVE StatusOf(j, "failed")
    BY <1>7, StatusWrites DEF Lose
  <1>. HIDE DEF Goal
  <1>8. CASE Entry
    BY <1>2, <1>3, <1>4, <1>8, EntryRows DEF Goal
  <1>9. ASSUME NEW w \in Worker, Work(w) PROVE Goal
    BY <1>2, <1>3, <1>5, <1>9, WorkRows
  <1>10. (Midnight \/ UNCHANGED vars) => jobs' = jobs
    BY DEF Midnight, vars
  <1>11. Goal
    BY <1>2, <1>3, <1>6, <1>7, <1>8, <1>9, <1>10 DEF Next, Goal
  <1>. QED
    BY <1>11 DEF Goal
-----------------------------------------------------------------------------
(* What a step does to a worker, the fetched days and the checkpoints.      *)

LEMMA OneRunning ==
  ASSUME OwnInv, NEW v \in Worker, NEW w \in Worker,
         exec[v].stage # "idle", exec[w].stage # "idle", Running(v), Running(w)
  PROVE  v = w
  <1>1. exec[v].job \in DOMAIN jobs /\ exec[w].job \in DOMAIN jobs
    BY WorkingType DEF OwnInv
  <1>2. exec[v].job \in ActiveJobs /\ exec[w].job \in ActiveJobs
    BY <1>1 DEF OwnInv, LiveIsCurrent, ActiveJobs, Running, Active
  <1>. QED
    BY <1>2 DEF OwnInv, OneActive, Claimed

\* A worker past its claim keeps its execution, and goes on by Fetch and Commit.
GoesOn(v) ==
  /\ exec[v].stage # "idle"
  /\ exec'[v].job = exec[v].job /\ exec'[v].day = exec[v].day
  /\ \/ exec'[v].stage = exec[v].stage
     \/ Fetch(v) /\ exec'[v].stage = "paged"
     \/ Commit(v) /\ exec'[v].stage = "committed"
  /\ jobs'[exec[v].job].status = "running" => Running(v)
  /\ jobs'[exec[v].job].plan = Plan(v)

LEMMA WorkerSteps ==
  ASSUME OwnInv, [Next]_vars, NEW v \in Worker, exec'[v].stage # "idle"
  PROVE  GoesOn(v) \/ \E j \in DOMAIN jobs : Start(v, j)
  <1>1. TypeInv /\ exec \in [Worker -> [stage : {"idle", "paging", "paged", "committed"},
                                        job : JobId, day : Day \cup {None}]]
    BY DEF OwnInv, TypeInv, TypeOK
  <1>2. ASSUME exec[v].stage # "idle"
        PROVE  /\ exec[v].job \in DOMAIN jobs /\ jobs[exec[v].job].status # "queued"
               /\ jobs'[exec[v].job].plan = Plan(v)
    BY <1>1, <1>2, WorkingType, PlanOrigins DEF OwnInv, Claimed, SameWindow, Plan
  <1>3. ASSUME exec' = exec,
               \A k \in DOMAIN jobs : jobs[k].status # "queued" /\ jobs'[k].status = "running"
                                        => jobs[k].status = "running"
        PROVE  GoesOn(v)
    BY <1>2, <1>3 DEF GoesOn, Running
  <1>4. CASE Entry
    <2>1. \A k \in DOMAIN jobs : jobs'[k].status = "running" => jobs[k].status = "running"
      BY <1>1, <1>4, EntryRows DEF Added, SameRows, StatusOf
    <2>. QED
      BY <1>1, <1>3, <1>4, <2>1, EntryRows
  <1>5. ASSUME NEW j \in DOMAIN jobs, Lose(j) PROVE GoesOn(v)
    <2>1. StatusOf(j, "failed") /\ exec' = exec
      BY <1>1, <1>5, StatusWrites DEF Lose, Rest
    <2>. QED
      BY <1>3, <2>1 DEF StatusOf
  <1>6. CASE Midnight \/ UNCHANGED vars
    BY <1>3, <1>6 DEF Midnight, vars
  <1>7. ASSUME NEW w \in Worker, Work(w)
        PROVE  GoesOn(v) \/ \E j \in DOMAIN jobs : Start(v, j)
    <2>1. ASSUME NEW j \in DOMAIN jobs, Start(w, j), StatusOf(j, "running"), w # v
          PROVE  GoesOn(v)
      <3>1. exec'[v] = exec[v] /\ jobs[j].status = "queued"
        BY <1>1, <2>1 DEF Start
      <3>2. jobs'[exec[v].job].status = jobs[exec[v].job].status
        BY <1>2, <2>1, <3>1 DEF StatusOf
      <3>. QED
        BY <1>2, <3>1, <3>2 DEF GoesOn, Running
    <2>2. ASSUME NEW j \in DOMAIN jobs, Rejected(w, j), StatusOf(j, "failed")
          PROVE  GoesOn(v)
      BY <1>3, <2>2 DEF Rejected, Rest, StatusOf
    <2>3. ASSUME Fetch(w) \/ Commit(w), SameRows PROVE GoesOn(v)
      <3>1. /\ exec[w].stage # "idle"
            /\ exec'[v].job = exec[v].job /\ exec'[v].day = exec[v].day
            /\ v # w => exec'[v] = exec[v]
            /\ v = w => \/ Fetch(v) /\ exec'[v].stage = "paged"
                        \/ Commit(v) /\ exec'[v].stage = "committed"
        BY <1>1, <2>3 DEF Fetch, Commit
      <3>2. exec[v].stage # "idle"
        BY <3>1
      <3>. QED
        BY <1>2, <2>3, <3>1, <3>2 DEF GoesOn, SameRows, Running
    <2>4. ASSUME exec' = [exec EXCEPT ![w] = Idle],
                 \A k \in DOMAIN jobs : jobs'[k].status = "running" => jobs[k].status = "running"
          PROVE  GoesOn(v)
      <3>1. exec'[v] = exec[v]
        BY <1>1, <2>4 DEF Idle
      <3>. QED
        BY <1>2, <2>4, <3>1 DEF GoesOn, Running
    <2>5. ASSUME (\E status \in {"paused", "failed"} : Halt(w, status)) \/ Fail(w),
                 \/ SameRows
                 \/ \E status \in {"paused", "failed"} : StatusOf(exec[w].job, status)
          PROVE  GoesOn(v)
      <3>1. exec' = [exec EXCEPT ![w] = Idle]
        BY <2>5 DEF Halt, Fail
      <3>2. \A k \in DOMAIN jobs : jobs'[k].status = "running" => jobs[k].status = "running"
        BY <2>5 DEF SameRows, StatusOf
      <3>. QED
        BY <2>4, <3>1, <3>2
    <2>6. ASSUME NEW how, Finish(w, how),
                 \/ StatusOf(exec[w].job, EndStatus(how))
                 \/ \E p : Followed(exec[w].job, EndStatus(how), p)
          PROVE  GoesOn(v)
      <3>1. exec' = [exec EXCEPT ![w] = Idle]
        BY <2>6 DEF Finish
      <3>2. \A k \in DOMAIN jobs : jobs'[k].status = "running" => jobs[k].status = "running"
        BY <2>6 DEF StatusOf, Followed, EndStatus
      <3>. QED
        BY <2>4, <3>1, <3>2
    <2>7. CASE \E j \in DOMAIN jobs : Start(v, j)
      BY <2>7
    <2>. QED
      BY <1>1, <1>7, <2>1, <2>2, <2>3, <2>5, <2>6, <2>7, WorkRows
  <1>. QED
    BY <1>4, <1>5, <1>6, <1>7 DEF Next

LEMMA DataSteps ==
  ASSUME [Next]_vars
  PROVE  /\ fetched' = fetched \/ \E w \in Worker : Fetch(w)
         /\ UNCHANGED <<history, update>> \/ \E w \in Worker : Commit(w)
         /\ today' = today \/ today' = today + 1
  BY DEF Next, vars, Entry, CreateManual, CreateScheduled, CreateCustom, Retry, RetryCaughtUp,
         Resume, Give, Insert, Rest, Work, Start, Rejected, Fetch, Halt, Commit, Finish, Fail,
         Lose, Midnight
-----------------------------------------------------------------------------
(* Nothing is missed at the switch to the changes.  Every window carries     *)
(* what was captured before it: a window of the backfill, that the days      *)
(* before it were fetched on its T0 or later; a window of changes, that all   *)
(* changes before it are captured.  Both survive executions that are lost,   *)
(* because what was fetched is only ever replaced by something fresher.      *)

FetchedBy(n, t) == \A d \in Day : d < n => fetched["history"][d] >= t

CapturedTo(n) == \A u \in Day : u < n => \A r \in Floor .. u : Captured(r, u)

WellPlanned(p) == p.start <= p.target /\ p.end = Least(p.start + WindowDays - 1, p.target)

HistoryWalk(p) ==
  /\ p.target = p.t0 - Lag
  /\ p.start = Floor + p.completed * WindowDays
  /\ p.total = Ceiling(p.target - Floor + 1, WindowDays)

PlanInv(p) ==
  /\ p.t0 <= today
  /\ WellPlanned(p)
  /\ p.kind = "history" => HistoryWalk(p) /\ FetchedBy(p.start, p.t0)
  /\ p.kind = "update" => p.target < today /\ CapturedTo(p.start)

PlansInv == \A p \in Window : (\E j \in DOMAIN jobs : jobs[j].plan = p) => PlanInv(p)

\* The history checkpoint is past its end, or where a window of its walk begins.
HistoryInv ==
  history.t0 # None =>
    /\ history.frozen \in Day /\ history.frozen = history.t0 - Lag
    /\ history.t0 <= today
    /\ FetchedBy(history.next, history.t0)
    /\ history.next > history.frozen \/ \E k \in Nat : history.next = Floor + k * WindowDays

UpdateInv == update # None => CapturedTo(update)

FetchedInv == \A k \in Kind : \A d \in Day : fetched[k][d] <= today

\* What a worker brings: it began on exec[w].day, and while it owns its execution
\* nobody fetches later.
DoneInv(w, p) ==
  /\ p.t0 <= exec[w].day /\ exec[w].day <= today
  /\ p.kind = "update" => p.target < exec[w].day
  /\ Running(w) => \A k \in Kind : \A d \in Day : fetched[k][d] <= exec[w].day
  /\ exec[w].stage # "paging" =>
       /\ p.kind = "history" => FetchedBy(p.end + 1, p.t0)
       /\ p.kind = "update" => CapturedTo(p.end + 1)

DonesInv ==
  \A w \in Worker, p \in Window : exec[w].stage # "idle" /\ Plan(w) = p => DoneInv(w, p)

SwitchInv ==
  /\ OwnInv /\ AllShops
  /\ PlansInv /\ HistoryInv /\ UpdateInv /\ FetchedInv /\ DonesInv

\* What the theorem asks of the configuration.
Switches == Incremental /\ ~SomeShops /\ Lag <= 1 /\ UpdateLag >= 1

LEMMA DayInt ==
  /\ Floor \in Int /\ MaxDay \in Int /\ WindowDays \in Nat /\ WindowDays > 0
  /\ Lag \in Nat /\ UpdateLag \in Nat
  /\ None = Floor - 1 /\ None \notin Day
  /\ \A d \in Day : d \in Int /\ Floor <= d /\ d <= MaxDay
  BY DaysAssumption DEF Day, None

LEMMA FetchedType ==
  ASSUME TypeInv, NEW k \in Kind, NEW d \in Day
  PROVE  fetched[k][d] \in Int
  BY DayInt DEF TypeInv, TypeOK

LEMMA HistoryPlanFields ==
  /\ HistoryPlan.kind = "history"
  /\ HistoryPlan.start = history.next
  /\ HistoryPlan.end = Least(history.next + WindowDays - 1, HistoryPlan.target)
  /\ HistoryPlan.t0 = IF history.t0 = None THEN today ELSE history.t0
  /\ HistoryPlan.target = IF history.frozen = None \/ (~Incremental /\ history.next > history.frozen)
                          THEN today - Lag ELSE history.frozen
  /\ HistoryPlan.total = Ceiling(HistoryPlan.target - Floor + 1, WindowDays)
  /\ HistoryPlan.completed = Least((history.next - Floor) \div WindowDays, HistoryPlan.total)
  BY DEF HistoryPlan

LEMMA UpdatePlanFields ==
  ASSUME NEW count
  PROVE  LET p == UpdatePlan(count) IN
         /\ p.kind = "update"
         /\ p.start = IF update = None THEN history.t0 ELSE update
         /\ p.target = today - UpdateLag
         /\ p.end = Least(p.start + WindowDays - 1, p.target)
         /\ p.t0 = history.t0
  BY DEF UpdatePlan

\* Once the backfill has passed its end, every change before T0 is captured.
LEMMA SwitchAtT0 ==
  ASSUME TypeInv, Switches, NEW n \in Int, NEW t \in Day, FetchedBy(n, t), n >= t
  PROVE  CapturedTo(t)
  <1>. SUFFICES ASSUME NEW u \in Day, u < t, NEW r \in Floor .. u
                PROVE  fetched["history"][r] > u
    BY DEF CapturedTo, Captured
  <1>1. r \in Day /\ r < n /\ r \in Int /\ u \in Int /\ t \in Int
    BY DayInt DEF Day
  <1>2. fetched["history"][r] \in Int /\ fetched["history"][r] >= t
    BY <1>1, FetchedType DEF FetchedBy, Kind
  <1>. QED
    BY <1>1, <1>2

LEMMA HistoryPlanInv ==
  ASSUME Switches, SwitchInv, HistoryPlan.start <= HistoryPlan.target
  PROVE  PlanInv(HistoryPlan)
  <1>. DEFINE p == HistoryPlan
  <1>1. TypeInv /\ today \in Day /\ today - Lag \in Day
    BY TodayFacts DEF SwitchInv, OwnInv, TypeInv
  <1>2. p \in Window
    BY <1>1, HistoryPlanType
  <1>3. WellPlanned(p)
    BY HistoryPlanFields DEF WellPlanned
  <1>4. CASE history.t0 = None
    <2>1. history.next = Floor /\ history.frozen = None
      BY <1>1, <1>4 DEF TypeInv, Watermark
    <2>2. p.t0 = today /\ p.target = today - Lag /\ p.start = Floor
      BY <1>4, <2>1, HistoryPlanFields
    <2>3. p.completed = 0
      <3>1. /\ Floor \in Int /\ Floor = Floor + 0 * WindowDays
            /\ Floor <= p.target /\ p.target \in Day
        BY <1>1, <2>2, DayInt
      <3>2. Least((Floor - Floor) \div WindowDays, Ceiling(p.target - Floor + 1, WindowDays)) = 0
        BY <3>1, WalkCount
      <3>. QED
        BY <2>1, <3>2, HistoryPlanFields
    <2>4. HistoryWalk(p)
      <3>1. p.start = Floor + p.completed * WindowDays
        BY <2>2, <2>3, DayInt
      <3>. QED
        BY <2>2, <3>1, HistoryPlanFields DEF HistoryWalk
    <2>5. FetchedBy(p.start, p.t0)
      BY <2>2, DayInt DEF FetchedBy
    <2>6. p.t0 <= today
      BY <1>1, <2>2, DayInt
    <2>. QED
      BY <1>3, <2>4, <2>5, <2>6, HistoryPlanFields DEF PlanInv
  <1>5. CASE history.t0 # None
    <2>1. /\ history.frozen \in Day /\ history.frozen = history.t0 - Lag
          /\ history.t0 <= today
          /\ FetchedBy(history.next, history.t0)
          /\ history.next > history.frozen \/ \E k \in Nat : history.next = Floor + k * WindowDays
      BY <1>5 DEF SwitchInv, HistoryInv
    <2>2. history.t0 \in Day
      BY <1>1, <1>5 DEF TypeInv, TypeOK
    <2>3. p.target = history.frozen /\ p.start = history.next /\ p.t0 = history.t0
      BY <1>5, <2>1, DayInt, HistoryPlanFields DEF Switches
    <2>4. p.target \in Day
      BY <2>1, <2>3
    <2>5. history.next \in Int
      BY <1>1, DayInt DEF TypeInv, TypeOK, Day
    <2>6. PICK k \in Nat : history.next = Floor + k * WindowDays
      BY <2>1, <2>3, <2>4, <2>5, DayInt
    <2>7. p.completed = k
      <3>1. Least((history.next - Floor) \div WindowDays,
                  Ceiling(p.target - Floor + 1, WindowDays)) = k
        <4>1. history.next <= p.target /\ p.target \in Int
          BY <2>3, <2>4, DayInt
        <4>. QED
          BY <2>3, <2>4, <2>5, <2>6, <4>1, WalkCount
      <3>. QED
        BY <3>1, HistoryPlanFields
    <2>8. HistoryWalk(p)
      BY <2>1, <2>3, <2>6, <2>7, HistoryPlanFields DEF HistoryWalk
    <2>. QED
      BY <1>3, <2>1, <2>3, <2>8, HistoryPlanFields DEF PlanInv
  <1>. QED
    BY <1>4, <1>5

LEMMA NextWindowInv ==
  ASSUME Switches, SwitchInv, NEW p \in NextWindow
  PROVE  PlanInv(p)
  <1>1. TypeInv /\ today \in Day /\ today - Lag \in Day
    BY TodayFacts DEF SwitchInv, OwnInv, TypeInv
  <1>2. CASE HistoryPlan.start <= HistoryPlan.target
    BY <1>2, HistoryPlanInv DEF NextWindow
  <1>3. CASE ~(HistoryPlan.start <= HistoryPlan.target)
    <2>1. p = UpdatePlan(HistoryPlan.total) /\ p.start <= p.target
      BY <1>3 DEF NextWindow
    <2>2. /\ p.kind = "update" /\ p.target = today - UpdateLag
          /\ p.start = IF update = None THEN history.t0 ELSE update
          /\ p.end = Least(p.start + WindowDays - 1, p.target)
          /\ p.t0 = history.t0
      BY <2>1, UpdatePlanFields
    <2>3. history.next \in Int
      BY <1>1, DayInt DEF TypeInv, TypeOK, Day
    <2>4. history.t0 # None
      <3>1. ASSUME history.t0 = None PROVE FALSE
        <4>1. history.next = Floor /\ history.frozen = None
          BY <1>1, <3>1 DEF TypeInv, Watermark
        <4>. QED
          BY <1>1, <1>3, <4>1, DayInt, HistoryPlanFields
      <3>. QED
        BY <3>1
    <2>5. /\ history.frozen \in Day /\ history.frozen = history.t0 - Lag
          /\ history.t0 \in Day /\ history.t0 <= today
          /\ FetchedBy(history.next, history.t0)
      BY <1>1, <2>4 DEF SwitchInv, HistoryInv, TypeInv, TypeOK
    <2>6. HistoryPlan.target = history.frozen /\ HistoryPlan.start = history.next
      BY <2>5, DayInt, HistoryPlanFields DEF Switches
    <2>7. history.next >= history.t0
      BY <1>3, <2>3, <2>5, <2>6, DayInt DEF Switches
    <2>8. CapturedTo(history.t0)
      BY <1>1, <2>3, <2>5, <2>7, SwitchAtT0
    <2>9. CapturedTo(p.start)
      BY <2>2, <2>8 DEF SwitchInv, UpdateInv
    <2>10. p.target < today
      BY <1>1, <2>2, DayInt DEF Switches
    <2>. QED
      BY <2>1, <2>2, <2>5, <2>9, <2>10 DEF PlanInv, WellPlanned
  <1>. QED
    BY <1>2, <1>3

LEMMA CustomInv ==
  ASSUME TypeInv, NEW first \in Day, NEW last \in Day, first <= last
  PROVE  PlanInv(CustomPlan(first, last))
  BY TodayFacts, DayInt DEF TypeInv, CustomPlan, PlanInv, WellPlanned

LEMMA FollowingFields ==
  ASSUME NEW p \in Window, NEW first, NEW last, NEW q \in Following(p, first, last)
  PROVE  /\ q.kind = p.kind /\ q.start = first /\ q.target = last
         /\ q.end = Least(first + WindowDays - 1, last)
         /\ q.t0 = p.t0 /\ q.completed = p.completed /\ q.total = p.total
         /\ ~(first > last)
  BY DEF Following, Window

LEMMA CompletedFields ==
  ASSUME NEW p \in Window
  PROVE  LET q == Completed(p) IN
         /\ q \in Window
         /\ q.kind = p.kind /\ q.start = p.start /\ q.end = p.end /\ q.target = p.target
         /\ q.t0 = p.t0 /\ q.total = p.total
         /\ q.completed = IF p.kind = "update" THEN p.completed ELSE p.completed + 1
  BY DEF Completed, Window

LEMMA ChainedInv ==
  ASSUME Switches, SwitchInv, NEW w \in Worker, exec[w].stage = "committed",
         NEW p \in Chained(Plan(w))
  PROVE  PlanInv(p)
  <1>. DEFINE q == Plan(w)
              c == Completed(q)
  <1>1. TypeInv /\ today \in Day
    BY TodayFacts DEF SwitchInv, OwnInv, TypeInv
  <1>2. exec[w].job \in DOMAIN jobs /\ q \in Window
    BY <1>1, WorkingType DEF Plan
  <1>3. PlanInv(q)
    BY <1>2 DEF SwitchInv, PlansInv, Plan
  <1>4. /\ q.kind = "history" => FetchedBy(q.end + 1, q.t0)
        /\ q.kind = "update" => CapturedTo(q.end + 1)
    BY <1>2 DEF SwitchInv, DonesInv, DoneInv
  <1>5. /\ c \in Window
        /\ c.kind = q.kind /\ c.end = q.end /\ c.target = q.target
        /\ c.t0 = q.t0 /\ c.total = q.total
        /\ c.completed = IF q.kind = "update" THEN q.completed ELSE q.completed + 1
    BY <1>2, CompletedFields
  <1>6. /\ q.start \in Day /\ q.end \in Day /\ q.target \in Day /\ q.t0 \in Day
        /\ q.completed \in Nat /\ q.kind \in Kind
    BY <1>2 DEF Window
  <1>7. q.start <= q.target /\ q.end = Least(q.start + WindowDays - 1, q.target) /\ q.t0 <= today
    BY <1>3 DEF PlanInv, WellPlanned
  <1>. HIDE DEF q, c
  <1>8. CASE q.kind = "history" /\ c.completed >= c.total
    <2>1. p \in UpdatesFrom(c, q.t0)
      BY <1>8 DEF Chained, c, q
    <2>2. PICK r \in Following(c, q.t0, today - UpdateLag) : p = [r EXCEPT !.kind = "update"]
      BY <2>1 DEF UpdatesFrom
    <2>3. /\ r.start = q.t0 /\ r.target = today - UpdateLag /\ r.t0 = q.t0
          /\ r.end = Least(q.t0 + WindowDays - 1, today - UpdateLag)
          /\ ~(q.t0 > today - UpdateLag)
      BY <1>5, <2>2, FollowingFields
    <2>4. /\ p.kind = "update" /\ p.start = r.start /\ p.target = r.target /\ p.t0 = r.t0
          /\ p.end = r.end
      <3>1. r = [c EXCEPT !.start = q.t0, !.end = Least(q.t0 + WindowDays - 1, today - UpdateLag),
                          !.target = today - UpdateLag]
        BY <2>2 DEF Following
      <3>. QED
        BY <1>5, <2>2, <3>1 DEF Window
    <2>5. q.target <= q.start + WindowDays - 1
      <3>1. /\ q.start = Floor + q.completed * WindowDays
            /\ q.total = Ceiling(q.target - Floor + 1, WindowDays)
        BY <1>3, <1>8 DEF PlanInv, HistoryWalk
      <3>2. q.completed + 1 >= Ceiling(q.target - Floor + 1, WindowDays)
        BY <1>5, <1>8, <3>1
      <3>. QED
        BY <1>6, <3>1, <3>2, WalkEnd
    <2>6. q.end = q.target /\ q.target = q.t0 - Lag
      BY <1>3, <1>6, <1>7, <1>8, <2>5, DayInt DEF Least, PlanInv, HistoryWalk
    <2>7. FetchedBy(q.end + 1, q.t0) /\ q.end + 1 >= q.t0 /\ q.end + 1 \in Int
      BY <1>4, <1>6, <1>8, <2>6, DayInt DEF Switches
    <2>8. CapturedTo(q.t0)
      BY <1>1, <1>6, <2>7, SwitchAtT0
    <2>9. p.target < today /\ p.start <= p.target
      BY <1>1, <1>6, <2>3, <2>4, DayInt DEF Switches
    <2>. QED
      BY <1>7, <2>3, <2>4, <2>8, <2>9 DEF PlanInv, WellPlanned
  <1>9. CASE ~(q.kind = "history" /\ c.completed >= c.total)
    <2>1. p \in Following(c, q.end + 1, q.target)
      BY <1>5, <1>9 DEF Chained, NextOfKind, c, q
    <2>2. /\ p.kind = q.kind /\ p.start = q.end + 1 /\ p.target = q.target
          /\ p.end = Least(p.start + WindowDays - 1, p.target)
          /\ p.t0 = q.t0 /\ p.completed = c.completed /\ p.total = q.total
          /\ ~(q.end + 1 > q.target)
      BY <1>5, <2>1, FollowingFields
    <2>3. p.start <= p.target
      BY <1>6, <2>2, DayInt
    <2>4. ASSUME q.kind = "history" PROVE HistoryWalk(p)
      <3>1. /\ q.target = q.t0 - Lag
            /\ q.start = Floor + q.completed * WindowDays
            /\ q.total = Ceiling(q.target - Floor + 1, WindowDays)
        BY <1>3, <2>4 DEF PlanInv, HistoryWalk
      <3>2. p.start = q.start + WindowDays
        BY <1>6, <1>7, <2>2, DayInt DEF Least
      <3>3. q.completed * WindowDays \in Int
            /\ (q.completed + 1) * WindowDays = q.completed * WindowDays + WindowDays
        BY <1>6, DayInt
      <3>4. p.start = Floor + (q.completed + 1) * WindowDays
        BY <3>1, <3>2, <3>3, DayInt
      <3>. QED
        BY <1>5, <2>2, <2>4, <3>1, <3>4 DEF HistoryWalk
    <2>5. q.kind = "update" => q.target < today
      BY <1>3 DEF PlanInv
    <2>. QED
      BY <1>4, <1>7, <2>2, <2>3, <2>4, <2>5 DEF PlanInv, WellPlanned
  <1>. QED
    BY <1>8, <1>9

LEMMA OriginInv ==
  ASSUME Switches, SwitchInv, NEW p \in Window, Origin(p)
  PROVE  PlanInv(p)
  <1>1. CASE \E k \in DOMAIN jobs : p = jobs[k].plan
    BY <1>1 DEF SwitchInv, PlansInv
  <1>. QED
    BY <1>1, NextWindowInv, CustomInv, ChainedInv DEF Origin, SwitchInv, OwnInv

\* What a step can do to the data: it is only ever replaced by something fresher.
Grows ==
  /\ today \in Day /\ today' \in Day /\ today <= today'
  /\ \A k \in Kind : \A d \in Day :
       fetched[k][d] \in Int /\ fetched'[k][d] \in Int /\ fetched[k][d] <= fetched'[k][d]

\* Only the worker that owns the active execution fetches.
LEMMA FetchedValues ==
  ASSUME SwitchInv, NEW w \in Worker, Fetch(w)
  PROVE  /\ exec[w].stage = "paging" /\ Running(w)
         /\ Plan(w) \in Window /\ DoneInv(w, Plan(w)) /\ exec[w].day \in Day
         /\ \A k \in Kind : \A d \in Day :
              fetched'[k][d] = IF k = Plan(w).kind /\ d \in Span(Plan(w)) THEN exec[w].day
                               ELSE fetched[k][d]
  <1>1. TypeInv /\ exec[w].stage = "paging" /\ Running(w)
    BY DEF SwitchInv, OwnInv, Fetch
  <1>2. exec[w].job \in DOMAIN jobs /\ exec[w].day \in Day /\ Plan(w) \in Window
    BY <1>1, WorkingType DEF Plan
  <1>3. jobs[exec[w].job].shops = "all"
    BY <1>2 DEF SwitchInv, AllShops
  <1>. QED
    BY <1>1, <1>2, <1>3 DEF Fetch, SwitchInv, DonesInv

LEMMA StepGrows ==
  ASSUME SwitchInv, [Next]_vars
  PROVE  Grows
  <1>1. TypeInv /\ TypeInv'
    BY NextTypeInv DEF SwitchInv, OwnInv
  <1>2. today \in Day /\ today' \in Day
    BY <1>1, DaysAssumption DEF TypeInv, TypeOK, Day
  <1>3. today <= today'
    BY <1>2, DataSteps, DayInt
  <1>4. \A k \in Kind : \A d \in Day : fetched[k][d] \in Int /\ fetched'[k][d] \in Int
    BY <1>1, DayInt DEF TypeInv, TypeOK
  <1>5. ASSUME NEW w \in Worker, Fetch(w), NEW k \in Kind, NEW d \in Day
        PROVE  fetched[k][d] <= fetched'[k][d]
    <2>1. fetched[k][d] <= exec[w].day
      BY <1>5, FetchedValues DEF DoneInv
    <2>. QED
      BY <1>4, <1>5, <2>1, FetchedValues
  <1>6. \A k \in Kind : \A d \in Day : fetched[k][d] <= fetched'[k][d]
    BY <1>4, <1>5, DataSteps
  <1>. QED
    BY <1>2, <1>3, <1>4, <1>6 DEF Grows

LEMMA FetchedByStable ==
  ASSUME Grows, NEW n, NEW t \in Day, FetchedBy(n, t)
  PROVE  \A d \in Day : d < n => fetched'["history"][d] >= t
  BY DayInt DEF Grows, FetchedBy, Kind

LEMMA CapturedToStable ==
  ASSUME Grows, NEW n, CapturedTo(n)
  PROVE  \A u \in Day : u < n => \A r \in Floor .. u :
           fetched'["history"][r] > u \/ fetched'["update"][u] > u
  <1>. SUFFICES ASSUME NEW u \in Day, u < n, NEW r \in Floor .. u
                PROVE  fetched'["history"][r] > u \/ fetched'["update"][u] > u
    OBVIOUS
  <1>1. fetched["history"][r] > u \/ fetched["update"][u] > u
    BY DEF CapturedTo, Captured
  <1>2. r \in Day /\ u \in Int
    BY DayInt DEF Day
  <1>. QED
    BY <1>1, <1>2 DEF Grows, Kind

LEMMA PlanInvStable ==
  ASSUME Grows, NEW p \in Window, PlanInv(p)
  PROVE  PlanInv(p)'
  <1>1. p.t0 \in Day /\ p.start \in Day /\ p.target \in Day
    BY DEF Window
  <1>2. p.t0 <= today'
    BY <1>1, DayInt DEF Grows, PlanInv
  <1>3. p.kind = "history" => FetchedBy(p.start, p.t0)'
    <2>1. ASSUME p.kind = "history"
          PROVE  \A d \in Day : d < p.start => fetched'["history"][d] >= p.t0
      BY <1>1, <2>1, FetchedByStable DEF PlanInv
    <2>. QED
      BY <2>1 DEF FetchedBy
  <1>4. p.kind = "update" => CapturedTo(p.start)'
    <2>1. ASSUME p.kind = "update"
          PROVE  \A u \in Day : u < p.start => \A r \in Floor .. u :
                   fetched'["history"][r] > u \/ fetched'["update"][u] > u
      BY <1>1, <2>1, CapturedToStable DEF PlanInv
    <2>. QED
      BY <2>1 DEF CapturedTo, Captured
  <1>5. p.kind = "update" => p.target < today'
    BY <1>1, DayInt DEF Grows, PlanInv
  <1>. QED
    BY <1>2, <1>3, <1>4, <1>5 DEF PlanInv, WellPlanned, HistoryWalk

LEMMA PlansInvNext ==
  ASSUME Switches, SwitchInv, [Next]_vars
  PROVE  PlansInv'
  <1>. SUFFICES ASSUME NEW p \in Window, NEW j \in DOMAIN jobs', jobs'[j].plan = p
                PROVE  PlanInv(p)'
    BY DEF PlansInv
  <1>1. Origin(p)
    BY PlanOrigins DEF SwitchInv, OwnInv
  <1>2. PlanInv(p)
    BY <1>1, OriginInv
  <1>. QED
    BY <1>2, StepGrows, PlanInvStable

LEMMA HistoryInvNext ==
  ASSUME Switches, SwitchInv, [Next]_vars
  PROVE  HistoryInv'
  <1>1. Grows /\ TypeInv /\ TypeInv'
    BY StepGrows, NextTypeInv DEF SwitchInv, OwnInv
  <1>2. CASE UNCHANGED history
    <2>. SUFFICES ASSUME history.t0 # None
                  PROVE  HistoryInv'
      BY <1>2 DEF HistoryInv
    <2>1. /\ history.frozen \in Day /\ history.frozen = history.t0 - Lag
          /\ history.t0 <= today
          /\ FetchedBy(history.next, history.t0)
          /\ history.next > history.frozen \/ \E k \in Nat : history.next = Floor + k * WindowDays
      BY DEF SwitchInv, HistoryInv
    <2>2. history.t0 \in Day
      BY <1>1 DEF TypeInv, TypeOK
    <2>3. history.t0 <= today'
      BY <1>1, <2>1, <2>2, DayInt DEF Grows
    <2>4. \A d \in Day : d < history.next => fetched'["history"][d] >= history.t0
      BY <1>1, <2>1, <2>2, FetchedByStable
    <2>. QED
      BY <1>2, <2>1, <2>3, <2>4 DEF HistoryInv, FetchedBy
  <1>3. ASSUME NEW w \in Worker, Commit(w), Plan(w).kind = "history"
        PROVE  HistoryInv'
    <2>. DEFINE q == Plan(w)
    <2>1. /\ exec[w].stage = "paged" /\ fetched' = fetched /\ today' = today
          /\ history' = [next |-> q.end + 1, frozen |-> q.target, t0 |-> q.t0]
      BY <1>3 DEF Commit
    <2>2. exec[w].job \in DOMAIN jobs /\ q \in Window
      BY <1>1, <2>1, WorkingType DEF Plan
    <2>3. PlanInv(q) /\ DoneInv(w, q)
      BY <2>1, <2>2 DEF SwitchInv, PlansInv, DonesInv, Plan
    <2>4. FetchedBy(q.end + 1, q.t0)
      BY <1>3, <2>1, <2>3 DEF DoneInv
    <2>5. /\ q.start \in Day /\ q.end \in Day /\ q.target \in Day /\ q.t0 \in Day
          /\ q.completed \in Nat
      BY <2>2 DEF Window
    <2>6. /\ q.target = q.t0 - Lag /\ q.start = Floor + q.completed * WindowDays
          /\ q.t0 <= today /\ q.start <= q.target
          /\ q.end = Least(q.start + WindowDays - 1, q.target)
      BY <1>3, <2>3 DEF PlanInv, HistoryWalk, WellPlanned
    <2>. HIDE DEF q
    <2>7. q.end + 1 > q.target \/ \E k \in Nat : q.end + 1 = Floor + k * WindowDays
      <3>1. CASE q.end = q.target
        BY <2>5, <3>1, DayInt
      <3>2. CASE q.end # q.target
        <4>1. q.end + 1 = q.start + WindowDays
          BY <2>5, <2>6, <3>2, DayInt DEF Least
        <4>2. q.completed * WindowDays \in Int
              /\ (q.completed + 1) * WindowDays = q.completed * WindowDays + WindowDays
          BY <2>5, DayInt
        <4>3. q.end + 1 = Floor + (q.completed + 1) * WindowDays
          BY <2>6, <4>1, <4>2, DayInt
        <4>. QED
          BY <2>5, <4>3
      <3>. QED
        BY <3>1, <3>2
    <2>. QED
      BY <2>1, <2>4, <2>5, <2>6, <2>7 DEF HistoryInv, FetchedBy
  <1>4. \A w \in Worker : Commit(w) /\ Plan(w).kind # "history" => UNCHANGED history
    BY DEF Commit
  <1>. QED
    BY <1>2, <1>3, <1>4, DataSteps

LEMMA UpdateInvNext ==
  ASSUME SwitchInv, [Next]_vars
  PROVE  UpdateInv'
  <1>1. Grows /\ TypeInv
    BY StepGrows DEF SwitchInv, OwnInv
  <1>2. CASE UNCHANGED update
    <2>. SUFFICES ASSUME update # None
                  PROVE  UpdateInv'
      BY <1>2 DEF UpdateInv
    <2>1. CapturedTo(update)
      BY DEF SwitchInv, UpdateInv
    <2>2. \A u \in Day : u < update => \A r \in Floor .. u :
            fetched'["history"][r] > u \/ fetched'["update"][u] > u
      BY <1>1, <2>1, CapturedToStable
    <2>. QED
      BY <1>2, <2>2 DEF UpdateInv, CapturedTo, Captured
  <1>3. ASSUME NEW w \in Worker, Commit(w), Plan(w).kind = "update"
        PROVE  UpdateInv'
    <2>1. /\ exec[w].stage = "paged" /\ fetched' = fetched
          /\ update' = Plan(w).end + 1
      BY <1>3 DEF Commit
    <2>2. exec[w].job \in DOMAIN jobs /\ Plan(w) \in Window
      BY <1>1, <2>1, WorkingType DEF Plan
    <2>3. CapturedTo(Plan(w).end + 1)
      BY <1>3, <2>1, <2>2 DEF SwitchInv, DonesInv, DoneInv
    <2>4. \A u \in Day : u < update' => \A r \in Floor .. u :
            fetched'["history"][r] > u \/ fetched'["update"][u] > u
      BY <2>1, <2>3 DEF CapturedTo, Captured
    <2>. QED
      BY <2>4 DEF UpdateInv, CapturedTo, Captured
  <1>4. \A w \in Worker : Commit(w) /\ Plan(w).kind # "update" => UNCHANGED update
    BY DEF Commit
  <1>. QED
    BY <1>2, <1>3, <1>4, DataSteps

LEMMA FetchedInvNext ==
  ASSUME SwitchInv, [Next]_vars
  PROVE  FetchedInv'
  <1>1. Grows
    BY StepGrows
  <1>. SUFFICES ASSUME NEW k \in Kind, NEW d \in Day
                PROVE  fetched'[k][d] <= today'
    BY DEF FetchedInv
  <1>2. fetched[k][d] <= today
    BY DEF SwitchInv, FetchedInv
  <1>3. fetched'[k][d] <= today
    <2>1. ASSUME NEW w \in Worker, Fetch(w) PROVE fetched'[k][d] <= today
      BY <1>2, <2>1, FetchedValues DEF DoneInv
    <2>. QED
      BY <1>2, <2>1, DataSteps
  <1>. QED
    BY <1>1, <1>3, DayInt DEF Grows

\* A worker that goes on brings what it brought before, and after its last page the
\* days of its window.
LEMMA DoneGoesOn ==
  ASSUME SwitchInv, [Next]_vars, NEW v \in Worker, NEW p \in Window, Plan(v) = p, GoesOn(v)
  PROVE  DoneInv(v, p)'
  <1>1. Grows /\ TypeInv
    BY StepGrows DEF SwitchInv, OwnInv
  <1>2. /\ exec[v].stage # "idle" /\ exec'[v].day = exec[v].day /\ exec'[v].job = exec[v].job
        /\ exec[v].job \in DOMAIN jobs /\ exec[v].day \in Day
    BY <1>1, WorkingType DEF GoesOn
  <1>3. PlanInv(p) /\ DoneInv(v, p)
    BY <1>2 DEF SwitchInv, PlansInv, DonesInv, Plan
  <1>4. /\ p.start \in Day /\ p.end \in Day /\ p.target \in Day /\ p.t0 \in Day
    BY DEF Window
  <1>5. p.start <= p.target /\ p.end <= p.target
    BY <1>3, <1>4, DayInt DEF PlanInv, WellPlanned, Least
  <1>6. /\ p.t0 <= exec'[v].day /\ exec'[v].day <= today'
        /\ p.kind = "update" => p.target < exec'[v].day
    BY <1>1, <1>2, <1>3, DayInt DEF DoneInv, Grows
  <1>7. ASSUME Running(v)' PROVE \A k \in Kind : \A d \in Day : fetched'[k][d] <= exec'[v].day
    <2>1. Running(v)
      BY <1>2, <1>7 DEF GoesOn, Running
    <2>2. \A k \in Kind : \A d \in Day : fetched[k][d] <= exec[v].day
      BY <1>3, <2>1 DEF DoneInv
    <2>3. ASSUME NEW w \in Worker, Fetch(w)
          PROVE  \A k \in Kind : \A d \in Day : fetched'[k][d] <= exec[v].day
      <3>1. w = v
        BY <1>2, <2>1, <2>3, FetchedValues, OneRunning DEF SwitchInv
      <3>. QED
        BY <1>2, <2>2, <2>3, <3>1, FetchedValues, DayInt
    <2>. QED
      BY <1>2, <2>2, <2>3, DataSteps
  <1>8. ASSUME exec[v].stage # "paging"
        PROVE  /\ p.kind = "history" => FetchedBy(p.end + 1, p.t0)'
               /\ p.kind = "update" => CapturedTo(p.end + 1)'
    <2>1. ASSUME p.kind = "history" PROVE FetchedBy(p.end + 1, p.t0)'
      <3>1. FetchedBy(p.end + 1, p.t0)
        BY <1>3, <1>8, <2>1 DEF DoneInv
      <3>2. \A d \in Day : d < p.end + 1 => fetched'["history"][d] >= p.t0
        BY <1>1, <1>4, <3>1, FetchedByStable
      <3>. QED
        BY <3>2 DEF FetchedBy
    <2>2. ASSUME p.kind = "update" PROVE CapturedTo(p.end + 1)'
      <3>1. CapturedTo(p.end + 1)
        BY <1>3, <1>8, <2>2 DEF DoneInv
      <3>2. \A u \in Day : u < p.end + 1 => \A r \in Floor .. u :
              fetched'["history"][r] > u \/ fetched'["update"][u] > u
        BY <1>1, <3>1, CapturedToStable
      <3>. QED
        BY <3>2 DEF CapturedTo, Captured
    <2>. QED
      BY <2>1, <2>2
  <1>9. ASSUME Fetch(v)
        PROVE  /\ p.kind = "history" => FetchedBy(p.end + 1, p.t0)'
               /\ p.kind = "update" => CapturedTo(p.end + 1)'
    <2>1. ASSUME p.kind = "history" PROVE FetchedBy(p.end + 1, p.t0)'
      <3>. SUFFICES ASSUME NEW d \in Day, d < p.end + 1
                    PROVE  fetched'["history"][d] >= p.t0
        BY DEF FetchedBy
      <3>1. FetchedBy(p.start, p.t0)
        BY <1>3, <2>1 DEF PlanInv
      <3>2. CASE d < p.start
        BY <1>1, <1>4, <3>1, <3>2, FetchedByStable
      <3>3. CASE ~(d < p.start)
        <4>1. d \in Span(p)
          BY <1>4, <3>3, DayInt DEF Span
        <4>2. fetched'["history"][d] = exec[v].day
          BY <1>9, <2>1, <4>1, FetchedValues DEF Kind
        <4>. QED
          BY <1>2, <1>6, <4>2, <1>4, DayInt
      <3>. QED
        BY <3>2, <3>3
    <2>2. ASSUME p.kind = "update" PROVE CapturedTo(p.end + 1)'
      <3>. SUFFICES ASSUME NEW u \in Day, u < p.end + 1, NEW r \in Floor .. u
                    PROVE  fetched'["history"][r] > u \/ fetched'["update"][u] > u
        BY DEF CapturedTo, Captured
      <3>1. CapturedTo(p.start)
        BY <1>3, <2>2 DEF PlanInv
      <3>2. CASE u < p.start
        BY <1>1, <3>1, <3>2, CapturedToStable
      <3>3. CASE ~(u < p.start)
        <4>1. u \in Span(p)
          BY <1>4, <3>3, DayInt DEF Span
        <4>2. fetched'["update"][u] = exec[v].day
          BY <1>9, <2>2, <4>1, FetchedValues DEF Kind
        <4>3. p.target < exec[v].day
          BY <1>3, <2>2 DEF DoneInv
        <4>. QED
          BY <1>2, <1>4, <1>5, <4>2, <4>3, DayInt
      <3>. QED
        BY <3>2, <3>3
    <2>. QED
      BY <2>1, <2>2
  <1>10. exec'[v].stage # "paging" => exec[v].stage # "paging" \/ Fetch(v)
    BY DEF GoesOn, Commit
  <1>. QED
    BY <1>6, <1>7, <1>8, <1>9, <1>10 DEF DoneInv

LEMMA DonesInvNext ==
  ASSUME SwitchInv, [Next]_vars
  PROVE  DonesInv'
  <1>. SUFFICES ASSUME NEW v \in Worker, NEW p \in Window,
                       exec'[v].stage # "idle", jobs'[exec'[v].job].plan = p
                PROVE  DoneInv(v, p)'
    BY DEF DonesInv, Plan
  <1>1. CASE GoesOn(v)
    <2>1. Plan(v) = p
      BY <1>1 DEF GoesOn
    <2>. QED
      BY <1>1, <2>1, DoneGoesOn
  <1>2. ASSUME NEW j \in DOMAIN jobs, Start(v, j) PROVE DoneInv(v, p)'
    <2>1. /\ exec'[v] = [stage |-> "paging", job |-> j, day |-> today]
          /\ today' = today /\ fetched' = fetched
      BY <1>2 DEF Start, SwitchInv, OwnInv, TypeInv, TypeOK
    <2>2. jobs[j].plan = p
      BY <2>1, PlanOrigins DEF SwitchInv, OwnInv, SameWindow
    <2>3. PlanInv(p)
      BY <2>2 DEF SwitchInv, PlansInv
    <2>4. today \in Int
      BY TodayFacts, DayInt DEF SwitchInv, OwnInv, TypeInv
    <2>. QED
      BY <2>1, <2>3, <2>4 DEF DoneInv, PlanInv, SwitchInv, FetchedInv
  <1>. QED
    BY <1>1, <1>2, WorkerSteps DEF SwitchInv

LEMMA InitSwitch ==
  ASSUME Init
  PROVE  SwitchInv
  <1>1. DOMAIN jobs = {}
    BY EmptySeq, LenProperties DEF Init
  <1>2. OwnInv /\ AllShops
    BY InitOwn, InitGapInv DEF GapInv
  <1>3. PlansInv /\ HistoryInv /\ UpdateInv
    BY <1>1 DEF Init, PlansInv, HistoryInv, UpdateInv
  <1>4. FetchedInv
    BY DaysAssumption DEF Init, FetchedInv, None
  <1>5. DonesInv
    BY DEF Init, DonesInv, Idle
  <1>. QED
    BY <1>2, <1>3, <1>4, <1>5 DEF SwitchInv

LEMMA NextSwitch ==
  ASSUME Switches, GapInv, SwitchInv, [Next]_vars
  PROVE  SwitchInv'
  <1>1. AllShops'
    BY NextGapInv DEF Switches, GapInv
  <1>2. OwnInv'
    BY NextOwn DEF SwitchInv
  <1>. QED
    BY <1>1, <1>2, PlansInvNext, HistoryInvNext, UpdateInvNext, FetchedInvNext, DonesInvNext
       DEF SwitchInv

\* An api that follows the changes from T0 on loses none of them when it leaves the
\* backfill: for any windows and days, retries, pauses, crashes and workers that run
\* on without their claim.  The lags are what the shipped api has (both 1): a backfill
\* that ends earlier than the day before T0 would leave days to nobody, and changes
\* of a day that is not over may come after they were fetched.
THEOREM ChangesCaptured ==
  ASSUME ~SomeShops, Lag <= 1, UpdateLag >= 1
  PROVE  Spec => []NothingMissed
  <1>1. SwitchInv => NothingMissed
    BY DEF SwitchInv, UpdateInv, CapturedTo, NothingMissed
  <1>2. CASE ~Incremental
    <2>1. NothingMissed
      BY <1>2 DEF NothingMissed
    <2>. QED
      BY <2>1, PTL
  <1>3. CASE Incremental
    <2>1. Switches
      BY <1>3 DEF Switches
    <2>2. Init => GapInv /\ SwitchInv
      BY InitGapInv, InitSwitch
    <2>3. GapInv /\ SwitchInv /\ [Next]_vars => (GapInv /\ SwitchInv)'
      BY <2>1, NextGapInv, NextSwitch
    <2>. QED
      BY <1>1, <2>2, <2>3, PTL DEF Spec
  <1>. QED
    BY <1>2, <1>3
-----------------------------------------------------------------------------
(* A custom range follows its preview.  CustomFollowsPreview says which of    *)
(* the windows an execution has; the invariant says where in the range that   *)
(* is, which is what the window after it is computed from.                    *)

\* No row but these is ever added, and a row keeps its window.
RowOrigin(r) ==
  \/ \E k \in DOMAIN jobs : SameWindow(r, jobs[k])
  \/ Entrant(r)
  \/ \E w \in Worker, p \in Window :
       /\ exec[w].stage = "committed" /\ p \in Chained(Plan(w))
       /\ r = Successor(jobs[exec[w].job], p)

LEMMA RowOrigins ==
  ASSUME TypeInv, [Next]_vars
  PROVE  \A j \in DOMAIN jobs' : RowOrigin(jobs'[j])
  <1>. DEFINE Goal == \A j \in DOMAIN jobs' : RowOrigin(jobs'[j])
  <1>2. SameRows => Goal
    BY DEF SameRows, RowOrigin
  <1>3. ASSUME NEW j, NEW status, StatusOf(j, status) PROVE Goal
    BY <1>3 DEF StatusOf, RowOrigin
  <1>4. ASSUME NEW job \in Execution, Added(job), Entrant(job) PROVE Goal
    <2>. HIDE DEF Entrant
    <2>. QED
      BY <1>4 DEF Added, RowOrigin, SameWindow
  <1>5. ASSUME NEW w \in Worker, NEW how, Finish(w, how), NEW p \in Chained(Plan(w)),
               p \in Window,
               Followed(exec[w].job, EndStatus(how), Successor(jobs[exec[w].job], p))
        PROVE  Goal
    <2>1. RowOrigin(jobs'[Len(jobs) + 1])
      BY <1>5 DEF Finish, RowOrigin, Followed
    <2>2. \A k \in DOMAIN jobs : SameWindow(jobs'[k], jobs[k])
      BY <1>5 DEF Followed
    <2>3. \A k \in DOMAIN jobs : RowOrigin(jobs'[k])
      BY <2>2 DEF RowOrigin
    <2>. QED
      BY <1>5, <2>1, <2>3 DEF Followed
  <1>6. jobs' = jobs => SameRows
    BY DEF SameRows, SameWindow
  <1>7. ASSUME NEW j \in DOMAIN jobs, Lose(j) PROVE StatusOf(j, "failed")
    BY <1>7, StatusWrites DEF Lose
  <1>. HIDE DEF Goal
  <1>8. CASE Entry
    BY <1>2, <1>3, <1>4, <1>8, EntryRows DEF Goal
  <1>9. ASSUME NEW w \in Worker, Work(w) PROVE Goal
    BY <1>2, <1>3, <1>5, <1>9, WorkRows
  <1>10. (Midnight \/ UNCHANGED vars) => jobs' = jobs
    BY DEF Midnight, vars
  <1>11. Goal
    BY <1>2, <1>3, <1>6, <1>7, <1>8, <1>9, <1>10 DEF Next, Goal
  <1>. QED
    BY <1>11 DEF Goal

CustomRow(r) ==
  r.plan.kind = "custom" =>
    /\ r.index > 0 /\ r.first <= r.last
    /\ r.plan.start = r.first + (r.index - 1) * WindowDays
    /\ r.plan.start <= r.last
    /\ r.plan.target = r.last
    /\ r.plan.end = Least(r.plan.start + WindowDays - 1, r.last)

CustomRows == TypeInv /\ \A j \in DOMAIN jobs : CustomRow(jobs[j])

LEMMA NextWindowKinds ==
  ASSUME NEW p \in NextWindow
  PROVE  p.kind # "custom"
  BY HistoryPlanFields, UpdatePlanFields DEF NextWindow

LEMMA CustomEntrant ==
  ASSUME CustomRows, NEW r \in Execution, Entrant(r)
  PROVE  CustomRow(r)
  <1>1. CASE ByManual(r) \/ ByScheduler(r)
    BY <1>1, NextWindowKinds, NewTaskFields DEF ByManual, ByScheduler, CustomRow
  <1>2. CASE ByRange(r)
    <2>1. PICK first \in Day, last \in Day :
            /\ first <= last
            /\ r = NewTask(CustomPlan(first, last), CustomPlan(first, last).total, first, last, "all")
      BY <1>2 DEF ByRange
    <2>2. /\ r.plan = CustomPlan(first, last) /\ r.index = 1 /\ r.first = first /\ r.last = last
      BY <2>1, NewTaskFields
    <2>3. /\ CustomPlan(first, last).start = first /\ CustomPlan(first, last).target = last
          /\ CustomPlan(first, last).end = Least(first + WindowDays - 1, last)
      BY DEF CustomPlan
    <2>4. first + (1 - 1) * WindowDays = first
      BY DayInt
    <2>. QED
      BY <2>1, <2>2, <2>3, <2>4 DEF CustomRow
  <1>3. ASSUME NEW j \in DOMAIN jobs, NEW p \in Window, p \in RetryPlan(j) \/ p = jobs[j].plan,
               r = Retried(jobs[j], p)
        PROVE  CustomRow(r)
    <2>1. /\ r.plan = p /\ r.index = jobs[j].index /\ r.first = jobs[j].first
          /\ r.last = jobs[j].last
      BY <1>3, JobType, RetriedFields DEF CustomRows
    <2>2. p.kind = "custom" => p = jobs[j].plan
      BY <1>3, NextWindowKinds DEF RetryPlan
    <2>. QED
      BY <2>1, <2>2 DEF CustomRows, CustomRow
  <1>4. \A j \in DOMAIN jobs : jobs[j].plan \in Window
    BY JobType DEF CustomRows
  <1>. QED
    BY <1>1, <1>2, <1>3, <1>4 DEF Entrant, ByRetry, ByResumption

LEMMA CustomSuccessor ==
  ASSUME CustomRows, NEW w \in Worker, exec[w].stage = "committed",
         NEW p \in Window, p \in Chained(Plan(w))
  PROVE  CustomRow(Successor(jobs[exec[w].job], p))
  <1>. DEFINE r == jobs[exec[w].job]
              q == Plan(w)
              s == Successor(r, p)
  <1>1. r \in Execution /\ q = r.plan /\ q \in Window
    BY WorkingType, JobType DEF CustomRows, Plan
  <1>2. /\ s.plan = p /\ s.index = r.index + 1 /\ s.first = r.first /\ s.last = r.last
    BY <1>1, SuccessorFields
  <1>3. /\ Completed(q) \in Window /\ Completed(q).kind = q.kind
        /\ Completed(q).end = q.end /\ Completed(q).target = q.target
    BY <1>1, CompletedFields
  <1>. HIDE DEF s, q, r
  <1>4. ASSUME q.kind # "custom" PROVE p.kind # "custom"
    <2>1. CASE p \in UpdatesFrom(Completed(q), q.t0)
      <3>1. PICK u \in Following(Completed(q), q.t0, today - UpdateLag) :
              p = [u EXCEPT !.kind = "update"]
        BY <2>1 DEF UpdatesFrom
      <3>2. u = [Completed(q) EXCEPT !.start = q.t0,
                   !.end = Least(q.t0 + WindowDays - 1, today - UpdateLag),
                   !.target = today - UpdateLag]
        BY <3>1 DEF Following
      <3>. QED
        BY <1>3, <3>1, <3>2 DEF Window
    <2>2. CASE p \in Following(Completed(q), q.end + 1, q.target)
      BY <1>3, <1>4, <2>2, FollowingFields
    <2>. QED
      BY <1>3, <2>1, <2>2 DEF Chained, NextOfKind, q
  <1>5. ASSUME q.kind = "custom" PROVE CustomRow(s)
    <2>1. p \in Following(Completed(q), q.end + 1, q.target)
      BY <1>3, <1>5 DEF Chained, NextOfKind, q
    <2>2. /\ p.start = q.end + 1 /\ p.target = q.target
          /\ p.end = Least(q.end + 1 + WindowDays - 1, q.target)
          /\ ~(q.end + 1 > q.target)
      BY <1>3, <2>1, FollowingFields
    <2>3. CustomRow(r)
      BY WorkingType DEF CustomRows, r
    <2>4. /\ r.index > 0 /\ r.first <= r.last
          /\ q.start = r.first + (r.index - 1) * WindowDays
          /\ q.target = r.last
          /\ q.end = Least(q.start + WindowDays - 1, r.last)
      BY <1>1, <1>5, <2>3 DEF CustomRow
    <2>5. /\ q.start \in Day /\ q.end \in Day /\ r.last \in Day /\ r.first \in Day
          /\ r.index \in Nat
      BY <1>1 DEF Window, Execution
    <2>6. q.end + 1 = q.start + WindowDays
      BY <2>2, <2>4, <2>5, DayInt DEF Least
    <2>7. /\ (r.index - 1) * WindowDays \in Int
          /\ r.index * WindowDays = (r.index - 1) * WindowDays + WindowDays
      BY <2>5, DayInt
    <2>8. p.start = r.first + r.index * WindowDays
      BY <2>2, <2>4, <2>5, <2>6, <2>7, DayInt
    <2>9. p.start = r.first + ((r.index + 1) - 1) * WindowDays
      BY <2>5, <2>8
    <2>10. p.start <= r.last
      BY <2>2, <2>4, <2>5, DayInt
    <2>. QED
      BY <1>2, <2>2, <2>4, <2>5, <2>9, <2>10 DEF CustomRow
  <1>6. p.kind # "custom" => CustomRow(s)
    BY <1>2 DEF CustomRow
  <1>. QED
    BY <1>4, <1>5, <1>6 DEF s, r

LEMMA NextCustomRows ==
  ASSUME CustomRows, [Next]_vars
  PROVE  CustomRows'
  <1>1. TypeInv'
    BY NextTypeInv DEF CustomRows
  <1>2. ASSUME NEW j \in DOMAIN jobs' PROVE CustomRow(jobs'[j])
    <2>1. jobs'[j] \in Execution
      BY <1>1 DEF TypeInv, TypeOK
    <2>2. RowOrigin(jobs'[j])
      BY RowOrigins DEF CustomRows
    <2>3. ASSUME NEW k \in DOMAIN jobs, SameWindow(jobs'[j], jobs[k])
          PROVE  CustomRow(jobs'[j])
      BY <2>3 DEF CustomRows, CustomRow, SameWindow
    <2>. QED
      BY <2>1, <2>2, <2>3, CustomEntrant, CustomSuccessor DEF RowOrigin
  <1>. QED
    BY <1>1, <1>2 DEF CustomRows

LEMMA CustomShown ==
  ASSUME NEW r \in Execution, CustomRow(r), r.plan.kind = "custom"
  PROVE  LET shown == ClosedWindows(r.first, r.last) IN
         r.index \in DOMAIN shown /\ shown[r.index] = <<r.plan.start, r.plan.end>>
  <1>1. r.first \in Day /\ r.last \in Day /\ r.index \in Nat /\ r.plan.start \in Day
    BY DEF Execution, Window
  <1>. DEFINE k == r.index - 1
              n == r.last - r.first
  <1>2. k \in Nat /\ n \in Nat /\ k * WindowDays \in Int
    BY <1>1, DayInt DEF CustomRow
  <1>3. r.plan.start = r.first + k * WindowDays /\ r.plan.start <= r.last
    BY DEF CustomRow
  <1>4. k * WindowDays <= n
    BY <1>1, <1>2, <1>3, DayInt
  <1>5. Ceiling(n + 1, WindowDays) \in Nat /\ k < Ceiling(n + 1, WindowDays)
    BY <1>2, <1>4, CeilingBounds
  <1>6. r.index \in 1 .. Ceiling(r.last - r.first + 1, WindowDays)
    BY <1>1, <1>2, <1>5
  <1>7. r.index * WindowDays = k * WindowDays + WindowDays
    BY <1>1, DayInt
  <1>8. r.plan.end = Least(r.first + r.index * WindowDays - 1, r.last)
    <2>1. r.plan.start + WindowDays - 1 = r.first + r.index * WindowDays - 1
      BY <1>1, <1>2, <1>3, <1>7, DayInt
    <2>. QED
      BY <2>1 DEF CustomRow
  <1>. QED
    BY <1>3, <1>6, <1>8 DEF ClosedWindows

\* The i-th execution of a custom range is the i-th window that its preview showed, for
\* any range and window, however often it was paused, resumed, failed or retried.
THEOREM PreviewFollowed == Spec => []CustomFollowsPreview
  <1>1. Init => CustomRows
    <2>1. Init => DOMAIN jobs = {}
      BY EmptySeq, LenProperties DEF Init
    <2>. QED
      BY <2>1, InitTypeInv DEF CustomRows
  <1>2. CustomRows /\ [Next]_vars => CustomRows'
    BY NextCustomRows
  <1>3. CustomRows => CustomFollowsPreview
    <2>1. CustomRows => \A j \in DOMAIN jobs : jobs[j] \in Execution /\ CustomRow(jobs[j])
      BY JobType DEF CustomRows
    <2>. QED
      BY <2>1, CustomShown DEF CustomFollowsPreview
  <1>. QED
    BY <1>1, <1>2, <1>3, PTL DEF Spec
-----------------------------------------------------------------------------
(* While no claim is lost, the window that waits is the one the engine       *)
(* expects, and the checkpoints only advance.  Both rest on what the queue    *)
(* knows of the checkpoint: a backfill is only active before the changes are  *)
(* followed, the changes only after its end, and a worker that has committed  *)
(* left the checkpoint at the end of its window.                              *)

PastEnd == history.frozen # None /\ history.next > history.frozen

CheckInv ==
  /\ update # None => Incremental /\ PastEnd
  /\ history.t0 # None => history.next > Floor /\ history.frozen # None
  /\ Incremental => PastEnd \/ \E k \in Nat : history.next = Floor + k * WindowDays

InWalk(p) ==
  /\ p.start = Floor + p.completed * WindowDays
  /\ p.total = Ceiling(p.target - Floor + 1, WindowDays)

RowInv(p) ==
  /\ p.kind # "custom" => WellPlanned(p)
  /\ p.kind = "history" =>
       /\ Incremental => InWalk(p)
       /\ p.start > Floor => history.t0 # None /\ p.t0 = history.t0
  /\ p.kind = "update" => Incremental

RowsInv == \A p \in Window : (\E j \in DOMAIN jobs : jobs[j].plan = p) => RowInv(p)

Serves(p) ==
  /\ p.kind = "history" => update = None
  /\ p.kind = "update" => PastEnd

ActiveInv ==
  \A j \in ActiveJobs :
    /\ jobs[j].status # "running" => Accepts(jobs[j].plan)
    /\ Serves(jobs[j].plan)

Left(p) ==
  /\ p.kind = "history" =>
       history.next = p.end + 1 /\ history.frozen = p.target /\ history.t0 = p.t0
  /\ p.kind = "update" => update = p.end + 1

WorkInv ==
  \A w \in Worker :
    /\ exec[w].stage \in {"paging", "paged"} => Accepts(Plan(w))
    /\ exec[w].stage = "committed" => Left(Plan(w))

AcceptInv == OwnInv /\ CheckInv /\ RowsInv /\ ActiveInv /\ WorkInv

LEMMA HistoryPlanRow ==
  ASSUME TypeInv, CheckInv, HistoryPlan.start <= HistoryPlan.target
  PROVE  RowInv(HistoryPlan) /\ Accepts(HistoryPlan) /\ update = None
  <1>. DEFINE p == HistoryPlan
  <1>1. today \in Day /\ today - Lag \in Day /\ history.next \in Int
        /\ history.frozen \in Day \cup {None}
    BY TodayFacts, DayInt DEF TypeInv, TypeOK, Day
  <1>2. WellPlanned(p) /\ Accepts(p)
    BY HistoryPlanFields DEF WellPlanned, Accepts
  <1>3. ASSUME Incremental PROVE ~PastEnd
    BY <1>1, <1>3, DayInt, HistoryPlanFields DEF PastEnd
  <1>4. update = None
    BY <1>3 DEF CheckInv
  <1>5. ASSUME Incremental PROVE InWalk(p)
    <2>1. PICK k \in Nat : history.next = Floor + k * WindowDays
      BY <1>3, <1>5 DEF CheckInv
    <2>2. p.target \in Day /\ history.next <= p.target
      BY <1>1, <1>5, HistoryPlanFields
    <2>3. Least((history.next - Floor) \div WindowDays,
                Ceiling(p.target - Floor + 1, WindowDays)) = k
      BY <1>1, <2>1, <2>2, WalkCount
    <2>. QED
      BY <2>1, <2>3, HistoryPlanFields DEF InWalk
  <1>6. ASSUME p.start > Floor PROVE history.t0 # None /\ p.t0 = history.t0
    <2>1. history.next > Floor
      BY <1>6, HistoryPlanFields
    <2>2. history.t0 # None
      BY <1>1, <2>1, DayInt DEF TypeInv, Watermark
    <2>. QED
      BY <2>2, HistoryPlanFields
  <1>. QED
    BY <1>2, <1>4, <1>5, <1>6, HistoryPlanFields DEF RowInv

LEMMA NextWindowRow ==
  ASSUME TypeInv, CheckInv, NEW p \in NextWindow
  PROVE  RowInv(p) /\ Accepts(p) /\ Serves(p)
  <1>1. CASE HistoryPlan.start <= HistoryPlan.target
    BY <1>1, HistoryPlanRow, HistoryPlanFields DEF NextWindow, Serves
  <1>2. CASE ~(HistoryPlan.start <= HistoryPlan.target)
    <2>1. p = UpdatePlan(HistoryPlan.total) /\ p.start <= p.target /\ Incremental
      BY <1>2 DEF NextWindow
    <2>2. /\ p.kind = "update"
          /\ p.start = IF update = None THEN history.t0 ELSE update
          /\ p.end = Least(p.start + WindowDays - 1, p.target)
      BY <2>1, UpdatePlanFields
    <2>3. today - Lag \in Day /\ history.next \in Int /\ history.frozen \in Day \cup {None}
      BY TodayFacts, DayInt DEF TypeInv, TypeOK, Day
    <2>4. history.frozen # None
      <3>1. ASSUME history.frozen = None PROVE FALSE
        <4>1. history.next = Floor
          BY <3>1 DEF TypeInv, Watermark, CheckInv
        <4>. QED
          BY <1>2, <2>3, <3>1, <4>1, DayInt, HistoryPlanFields
      <3>. QED
        BY <3>1
    <2>5. PastEnd
      BY <1>2, <2>1, <2>3, <2>4, DayInt, HistoryPlanFields DEF PastEnd
    <2>. QED
      BY <2>1, <2>2, <2>5 DEF RowInv, WellPlanned, Accepts, Serves
  <1>. QED
    BY <1>1, <1>2

\* The windows that follow a window: the first of the changes, or the next of its kind.
LEMMA ChainedFields ==
  ASSUME NEW q \in Window, NEW p \in Chained(q)
  PROVE  \/ /\ q.kind = "history" /\ Incremental /\ q.completed + 1 >= q.total
            /\ p.kind = "update" /\ p.start = q.t0 /\ p.target = today - UpdateLag
            /\ p.end = Least(p.start + WindowDays - 1, p.target)
            /\ ~(p.start > p.target)
         \/ /\ p.kind = q.kind /\ p.start = q.end + 1 /\ p.target = q.target
            /\ p.end = Least(p.start + WindowDays - 1, p.target)
            /\ p.t0 = q.t0 /\ p.total = q.total
            /\ p.completed = IF q.kind = "update" THEN q.completed ELSE q.completed + 1
            /\ ~(p.start > p.target)
  <1>. DEFINE c == Completed(q)
  <1>1. /\ c \in Window
        /\ c.kind = q.kind /\ c.end = q.end /\ c.target = q.target
        /\ c.t0 = q.t0 /\ c.total = q.total
        /\ c.completed = IF q.kind = "update" THEN q.completed ELSE q.completed + 1
    BY CompletedFields
  <1>2. IF q.kind = "history" /\ c.completed >= c.total
        THEN p \in UpdatesFrom(c, q.t0) ELSE p \in Following(c, q.end + 1, q.target)
    BY <1>1 DEF Chained, NextOfKind
  <1>. HIDE DEF c
  <1>3. CASE q.kind = "history" /\ c.completed >= c.total
    <2>1. Incremental
      BY <1>2, <1>3 DEF UpdatesFrom
    <2>2. PICK r \in Following(c, q.t0, today - UpdateLag) : p = [r EXCEPT !.kind = "update"]
      BY <1>2, <1>3 DEF UpdatesFrom
    <2>3. /\ r.start = q.t0 /\ r.target = today - UpdateLag
          /\ r.end = Least(q.t0 + WindowDays - 1, today - UpdateLag)
          /\ ~(q.t0 > today - UpdateLag)
      BY <1>1, <2>2, FollowingFields
    <2>4. p.kind = "update" /\ p.start = r.start /\ p.target = r.target /\ p.end = r.end
      <3>1. r = [c EXCEPT !.start = q.t0, !.end = Least(q.t0 + WindowDays - 1, today - UpdateLag),
                          !.target = today - UpdateLag]
        BY <2>2 DEF Following
      <3>. QED
        BY <1>1, <2>2, <3>1 DEF Window
    <2>. QED
      BY <1>1, <1>3, <2>1, <2>3, <2>4
  <1>4. CASE ~(q.kind = "history" /\ c.completed >= c.total)
    BY <1>1, <1>2, <1>4, FollowingFields
  <1>. QED
    BY <1>3, <1>4

\* Where a window of the walk ends, the walk ends or the next window begins.
LEMMA WalkGoesOn ==
  ASSUME NEW q \in Window, q.start = Floor + q.completed * WindowDays, WellPlanned(q)
  PROVE  q.end = q.target \/ q.end + 1 = Floor + (q.completed + 1) * WindowDays
  <1>1. q.start \in Int /\ q.end \in Int /\ q.target \in Int /\ q.completed \in Nat
    BY DayInt DEF Window
  <1>2. q.completed * WindowDays \in Int
        /\ (q.completed + 1) * WindowDays = q.completed * WindowDays + WindowDays
    BY <1>1, DayInt
  <1>. QED
    BY <1>1, <1>2, DayInt DEF WellPlanned, Least

\* Without lost claims, the execution of a worker past its claim is the active one.
LEMMA WorkerActive ==
  ASSUME ~LocksDrop, AcceptInv, NEW w \in Worker, exec[w].stage # "idle"
  PROVE  /\ Running(w) /\ exec[w].job \in ActiveJobs /\ exec[w].job \in DOMAIN jobs
         /\ Plan(w) = jobs[exec[w].job].plan /\ Plan(w) \in Window
         /\ RowInv(Plan(w)) /\ Serves(Plan(w))
  <1>1. Running(w) /\ exec[w].job \in DOMAIN jobs /\ Plan(w) \in Window
    BY WorkingType DEF AcceptInv, OwnInv, StillOwned, Plan
  <1>2. exec[w].job \in ActiveJobs
    BY <1>1 DEF AcceptInv, OwnInv, LiveIsCurrent, ActiveJobs, Running, Active
  <1>. QED
    BY <1>1, <1>2 DEF AcceptInv, RowsInv, ActiveInv, Plan

LEMMA ChainedRow ==
  ASSUME ~LocksDrop, AcceptInv, NEW w \in Worker, exec[w].stage = "committed",
         NEW p \in Chained(Plan(w))
  PROVE  RowInv(p) /\ Accepts(p) /\ Serves(p)
  <1>. DEFINE q == Plan(w)
  <1>1. q \in Window /\ RowInv(q) /\ Serves(q) /\ Left(q)
    BY WorkerActive DEF AcceptInv, WorkInv
  <1>2. /\ q.start \in Day /\ q.end \in Day /\ q.target \in Day /\ q.t0 \in Day
        /\ q.completed \in Nat /\ today \in Int
    BY <1>1, TodayFacts, DayInt DEF Window, AcceptInv, OwnInv, TypeInv
  <1>3. p \in Chained(q)
    OBVIOUS
  <1>. HIDE DEF q
  <1>4. CASE /\ q.kind = "history" /\ Incremental /\ q.completed + 1 >= q.total
             /\ p.kind = "update" /\ p.start = q.t0 /\ p.target = today - UpdateLag
             /\ p.end = Least(p.start + WindowDays - 1, p.target)
             /\ ~(p.start > p.target)
    <2>1. /\ q.start = Floor + q.completed * WindowDays
          /\ q.completed + 1 >= Ceiling(q.target - Floor + 1, WindowDays)
          /\ q.end = Least(q.start + WindowDays - 1, q.target)
      BY <1>1, <1>4 DEF RowInv, InWalk, WellPlanned
    <2>2. q.target <= q.start + WindowDays - 1
      BY <1>2, <2>1, WalkEnd
    <2>3. q.end = q.target
      BY <1>2, <2>1, <2>2, DayInt DEF Least
    <2>4. history.next = q.target + 1 /\ history.frozen = q.target /\ update = None
      BY <1>1, <1>4, <2>3 DEF Left, Serves
    <2>5. PastEnd
      BY <1>2, <2>4, DayInt DEF PastEnd
    <2>6. p.start <= p.target
      BY <1>2, <1>4, DayInt
    <2>. QED
      BY <1>4, <2>4, <2>5, <2>6 DEF RowInv, Accepts, Serves, WellPlanned
  <1>5. CASE /\ p.kind = q.kind /\ p.start = q.end + 1 /\ p.target = q.target
             /\ p.end = Least(p.start + WindowDays - 1, p.target)
             /\ p.t0 = q.t0 /\ p.total = q.total
             /\ p.completed = IF q.kind = "update" THEN q.completed ELSE q.completed + 1
             /\ ~(p.start > p.target)
    <2>1. p.start <= p.target
      BY <1>2, <1>5, DayInt
    <2>2. ASSUME q.kind = "history", Incremental PROVE InWalk(p)
      <3>1. InWalk(q) /\ WellPlanned(q)
        BY <1>1, <2>2 DEF RowInv
      <3>2. q.end # q.target
        BY <1>2, <1>5, DayInt
      <3>3. q.end + 1 = Floor + (q.completed + 1) * WindowDays
        BY <1>1, <3>1, <3>2, WalkGoesOn DEF InWalk
      <3>. QED
        BY <1>5, <2>2, <3>1, <3>3 DEF InWalk
    <2>3. q.kind = "history" => history.t0 = q.t0 /\ q.t0 # None /\ history.next = q.end + 1
      BY <1>1, <1>2, DayInt DEF Left
    <2>4. q.kind = "update" => update = q.end + 1
      BY <1>1 DEF Left
    <2>5. RowInv(p)
      BY <1>1, <1>5, <2>1, <2>2, <2>3 DEF RowInv, WellPlanned
    <2>6. Accepts(p)
      BY <1>5, <2>1, <2>3, <2>4 DEF Accepts
    <2>7. Serves(p)
      BY <1>1, <1>5 DEF Serves
    <2>. QED
      BY <2>5, <2>6, <2>7
  <1>. QED
    BY <1>1, <1>3, <1>4, <1>5, ChainedFields

LEMMA OriginRow ==
  ASSUME ~LocksDrop, AcceptInv, NEW p \in Window, Origin(p)
  PROVE  RowInv(p)
  <1>1. CASE \E k \in DOMAIN jobs : p = jobs[k].plan
    BY <1>1 DEF AcceptInv, RowsInv
  <1>2. ASSUME NEW first \in Day, NEW last \in Day, p = CustomPlan(first, last)
        PROVE  RowInv(p)
    <2>1. p.kind = "custom"
      BY <1>2 DEF CustomPlan
    <2>. QED
      BY <2>1 DEF RowInv
  <1>. QED
    BY <1>1, <1>2, NextWindowRow, ChainedRow DEF Origin, AcceptInv, OwnInv

\* What enters the queue is the window that the engine expects.
LEMMA EntrantFits ==
  ASSUME AcceptInv, NEW r \in Execution, Entrant(r)
  PROVE  Accepts(r.plan) /\ Serves(r.plan)
  <1>1. TypeInv /\ CheckInv
    BY DEF AcceptInv, OwnInv
  <1>2. \A p : p.kind = "custom" => Accepts(p) /\ Serves(p)
    BY DEF Accepts, Serves
  <1>3. CASE ByManual(r) \/ ByScheduler(r)
    <2>1. r.plan \in NextWindow
      BY <1>3, NewTaskFields DEF ByManual, ByScheduler
    <2>. QED
      BY <1>1, <2>1, NextWindowRow
  <1>4. CASE ByRange(r)
    <2>1. r.plan.kind = "custom"
      BY <1>4, NewTaskFields DEF ByRange, CustomPlan
    <2>. QED
      BY <1>2, <2>1
  <1>5. ASSUME NEW j \in DOMAIN jobs, NEW q \in Window, q \in RetryPlan(j),
               r = Retried(jobs[j], q)
        PROVE  Accepts(r.plan) /\ Serves(r.plan)
    <2>1. r.plan = q
      BY <1>1, <1>5, JobType, RetriedFields
    <2>2. CASE q.kind = "custom"
      BY <1>2, <2>1, <2>2
    <2>3. CASE q \in NextWindow
      BY <1>1, <2>1, <2>3, NextWindowRow
    <2>4. ASSUME q.kind # "custom", q \notin NextWindow, q = jobs[j].plan,
                 NEW p \in NextWindow, p.kind = q.kind, p.start = q.start
          PROVE  Accepts(q) /\ Serves(q)
      <3>1. Accepts(p) /\ Serves(p)
        BY <1>1, NextWindowRow
      <3>2. WellPlanned(q)
        BY <2>4 DEF AcceptInv, RowsInv, RowInv
      <3>3. p.kind # "custom"
        BY <2>4
      <3>4. Accepts(q)
        BY <2>4, <3>1, <3>2, <3>3 DEF Accepts, WellPlanned
      <3>. QED
        BY <2>4, <3>1, <3>4 DEF Serves
    <2>5. q.kind = "custom" \/ q \in NextWindow
          \/ (q = jobs[j].plan /\ \E p \in NextWindow : p.kind = q.kind /\ p.start = q.start)
      BY <1>5 DEF RetryPlan
    <2>. QED
      BY <2>1, <2>2, <2>3, <2>4, <2>5
  <1>6. ASSUME NEW j \in DOMAIN jobs, jobs[j].status = "paused", ActiveJobs = {j},
               r = Retried(jobs[j], jobs[j].plan)
        PROVE  Accepts(r.plan) /\ Serves(r.plan)
    <2>1. r.plan = jobs[j].plan
      BY <1>1, <1>6, JobType, RetriedFields
    <2>. QED
      BY <1>6, <2>1 DEF AcceptInv, ActiveInv
  <1>. QED
    BY <1>3, <1>4, <1>5, <1>6 DEF Entrant, ByRetry, ByResumption

\* A commit: the worker had the window that the engine expects.
LEMMA CommitSteps ==
  ASSUME ~LocksDrop, AcceptInv, NEW w \in Worker, Commit(w)
  PROVE  LET q == Plan(w) IN
         /\ exec[w].stage = "paged" /\ Accepts(q) /\ RowInv(q) /\ Serves(q) /\ q \in Window
         /\ q.kind = "history" =>
              /\ history'.next = q.end + 1 /\ history'.frozen = q.target /\ history'.t0 = q.t0
              /\ update' = update /\ update = None
              /\ q.start = history.next
         /\ q.kind = "update" =>
              history' = history /\ update' = q.end + 1 /\ update \in {None, q.start}
         /\ q.kind = "custom" => UNCHANGED <<history, update>>
         /\ q.kind # "custom" =>
              q.start <= q.end /\ q.end \in Int /\ q.start \in Int /\ Floor <= q.start
  <1>. DEFINE q == Plan(w)
  <1>1. exec[w].stage = "paged"
    BY DEF Commit
  <1>2. Accepts(q) /\ RowInv(q) /\ Serves(q) /\ q \in Window
    BY <1>1, WorkerActive DEF AcceptInv, WorkInv
  <1>3. q.kind \in Kind
    BY <1>2 DEF Window
  <1>4. q.kind # "custom" =>
          q.start <= q.end /\ q.end \in Int /\ q.start \in Int /\ Floor <= q.start
    BY <1>2, DayInt DEF RowInv, WellPlanned, Least, Window
  <1>. QED
    BY <1>1, <1>2, <1>3, <1>4 DEF Commit, Accepts, Serves

\* T0 is there once and for all.
LEMMA T0Kept ==
  ASSUME ~LocksDrop, AcceptInv, [Next]_vars, history.t0 # None
  PROVE  history'.t0 = history.t0
  <1>1. ASSUME NEW w \in Worker, Commit(w) PROVE history'.t0 = history.t0
    <2>1. CASE Plan(w).kind = "history"
      <3>1. history'.t0 = Plan(w).t0 /\ Plan(w).start = history.next /\ RowInv(Plan(w))
        BY <1>1, <2>1, CommitSteps
      <3>2. history.next > Floor
        BY DEF AcceptInv, CheckInv
      <3>. QED
        BY <2>1, <3>1, <3>2 DEF RowInv
    <2>2. CASE Plan(w).kind # "history"
      BY <1>1, <2>2 DEF Commit
    <2>. QED
      BY <2>1, <2>2
  <1>. QED
    BY <1>1, DataSteps

LEMMA RowsInvNext ==
  ASSUME ~LocksDrop, AcceptInv, [Next]_vars
  PROVE  RowsInv'
  <1>. SUFFICES ASSUME NEW p \in Window, NEW j \in DOMAIN jobs', jobs'[j].plan = p
                PROVE  RowInv(p)'
    BY DEF RowsInv
  <1>1. Origin(p)
    BY PlanOrigins DEF AcceptInv, OwnInv
  <1>2. RowInv(p)
    BY <1>1, OriginRow
  <1>. QED
    BY <1>2, T0Kept DEF RowInv, WellPlanned, InWalk

LEMMA CheckInvNext ==
  ASSUME ~LocksDrop, AcceptInv, [Next]_vars
  PROVE  CheckInv'
  <1>1. CASE UNCHANGED <<history, update>>
    BY <1>1 DEF AcceptInv, CheckInv, PastEnd
  <1>2. ASSUME NEW w \in Worker, Commit(w), Plan(w).kind = "history" PROVE CheckInv'
    <2>. DEFINE q == Plan(w)
    <2>1. /\ history'.next = q.end + 1 /\ history'.frozen = q.target
          /\ update' = None /\ q.start <= q.end /\ Floor <= q.start
          /\ q.end \in Int /\ q.start \in Int /\ RowInv(q) /\ q \in Window
      BY <1>2, CommitSteps
    <2>2. q.target \in Day /\ q.completed \in Nat
      BY <2>1 DEF Window
    <2>. HIDE DEF q
    <2>3. history'.next > Floor /\ history'.frozen # None
      BY <2>1, <2>2, DayInt
    <2>4. ASSUME Incremental
          PROVE  history'.next > history'.frozen \/ \E k \in Nat : history'.next = Floor + k * WindowDays
      <3>1. WellPlanned(q) /\ q.start = Floor + q.completed * WindowDays
        BY <1>2, <2>1, <2>4 DEF RowInv, InWalk, q
      <3>2. q.end = q.target \/ q.end + 1 = Floor + (q.completed + 1) * WindowDays
        BY <2>1, <3>1, WalkGoesOn
      <3>3. q.completed + 1 \in Nat
        BY <2>2
      <3>4. CASE q.end = q.target
        BY <2>1, <3>4
      <3>5. CASE q.end + 1 = Floor + (q.completed + 1) * WindowDays
        BY <2>1, <3>3, <3>5
      <3>. QED
        BY <3>2, <3>4, <3>5
    <2>. QED
      BY <2>1, <2>3, <2>4 DEF CheckInv, PastEnd
  <1>3. ASSUME NEW w \in Worker, Commit(w), Plan(w).kind = "update" PROVE CheckInv'
    <2>1. history' = history /\ RowInv(Plan(w)) /\ Serves(Plan(w))
      BY <1>3, CommitSteps
    <2>2. Incremental /\ PastEnd
      BY <1>3, <2>1 DEF RowInv, Serves
    <2>. QED
      BY <2>1, <2>2 DEF AcceptInv, CheckInv, PastEnd
  <1>4. \A w \in Worker : Commit(w) /\ Plan(w).kind \notin {"history", "update"}
          => UNCHANGED <<history, update>>
    BY DEF Commit
  <1>. QED
    BY <1>1, <1>2, <1>3, <1>4, DataSteps

LEMMA WorkInvNext ==
  ASSUME ~LocksDrop, AcceptInv, [Next]_vars
  PROVE  WorkInv'
  <1>. SUFFICES ASSUME NEW v \in Worker, exec'[v].stage # "idle"
                PROVE  /\ exec'[v].stage \in {"paging", "paged"} => Accepts(Plan(v))'
                       /\ exec'[v].stage = "committed" => Left(Plan(v))'
    BY DEF WorkInv
  <1>1. OwnInv
    BY DEF AcceptInv
  <1>2. CASE GoesOn(v) /\ UNCHANGED <<history, update>> /\ exec'[v].stage # "committed"
    <2>1. exec[v].stage \in {"paging", "paged"}
      BY <1>1, <1>2 DEF GoesOn, Fetch, OwnInv, TypeInv, TypeOK
    <2>2. Accepts(Plan(v)) /\ Plan(v)' = Plan(v)
      BY <1>2, <2>1 DEF AcceptInv, WorkInv, GoesOn, Plan
    <2>. QED
      BY <1>2, <2>2 DEF Accepts
  <1>3. CASE GoesOn(v) /\ UNCHANGED <<history, update>> /\ exec[v].stage = "committed"
    <2>1. exec'[v].stage = "committed" /\ Left(Plan(v)) /\ Plan(v)' = Plan(v)
      BY <1>3 DEF GoesOn, Fetch, Commit, AcceptInv, WorkInv, Plan
    <2>. QED
      BY <1>3, <2>1 DEF Left
  <1>4. CASE GoesOn(v) /\ Commit(v) /\ exec'[v].stage = "committed"
    <2>1. Plan(v)' = Plan(v)
      BY <1>4 DEF GoesOn, Plan
    <2>. QED
      BY <1>4, <2>1, CommitSteps DEF Left
  <1>5. ASSUME GoesOn(v), NEW w \in Worker, Commit(w)
        PROVE  Commit(v) /\ exec'[v].stage = "committed"
    <2>1. Running(v) /\ Running(w) /\ exec[w].stage # "idle" /\ exec[v].stage # "idle"
      BY <1>5, WorkerActive DEF Commit, GoesOn
    <2>2. v = w
      BY <1>1, <2>1, OneRunning
    <2>. QED
      BY <1>1, <1>5, <2>2 DEF Commit, OwnInv, TypeInv, TypeOK
  <1>6. ASSUME NEW j \in DOMAIN jobs, Start(v, j)
        PROVE  exec'[v].stage = "paging" /\ Accepts(Plan(v))'
    <2>1. /\ exec'[v] = [stage |-> "paging", job |-> j, day |-> today]
          /\ UNCHANGED <<history, update>> /\ Accepts(jobs[j].plan)
      BY <1>1, <1>6 DEF Start, OwnInv, TypeInv, TypeOK
    <2>2. Plan(v)' = jobs[j].plan
      BY <1>1, <2>1, PlanOrigins DEF OwnInv, SameWindow, Plan
    <2>. QED
      BY <2>1, <2>2 DEF Accepts
  <1>7. CASE GoesOn(v) /\ UNCHANGED <<history, update>>
    <2>1. CASE exec'[v].stage = "committed" /\ exec[v].stage # "committed"
      BY <1>4, <1>7, <2>1 DEF GoesOn
    <2>2. exec[v].stage = "committed" => exec'[v].stage = "committed"
      BY <1>7 DEF GoesOn, Fetch, Commit
    <2>. QED
      BY <1>2, <1>3, <1>7, <2>1, <2>2
  <1>8. CASE GoesOn(v) /\ \E w \in Worker : Commit(w)
    BY <1>4, <1>5, <1>8
  <1>9. GoesOn(v) \/ \E j \in DOMAIN jobs : Start(v, j)
    BY <1>1, WorkerSteps
  <1>. QED
    BY <1>6, <1>7, <1>8, <1>9, DataSteps

\* Steps that only change statuses.
LEMMA StatusActive ==
  ASSUME AcceptInv, UNCHANGED <<history, update>>, DOMAIN jobs' = DOMAIN jobs,
         \A k \in DOMAIN jobs :
           /\ SameWindow(jobs'[k], jobs[k])
           /\ jobs'[k].status \in Active =>
                /\ jobs[k].status \in Active
                /\ \/ jobs'[k].status \in {"running", jobs[k].status}
                   \/ Accepts(jobs[k].plan)
  PROVE  ActiveInv'
  <1>. SUFFICES ASSUME NEW k \in ActiveJobs'
                PROVE  /\ jobs'[k].status # "running" => Accepts(jobs[k].plan)
                       /\ Serves(jobs[k].plan) /\ jobs'[k].plan = jobs[k].plan
    BY DEF ActiveInv, Accepts, Serves, PastEnd
  <1>1. k \in DOMAIN jobs /\ jobs'[k].status \in Active /\ IsCurrent(k)'
    BY DEF ActiveJobs
  <1>2. IsCurrent(k)
    BY <1>1 DEF IsCurrent, SameWindow
  <1>3. k \in ActiveJobs
    BY <1>1, <1>2 DEF ActiveJobs
  <1>. QED
    BY <1>1, <1>3 DEF AcceptInv, ActiveInv, SameWindow

LEMMA NewActive ==
  ASSUME UNCHANGED <<history, update>>, NEW n, ActiveJobs' = {n},
         Accepts(jobs'[n].plan), Serves(jobs'[n].plan)
  PROVE  ActiveInv'
  BY DEF ActiveInv, Accepts, Serves, PastEnd

LEMMA EntryActive ==
  ASSUME AcceptInv, Entry
  PROVE  ActiveInv'
  <1>1. UNCHANGED <<history, update>>
    BY EntryRows DEF AcceptInv, OwnInv
  <1>2. ASSUME NEW r \in Execution, Added(r), Entrant(r) PROVE ActiveInv'
    <2>1. ActiveJobs' = {Len(jobs) + 1}
      BY <1>2, EntrantOwn DEF AcceptInv
    <2>2. jobs'[Len(jobs) + 1] = r
      BY <1>2 DEF Added
    <2>3. Accepts(r.plan) /\ Serves(r.plan)
      BY <1>2, EntrantFits
    <2>. PICK n : n = Len(jobs) + 1
      OBVIOUS
    <2>. QED
      BY <1>1, <2>1, <2>2, <2>3, NewActive
  <1>3. CASE SameRows
    BY <1>1, <1>3, StatusActive DEF SameRows
  <1>4. ASSUME NEW j \in DOMAIN jobs, StatusOf(j, "ended") PROVE ActiveInv'
    BY <1>1, <1>4, StatusActive DEF StatusOf, Active
  <1>. QED
    BY <1>2, <1>3, <1>4, EntryRows DEF AcceptInv, OwnInv

LEMMA CommitActive ==
  ASSUME ~LocksDrop, AcceptInv, NEW w \in Worker, Commit(w), SameRows
  PROVE  ActiveInv'
  <1>. SUFFICES ASSUME NEW k \in ActiveJobs'
                PROVE  /\ jobs'[k].status = "running"
                       /\ jobs'[k].plan.kind = "history" => update' = None
                       /\ jobs'[k].plan.kind = "update" => PastEnd'
    BY DEF ActiveInv, Serves
  <1>1. exec[w].job \in ActiveJobs /\ Running(w) /\ Plan(w) = jobs[exec[w].job].plan
    BY WorkerActive DEF Commit
  <1>2. k \in DOMAIN jobs /\ jobs[k].status \in Active /\ IsCurrent(k)
    BY DEF ActiveJobs, SameRows, SameWindow, IsCurrent
  <1>3. k \in ActiveJobs
    BY <1>2 DEF ActiveJobs
  <1>4. k = exec[w].job
    BY <1>1, <1>3 DEF AcceptInv, OwnInv, OneActive
  <1>5. jobs'[k].status = "running" /\ jobs'[k].plan = Plan(w)
    BY <1>1, <1>2, <1>4 DEF SameRows, SameWindow, Running
  <1>6. Serves(Plan(w))
    BY WorkerActive DEF Commit
  <1>7. ASSUME Plan(w).kind = "history" PROVE update' = None
    BY <1>7, CommitSteps
  <1>8. ASSUME Plan(w).kind = "update" PROVE PastEnd'
    BY <1>6, <1>8, CommitSteps DEF Serves, PastEnd
  <1>. QED
    BY <1>5, <1>7, <1>8

LEMMA WorkActive ==
  ASSUME ~LocksDrop, AcceptInv, NEW w \in Worker, Work(w)
  PROVE  ActiveInv'
  <1>1. TypeInv
    BY DEF AcceptInv, OwnInv
  <1>2. ASSUME NEW j \in DOMAIN jobs, Start(w, j), StatusOf(j, "running") PROVE ActiveInv'
    BY <1>2, StatusActive DEF Start, StatusOf, Active
  <1>3. ASSUME NEW j \in DOMAIN jobs, Rejected(w, j), StatusOf(j, "failed") PROVE ActiveInv'
    BY <1>3, StatusActive DEF Rejected, Rest, StatusOf, Active
  <1>4. ASSUME Fetch(w), SameRows PROVE ActiveInv'
    BY <1>4, StatusActive DEF Fetch, SameRows
  <1>5. ASSUME Commit(w), SameRows PROVE ActiveInv'
    BY <1>5, CommitActive
  <1>6. ASSUME (\E status \in {"paused", "failed"} : Halt(w, status)) \/ Fail(w),
               \/ SameRows
               \/ \E status \in {"paused", "failed"} :
                    StatusOf(exec[w].job, status) /\ (status = "paused" => Halt(w, status))
        PROVE  ActiveInv'
    <2>1. UNCHANGED <<history, update>>
      BY <1>6 DEF Halt, Fail
    <2>2. CASE SameRows
      BY <2>1, <2>2, StatusActive DEF SameRows
    <2>3. CASE StatusOf(exec[w].job, "failed")
      BY <2>1, <2>3, StatusActive DEF StatusOf, Active
    <2>4. CASE StatusOf(exec[w].job, "paused") /\ Halt(w, "paused")
      <3>1. exec[w].stage = "paging"
        BY <2>4 DEF Halt
      <3>2. Accepts(jobs[exec[w].job].plan) /\ jobs[exec[w].job].status = "running"
        BY <3>1, WorkerActive DEF AcceptInv, WorkInv, Plan, Running
      <3>. QED
        BY <2>1, <2>4, <3>2, StatusActive DEF StatusOf, Active
    <2>. QED
      BY <1>6, <2>2, <2>3, <2>4
  <1>7. ASSUME NEW how, Finish(w, how), StatusOf(exec[w].job, EndStatus(how)) PROVE ActiveInv'
    BY <1>7, StatusActive DEF Finish, StatusOf, EndStatus, Active
  <1>8. ASSUME NEW how, Finish(w, how), NEW p \in Window, p \in Chained(Plan(w)),
               Followed(exec[w].job, EndStatus(how), Successor(jobs[exec[w].job], p))
        PROVE  ActiveInv'
    <2>1. /\ UNCHANGED <<history, update>> /\ exec[w].stage = "committed"
          /\ exec[w].job \in DOMAIN jobs /\ jobs[exec[w].job].status = "running"
      BY <1>1, <1>8, WorkingType DEF Finish, Running
    <2>2. ActiveJobs' = {Len(jobs) + 1}
      BY <1>8, <2>1, FollowedOwn DEF AcceptInv, EndStatus
    <2>3. jobs'[Len(jobs) + 1].plan = p
      BY <1>1, <1>8, <2>1, JobType, SuccessorFields DEF Followed
    <2>4. Accepts(p) /\ Serves(p)
      BY <1>8, <2>1, ChainedRow
    <2>. PICK n : n = Len(jobs) + 1
      OBVIOUS
    <2>. QED
      BY <2>1, <2>2, <2>3, <2>4, NewActive
  <1>. QED
    BY <1>1, <1>2, <1>3, <1>4, <1>5, <1>6, <1>7, <1>8, WorkRows

LEMMA NextAccept ==
  ASSUME ~LocksDrop, AcceptInv, [Next]_vars
  PROVE  AcceptInv'
  <1>1. OwnInv'
    BY NextOwn DEF AcceptInv
  <1>2. ActiveInv'
    <2>1. ASSUME NEW j \in DOMAIN jobs, Lose(j) PROVE FALSE
      BY <2>1 DEF Lose
    <2>2. CASE Midnight \/ UNCHANGED vars
      <3>1. SameRows /\ UNCHANGED <<history, update>>
        BY <2>2 DEF Midnight, vars, SameRows, SameWindow
      <3>. QED
        BY <3>1, StatusActive DEF SameRows
    <2>. QED
      BY <2>1, <2>2, EntryActive, WorkActive DEF Next
  <1>. QED
    BY <1>1, <1>2, CheckInvNext, RowsInvNext, WorkInvNext DEF AcceptInv

LEMMA InitAccept ==
  ASSUME Init
  PROVE  AcceptInv
  <1>1. DOMAIN jobs = {}
    BY EmptySeq, LenProperties DEF Init
  <1>2. OwnInv
    BY InitOwn
  <1>3. CheckInv
    <2>1. history.next = Floor + 0 * WindowDays
      BY DayInt DEF Init
    <2>. QED
      BY <2>1 DEF Init, CheckInv
  <1>4. RowsInv /\ ActiveInv
    BY <1>1 DEF RowsInv, ActiveInv, ActiveJobs
  <1>5. WorkInv
    BY DEF Init, WorkInv, Idle
  <1>. QED
    BY <1>2, <1>3, <1>4, <1>5 DEF AcceptInv

LEMMA AcceptAdvances ==
  ASSUME ~LocksDrop, AcceptInv, [Next]_vars
  PROVE  Advances
  <1>1. history.next \in Int /\ update \in Int
    BY DayInt DEF AcceptInv, OwnInv, TypeInv, TypeOK, Day
  <1>2. CASE UNCHANGED <<history, update>>
    BY <1>1, <1>2 DEF Advances
  <1>3. ASSUME NEW w \in Worker, Commit(w) PROVE Advances
    <2>1. Plan(w).kind \in Kind
      BY <1>3, CommitSteps DEF Window
    <2>2. history'.next >= history.next /\ update' >= update
      BY <1>1, <1>3, <2>1, CommitSteps, DayInt DEF Kind
    <2>. QED
      BY <2>2, T0Kept DEF Advances
  <1>. QED
    BY <1>2, <1>3, DataSteps

\* While a lost claim stops its worker, no retry, resumption or following execution is ever
\* left with a window that the engine refuses, for any window, lags and number of workers.
THEOREM NextWindowWaits ==
  ASSUME ~LocksDrop
  PROVE  Spec => []WaitingIsNext
  <1>1. AcceptInv => WaitingIsNext
    BY DEF AcceptInv, ActiveInv, WaitingIsNext
  <1>2. Init => AcceptInv
    BY InitAccept
  <1>3. AcceptInv /\ [Next]_vars => AcceptInv'
    BY NextAccept
  <1>. QED
    BY <1>1, <1>2, <1>3, PTL DEF Spec

\* Under the same condition the checkpoints never go back, and T0 is set only once.
THEOREM CheckpointsForward ==
  ASSUME ~LocksDrop
  PROVE  Spec => CheckpointsAdvance
  <1>1. Init => AcceptInv
    BY InitAccept
  <1>2. AcceptInv /\ [Next]_vars => AcceptInv'
    BY NextAccept
  <1>3. AcceptInv /\ [Next]_vars => [Advances]_vars
    BY AcceptAdvances
  <1>. QED
    BY <1>1, <1>2, <1>3, PTL DEF Spec, CheckpointsAdvance
-----------------------------------------------------------------------------
(* What a task that reports success has fetched.  The invariant follows each *)
(* execution: the days of its range below the checkpoint were fetched since    *)
(* its task was created, and its window is at least as far in the range as its *)
(* index says.  A retry may find a shorter backfill than the one its task was  *)
(* created for; by then another task was one window ahead, which makes up for  *)
(* the window the shorter end cuts off.                                        *)

FetchedSince(k, from, to, t) == \A d \in Day : from <= d /\ d < to => fetched[k][d] >= t

\* A worker's pages are the freshest data, and they are there once it has paged.
Brings(w) ==
  exec[w].stage # "idle" =>
    /\ exec[w].day <= today
    /\ \A k \in Kind : \A d \in Day : fetched[k][d] <= exec[w].day
    /\ exec[w].stage # "paging" =>
         FetchedSince(Plan(w).kind, Plan(w).start, Plan(w).end + 1, exec[w].day)

DataInv ==
  /\ \A w \in Worker : Brings(w)
  /\ FetchedInv
  /\ history.frozen # None => history.frozen <= today - Lag
  /\ Incremental /\ history.t0 # None => history.frozen = history.t0 - Lag
  /\ update # None => update >= history.t0

\* No worker began before the task of r was created.
Older(r) == \A w \in Worker : exec[w].stage # "idle" => r.since <= exec[w].day

\* The changes of r's range that the checkpoint has passed.
ChangesCover(r) ==
  update # None =>
    \A d \in Day : r.first <= d /\ history.t0 <= d /\ d < update => fetched["update"][d] >= r.since

\* A window of the backfill is as far as its index says, and one window further when
\* the end it walks to is short of the range.
HistoryPlace(r) ==
  LET p == r.plan IN
  /\ p.start <= history.next
  /\ history.next = p.start \/ history.next >= p.start + WindowDays \/ PastEnd
  /\ p.target <= today - Lag
  /\ Incremental => /\ p.target = p.t0 - Lag
                    /\ history.frozen # None => p.start <= history.frozen
  /\ p.start >= r.first + (r.index - 1) * WindowDays
  /\ p.target < r.last => p.start >= r.first + r.index * WindowDays

\* The same of a window of changes; o is the kind that its task began with.
UpdatePlace(r, o) ==
  LET p == r.plan IN
  /\ Incremental /\ PastEnd
  /\ p.start >= history.t0 /\ (update = None => p.start = history.t0)
  /\ update # None => p.start <= update
  /\ p.target >= r.last
  /\ \/ o = "history" /\ history.next > r.last
     \/ p.start >= r.first + (r.index - 1) * WindowDays

RangeCover(r, o) ==
  /\ o = "custom" => FetchedSince("custom", r.first, r.plan.start, r.since)
  /\ o = "history" => FetchedSince("history", r.first, history.next, r.since)
  /\ o # "custom" => ChangesCover(r)

Place(r, o) ==
  /\ r.plan.kind = o \/ (r.plan.kind = "update" /\ o = "history")
  /\ o = "history" => r.last <= today - Lag
  /\ o = "update" => r.first >= history.t0 /\ r.last <= today - UpdateLag
  /\ r.plan.kind = "history" => HistoryPlace(r)
  /\ r.plan.kind = "update" => UpdatePlace(r, o)

Begun(r) ==
  /\ r.since <= today /\ Older(r)
  /\ r.index > 0 /\ r.first <= r.last
  /\ r.last < r.first + r.windows * WindowDays

RowCover(r, o) == Begun(r) /\ Place(r, o) /\ RangeCover(r, o)

OriginKind(r) == jobs[r.task].plan.kind

\* The window of r is fetched, and the checkpoint is past it.
Passed(r) ==
  /\ r.plan.kind = "history" => history.next > r.plan.end
  /\ r.plan.kind = "update" => update > r.plan.end
  /\ r.plan.kind = "custom" => FetchedSince("custom", r.plan.start, r.plan.end + 1, r.since)

CoverRows ==
  \A r \in Execution : (\E j \in DOMAIN jobs : r = jobs[j]) =>
    /\ r.task \in DOMAIN jobs
    /\ RowCover(r, OriginKind(r))
    /\ r.status = "success" => Passed(r)

CoverInv == AcceptInv /\ GapInv /\ CustomRows /\ DataInv /\ CoverRows

\* The theorem's conditions: lost claims stop their workers, tasks ask for all shops,
\* and the changes are followed from the day after the backfill's end, up to its lag.
CoverSetting ==
  /\ ~LocksDrop /\ ~SomeShops
  /\ Incremental => Lag <= 1 /\ UpdateLag <= Lag

LEMMA CoverType ==
  ASSUME CoverInv
  PROVE  /\ TypeInv /\ OwnInv
         /\ today \in Day /\ today - Lag \in Day
         /\ history.next \in Int /\ history.next >= Floor
         /\ history.frozen \in Day \cup {None} /\ history.t0 \in Day \cup {None}
         /\ history.frozen \in Int /\ history.t0 \in Int
         /\ update \in Int /\ (update # None => update >= Floor)
         /\ history.frozen # None => history.t0 # None
         /\ history.t0 # None => history.t0 \in Day /\ history.frozen \in Day
  <1>1. TypeInv /\ OwnInv /\ CheckInv
    BY DEF CoverInv, AcceptInv, OwnInv
  <1>2. today \in Day /\ today - Lag \in Day
    BY <1>1, TodayFacts DEF TypeInv
  <1>3. /\ history.next \in Int /\ history.next >= Floor
        /\ history.frozen \in Day \cup {None} /\ history.t0 \in Day \cup {None}
        /\ history.frozen \in Int /\ history.t0 \in Int
        /\ update \in Int /\ (update # None => update >= Floor)
    BY <1>1, DayInt, DaysAssumption DEF TypeInv, TypeOK, Day
  <1>4. history.frozen # None => history.t0 # None
    BY <1>1 DEF TypeInv, Watermark
  <1>. QED
    BY <1>1, <1>2, <1>3, <1>4 DEF CheckInv

LEMMA RowType ==
  ASSUME NEW r \in Execution
  PROVE  /\ r.plan \in Window /\ r.first \in Int /\ r.last \in Int /\ r.since \in Int
         /\ r.first \in Day /\ r.last \in Day /\ r.since \in Day
         /\ r.index \in Nat /\ r.windows \in Nat
         /\ r.plan.start \in Int /\ r.plan.end \in Int /\ r.plan.target \in Int
         /\ r.plan.t0 \in Int /\ r.plan.start \in Day /\ r.plan.end \in Day
         /\ r.plan.kind \in Kind /\ r.plan.t0 \in Day /\ r.plan.target \in Day
         /\ r.index * WindowDays \in Int /\ (r.index - 1) * WindowDays \in Int
         /\ r.index * WindowDays = (r.index - 1) * WindowDays + WindowDays
         /\ (r.index + 1) * WindowDays = r.index * WindowDays + WindowDays
         /\ r.windows * WindowDays \in Int
  <1>1. r.plan \in Window /\ r.first \in Day /\ r.last \in Day /\ r.since \in Day
        /\ r.index \in Nat /\ r.windows \in Nat
    BY DEF Execution
  <1>2. /\ r.plan.start \in Day /\ r.plan.end \in Day /\ r.plan.target \in Day
        /\ r.plan.t0 \in Day /\ r.plan.kind \in Kind
    BY <1>1 DEF Window
  <1>3. /\ r.index * WindowDays \in Int /\ (r.index - 1) * WindowDays \in Int
        /\ r.index * WindowDays = (r.index - 1) * WindowDays + WindowDays
        /\ (r.index + 1) * WindowDays = r.index * WindowDays + WindowDays
        /\ r.windows * WindowDays \in Int
    BY <1>1, DayInt
  <1>. QED
    BY <1>1, <1>2, <1>3, DayInt

LEMMA OnlyWorker ==
  ASSUME ~LocksDrop, CoverInv, NEW v \in Worker, NEW w \in Worker,
         exec[v].stage # "idle", exec[w].stage # "idle"
  PROVE  v = w
  BY WorkerActive, OneRunning DEF CoverInv, AcceptInv

LEMMA FetchGives ==
  ASSUME CoverInv, NEW w \in Worker, Fetch(w)
  PROVE  /\ exec[w].stage = "paging" /\ Plan(w) \in Window /\ exec[w].day \in Day
         /\ \A k \in Kind : \A d \in Day :
              fetched'[k][d] = IF k = Plan(w).kind /\ d \in Span(Plan(w)) THEN exec[w].day
                               ELSE fetched[k][d]
  <1>1. TypeInv /\ exec[w].stage = "paging"
    BY CoverType DEF Fetch
  <1>2. exec[w].job \in DOMAIN jobs /\ exec[w].day \in Day /\ Plan(w) \in Window
    BY <1>1, WorkingType DEF Plan
  <1>3. jobs[exec[w].job].shops = "all"
    BY <1>2 DEF CoverInv, GapInv, AllShops
  <1>. QED
    BY <1>1, <1>2, <1>3 DEF Fetch

LEMMA CoverGrows ==
  ASSUME CoverInv, [Next]_vars
  PROVE  Grows
  <1>1. TypeInv /\ TypeInv'
    BY CoverType, NextTypeInv
  <1>2. today \in Day /\ today' \in Day
    BY <1>1, DaysAssumption DEF TypeInv, TypeOK, Day
  <1>3. today <= today'
    BY <1>2, DataSteps, DayInt
  <1>4. \A k \in Kind : \A d \in Day : fetched[k][d] \in Int /\ fetched'[k][d] \in Int
    BY <1>1, DayInt DEF TypeInv, TypeOK
  <1>5. ASSUME NEW w \in Worker, Fetch(w), NEW k \in Kind, NEW d \in Day
        PROVE  fetched[k][d] <= fetched'[k][d]
    <2>1. fetched[k][d] <= exec[w].day
      BY <1>5, FetchGives DEF CoverInv, DataInv, Brings
    <2>. QED
      BY <1>4, <1>5, <2>1, FetchGives
  <1>6. \A k \in Kind : \A d \in Day : fetched[k][d] <= fetched'[k][d]
    BY <1>4, <1>5, DataSteps
  <1>. QED
    BY <1>2, <1>3, <1>4, <1>6 DEF Grows

LEMMA SinceGrows ==
  ASSUME Grows, NEW k \in Kind, NEW from, NEW to, NEW t \in Int, FetchedSince(k, from, to, t)
  PROVE  FetchedSince(k, from, to, t)'
  <1>. SUFFICES ASSUME NEW d \in Day, from <= d, d < to PROVE fetched'[k][d] >= t
    BY DEF FetchedSince
  <1>1. fetched[k][d] >= t
    BY DEF FetchedSince
  <1>. QED
    BY <1>1 DEF Grows

\* The execution of a worker past its claim, in the terms of the invariant.
LEMMA WorkerCover ==
  ASSUME ~LocksDrop, CoverInv, NEW w \in Worker, exec[w].stage # "idle"
  PROVE  /\ Running(w) /\ exec[w].job \in DOMAIN jobs /\ jobs[exec[w].job] \in Execution
         /\ Plan(w) = jobs[exec[w].job].plan /\ Plan(w) \in Window
         /\ exec[w].day \in Day
         /\ RowCover(jobs[exec[w].job], OriginKind(jobs[exec[w].job]))
         /\ RowInv(Plan(w)) /\ Serves(Plan(w)) /\ Brings(w)
  <1>1. Running(w) /\ exec[w].job \in DOMAIN jobs /\ Plan(w) \in Window
        /\ Plan(w) = jobs[exec[w].job].plan /\ RowInv(Plan(w)) /\ Serves(Plan(w))
    BY WorkerActive DEF CoverInv
  <1>2. jobs[exec[w].job] \in Execution
    BY <1>1, CoverType, JobType
  <1>3. exec[w].day \in Day
    BY CoverType DEF TypeInv, TypeOK
  <1>. QED
    BY <1>1, <1>2, <1>3 DEF CoverInv, DataInv, CoverRows

\* A commit, with what is known of the window and of what was fetched for it.
LEMMA CommitHistory ==
  ASSUME CoverSetting, CoverInv, NEW w \in Worker, Commit(w), Plan(w).kind = "history"
  PROVE  /\ fetched' = fetched /\ today' = today /\ update' = None /\ update = None
         /\ Plan(w).start \in Int /\ Plan(w).end \in Int /\ Plan(w).target \in Int
         /\ Plan(w).t0 \in Int
         /\ Plan(w).start = history.next /\ Plan(w).start <= Plan(w).target
         /\ Plan(w).end = Least(Plan(w).start + WindowDays - 1, Plan(w).target)
         /\ history'.next = Plan(w).end + 1
         /\ history'.frozen = Plan(w).target /\ history'.t0 = Plan(w).t0
         /\ Plan(w).target <= today - Lag
         /\ Incremental => Plan(w).target = Plan(w).t0 - Lag /\ ~PastEnd
         /\ FetchedSince("history", Plan(w).start, Plan(w).end + 1, exec[w].day)
  <1>. DEFINE q == Plan(w)
  <1>1. exec[w].stage = "paged" /\ UNCHANGED <<today, fetched>>
    BY DEF Commit
  <1>2. /\ Accepts(q) /\ RowInv(q)
        /\ history'.next = q.end + 1 /\ history'.frozen = q.target /\ history'.t0 = q.t0
        /\ update' = update /\ update = None /\ q.start = history.next
    BY CommitSteps DEF CoverInv, CoverSetting
  <1>3. q \in Window /\ q = jobs[exec[w].job].plan /\ jobs[exec[w].job] \in Execution
        /\ Brings(w) /\ Place(jobs[exec[w].job], OriginKind(jobs[exec[w].job]))
    BY <1>1, WorkerCover DEF CoverSetting, RowCover
  <1>4. /\ q.start \in Int /\ q.end \in Int /\ q.target \in Int /\ q.t0 \in Int
    BY <1>3, DayInt DEF Window
  <1>5. HistoryPlace(jobs[exec[w].job])
    BY <1>3 DEF Place
  <1>6. q.target <= today - Lag /\ (Incremental => q.target = q.t0 - Lag)
    BY <1>3, <1>5 DEF HistoryPlace
  <1>7. q.start <= q.target /\ q.end = Least(q.start + WindowDays - 1, q.target)
    BY <1>2 DEF Accepts
  <1>8. ASSUME Incremental PROVE ~PastEnd
    <2>1. ASSUME history.frozen # None PROVE history.next <= history.frozen
      <3>1. history.t0 # None /\ history.frozen = history.t0 - Lag
        BY <1>8, <2>1, CoverType DEF CoverInv, DataInv
      <3>2. history.next > Floor
        BY <3>1 DEF CoverInv, AcceptInv, CheckInv
      <3>3. q.t0 = history.t0
        BY <1>2, <3>2 DEF RowInv
      <3>. QED
        BY <1>2, <1>6, <1>7, <1>8, <3>1, <3>3
    <2>. QED
      BY <2>1, CoverType DEF PastEnd
  <1>9. FetchedSince("history", q.start, q.end + 1, exec[w].day)
    BY <1>1, <1>3 DEF Brings
  <1>. QED
    BY <1>1, <1>2, <1>4, <1>6, <1>7, <1>8, <1>9

LEMMA CommitUpdate ==
  ASSUME CoverSetting, CoverInv, NEW w \in Worker, Commit(w), Plan(w).kind = "update"
  PROVE  /\ fetched' = fetched /\ today' = today /\ history' = history
         /\ Plan(w).start \in Int /\ Plan(w).end \in Int /\ Floor <= Plan(w).start
         /\ Plan(w).start <= Plan(w).end
         /\ update' = Plan(w).end + 1
         /\ Plan(w).start = IF update = None THEN history.t0 ELSE update
         /\ PastEnd
         /\ FetchedSince("update", Plan(w).start, Plan(w).end + 1, exec[w].day)
  <1>. DEFINE q == Plan(w)
  <1>1. exec[w].stage = "paged" /\ UNCHANGED <<today, fetched>>
    BY DEF Commit
  <1>2. /\ Serves(q) /\ history' = history /\ update' = q.end + 1 /\ update \in {None, q.start}
        /\ q.start <= q.end /\ q.end \in Int /\ q.start \in Int /\ Floor <= q.start
    BY CommitSteps DEF CoverInv, CoverSetting
  <1>3. q = jobs[exec[w].job].plan /\ Brings(w)
        /\ Place(jobs[exec[w].job], OriginKind(jobs[exec[w].job]))
    BY <1>1, WorkerCover DEF CoverSetting, RowCover
  <1>4. UpdatePlace(jobs[exec[w].job], OriginKind(jobs[exec[w].job]))
    BY <1>3 DEF Place
  <1>5. PastEnd /\ (update = None => q.start = history.t0)
    BY <1>3, <1>4 DEF UpdatePlace
  <1>6. FetchedSince("update", q.start, q.end + 1, exec[w].day)
    BY <1>1, <1>3 DEF Brings
  <1>. QED
    BY <1>1, <1>2, <1>5, <1>6

LEMMA BringsNext ==
  ASSUME CoverSetting, CoverInv, [Next]_vars, NEW v \in Worker
  PROVE  Brings(v)'
  <1>. SUFFICES ASSUME exec'[v].stage # "idle"
                PROVE  /\ exec'[v].day <= today'
                       /\ \A k \in Kind : \A d \in Day : fetched'[k][d] <= exec'[v].day
                       /\ exec'[v].stage # "paging" =>
                            \A d \in Day : Plan(v)'.start <= d /\ d < Plan(v)'.end + 1 =>
                              fetched'[Plan(v)'.kind][d] >= exec'[v].day
    BY DEF Brings, FetchedSince
  <1>1. Grows /\ OwnInv /\ TypeInv
    BY CoverGrows, CoverType
  <1>2. ASSUME NEW j \in DOMAIN jobs, Start(v, j)
        PROVE  /\ exec'[v].day <= today' /\ exec'[v].stage = "paging"
               /\ \A k \in Kind : \A d \in Day : fetched'[k][d] <= exec'[v].day
    <2>1. exec'[v] = [stage |-> "paging", job |-> j, day |-> today]
      BY <1>1, <1>2 DEF Start, TypeInv, TypeOK
    <2>2. today' = today /\ fetched' = fetched /\ today \in Int
      BY <1>2, CoverType, DayInt DEF Start
    <2>. QED
      BY <2>1, <2>2 DEF CoverInv, DataInv, FetchedInv
  <1>3. ASSUME GoesOn(v)
        PROVE  /\ exec'[v].day <= today'
               /\ \A k \in Kind : \A d \in Day : fetched'[k][d] <= exec'[v].day
               /\ exec'[v].stage # "paging" =>
                    \A d \in Day : Plan(v)'.start <= d /\ d < Plan(v)'.end + 1 =>
                      fetched'[Plan(v)'.kind][d] >= exec'[v].day
    <2>1. /\ exec[v].stage # "idle" /\ exec'[v].day = exec[v].day /\ exec[v].day \in Day
          /\ Plan(v)' = Plan(v) /\ Plan(v) \in Window /\ Brings(v) /\ exec[v].day \in Int
      BY <1>3, WorkerCover, DayInt DEF GoesOn, Plan, CoverSetting
    <2>2. exec'[v].day <= today'
      BY <1>1, <2>1, DayInt DEF Brings, Grows
    <2>3. ASSUME NEW w \in Worker, Fetch(w)
          PROVE  w = v
      BY <2>1, <2>3, OnlyWorker DEF Fetch, CoverSetting
    <2>4. Plan(v).kind \in Kind /\ Plan(v).start \in Int /\ Plan(v).end \in Int
      BY <2>1, DayInt DEF Window
    <2>5. \A k \in Kind : \A d \in Day : fetched[k][d] <= exec[v].day
      BY <2>1 DEF Brings
    <2>6. CASE Fetch(v)
      <3>1. \A k \in Kind : \A d \in Day :
              fetched'[k][d] = IF k = Plan(v).kind /\ d \in Span(Plan(v)) THEN exec[v].day
                               ELSE fetched[k][d]
        BY <2>6, FetchGives
      <3>2. \A k \in Kind : \A d \in Day : fetched'[k][d] <= exec[v].day
        BY <2>1, <2>5, <3>1
      <3>3. \A d \in Day : Plan(v).start <= d /\ d < Plan(v).end + 1 => d \in Span(Plan(v))
        BY <2>4, DayInt DEF Span
      <3>4. \A d \in Day : Plan(v).start <= d /\ d < Plan(v).end + 1 =>
              fetched'[Plan(v).kind][d] >= exec[v].day
        BY <2>1, <2>4, <3>1, <3>3
      <3>. QED
        BY <2>1, <2>2, <3>2, <3>4
    <2>7. CASE ~Fetch(v)
      <3>1. fetched' = fetched
        BY <2>3, <2>7, DataSteps
      <3>2. exec'[v].stage # "paging" => exec[v].stage # "paging"
        BY <1>3, <2>7 DEF GoesOn, Commit
      <3>3. exec[v].stage # "paging" =>
              \A d \in Day : Plan(v).start <= d /\ d < Plan(v).end + 1 =>
                fetched[Plan(v).kind][d] >= exec[v].day
        BY <2>1 DEF Brings, FetchedSince
      <3>. QED
        BY <2>1, <2>2, <2>5, <3>1, <3>2, <3>3
    <2>. QED
      BY <2>6, <2>7
  <1>4. GoesOn(v) \/ \E j \in DOMAIN jobs : Start(v, j)
    BY <1>1, WorkerSteps
  <1>. QED
    BY <1>2, <1>3, <1>4

LEMMA DataInvNext ==
  ASSUME CoverSetting, CoverInv, [Next]_vars
  PROVE  DataInv'
  <1>1. Grows
    BY CoverGrows
  <1>2. \A w \in Worker : Brings(w)'
    BY BringsNext
  <1>3. FetchedInv'
    <2>. SUFFICES ASSUME NEW k \in Kind, NEW d \in Day PROVE fetched'[k][d] <= today'
      BY DEF FetchedInv
    <2>1. fetched[k][d] <= today
      BY DEF CoverInv, DataInv, FetchedInv
    <2>2. ASSUME NEW w \in Worker, Fetch(w) PROVE fetched'[k][d] <= today
      <3>1. exec[w].day <= today
        BY <2>2, FetchGives DEF CoverInv, DataInv, Brings
      <3>. QED
        BY <2>1, <2>2, <3>1, FetchGives
    <2>3. fetched'[k][d] <= today
      BY <2>1, <2>2, DataSteps
    <2>. QED
      BY <1>1, <2>3, DayInt DEF Grows
  <1>4. /\ history'.frozen # None => history'.frozen <= today' - Lag
        /\ Incremental /\ history'.t0 # None => history'.frozen = history'.t0 - Lag
    <2>1. /\ history.frozen # None => history.frozen <= today - Lag
          /\ Incremental /\ history.t0 # None => history.frozen = history.t0 - Lag
      BY DEF CoverInv, DataInv
    <2>2. CASE history' = history
      BY <1>1, <2>1, <2>2, CoverType, DayInt DEF Grows
    <2>3. ASSUME NEW w \in Worker, Commit(w), history' # history
          PROVE  /\ history'.frozen # None => history'.frozen <= today' - Lag
                 /\ Incremental /\ history'.t0 # None => history'.frozen = history'.t0 - Lag
      <3>1. Plan(w).kind = "history"
        BY <2>3 DEF Commit
      <3>. QED
        BY <2>3, <3>1, CommitHistory
    <2>. QED
      BY <2>2, <2>3, DataSteps
  <1>5. update' # None => update' >= history'.t0
    <2>1. /\ update # None => update >= history.t0
          /\ history.t0 \in Int /\ update \in Int
      BY CoverType DEF CoverInv, DataInv
    <2>2. CASE UNCHANGED <<history, update>>
      BY <2>1, <2>2
    <2>3. ASSUME NEW w \in Worker, Commit(w), Plan(w).kind = "update"
          PROVE  update' >= history'.t0
      BY <2>1, <2>3, CommitUpdate
    <2>4. ASSUME NEW w \in Worker, Commit(w), Plan(w).kind = "history"
          PROVE  update' = None
      BY <2>4, CommitHistory
    <2>5. ASSUME NEW w \in Worker, Commit(w), Plan(w).kind \notin {"history", "update"}
          PROVE  UNCHANGED <<history, update>>
      BY <2>5 DEF Commit
    <2>. QED
      BY <2>2, <2>3, <2>4, <2>5, DataSteps
  <1>. QED
    BY <1>2, <1>3, <1>4, <1>5 DEF DataInv

\* A row that satisfies the invariant still does after any step.
LEMMA BegunNext ==
  ASSUME CoverSetting, CoverInv, [Next]_vars, NEW r \in Execution, Begun(r)
  PROVE  Begun(r)'
  <1>1. Grows /\ OwnInv /\ TypeInv /\ r.since \in Int
    BY CoverGrows, CoverType, RowType
  <1>2. r.since <= today'
    BY <1>1, DayInt DEF Begun, Grows
  <1>3. ASSUME NEW w \in Worker, exec'[w].stage # "idle" PROVE r.since <= exec'[w].day
    <2>1. CASE GoesOn(w)
      BY <2>1 DEF GoesOn, Begun, Older
    <2>2. ASSUME NEW j \in DOMAIN jobs, Start(w, j) PROVE exec'[w].day = today
      BY <1>1, <2>2 DEF Start, TypeInv, TypeOK
    <2>. QED
      BY <1>1, <1>3, <2>1, <2>2, WorkerSteps DEF Begun
  <1>. QED
    BY <1>2, <1>3 DEF Begun, Older

LEMMA PlaceNext ==
  ASSUME CoverSetting, CoverInv, [Next]_vars, NEW r \in Execution, NEW o, Place(r, o)
  PROVE  Place(r, o)'
  <1>. DEFINE p == r.plan
  <1>1. Grows /\ today \in Int /\ today' \in Int
    BY CoverGrows, DayInt DEF Grows
  <1>2. /\ r.first \in Int /\ r.last \in Int /\ p.start \in Int /\ p.target \in Int
        /\ p.t0 \in Int /\ r.index * WindowDays \in Int /\ (r.index - 1) * WindowDays \in Int
        /\ p.start \in Day /\ r.first \in Day
    BY RowType
  <1>3. /\ history.next \in Int /\ history.frozen \in Int /\ history.t0 \in Int
        /\ update \in Int /\ None \in Int
    BY CoverType, DayInt
  <1>4. /\ r.last <= today - Lag => r.last <= today' - Lag
        /\ r.last <= today - UpdateLag => r.last <= today' - UpdateLag
        /\ p.target <= today - Lag => p.target <= today' - Lag
    BY <1>1, <1>2, DayInt DEF Grows
  <1>5. CASE UNCHANGED <<history, update>>
    <2>1. HistoryPlace(r) => HistoryPlace(r)'
      BY <1>4, <1>5 DEF HistoryPlace, PastEnd
    <2>2. UpdatePlace(r, o) => UpdatePlace(r, o)'
      BY <1>5 DEF UpdatePlace, PastEnd
    <2>. QED
      BY <1>4, <1>5, <2>1, <2>2 DEF Place
  <1>6. ASSUME NEW w \in Worker, Commit(w), Plan(w).kind = "history"
        PROVE  Place(r, o)'
    <2>. DEFINE q == Plan(w)
    <2>1. /\ today' = today /\ update' = None /\ update = None
          /\ q.start \in Int /\ q.end \in Int /\ q.target \in Int /\ q.t0 \in Int
          /\ q.start = history.next /\ q.start <= q.target
          /\ q.end = Least(q.start + WindowDays - 1, q.target)
          /\ history'.next = q.end + 1
          /\ history'.frozen = q.target /\ history'.t0 = q.t0
          /\ Incremental => ~PastEnd
      BY <1>6, CommitHistory
    <2>2. \/ q.end = q.start + WindowDays - 1
          \/ q.end = q.target
      BY <2>1 DEF Least
    <2>3. q.start <= q.end
      BY <2>1, DayInt DEF Least
    <2>4. ASSUME p.kind = "history" PROVE HistoryPlace(r)'
      <3>1. HistoryPlace(r)
        BY <2>4 DEF Place
      <3>2. p.start <= history'.next
        BY <1>2, <1>3, <2>1, <2>3, <3>1 DEF HistoryPlace
      <3>3. history'.next >= p.start + WindowDays \/ PastEnd'
        <4>1. CASE q.end = q.start + WindowDays - 1
          <5>1. p.start <= history.next
            BY <3>1 DEF HistoryPlace
          <5>. QED
            BY <1>2, <1>3, <2>1, <4>1, <5>1, DayInt
        <4>2. CASE q.end = q.target
          <5>1. q.target \in Day
            BY <1>6, WorkerCover DEF Commit, CoverSetting, Window
          <5>. QED
            BY <2>1, <4>2, <5>1, DayInt DEF PastEnd
        <4>. QED
          BY <2>2, <4>1, <4>2
      <3>4. p.start <= history'.frozen
        BY <1>2, <1>3, <2>1, <3>1 DEF HistoryPlace
      <3>. QED
        BY <1>4, <2>1, <3>1, <3>2, <3>3, <3>4 DEF HistoryPlace
    <2>5. ASSUME p.kind = "update" PROVE FALSE
      BY <2>1, <2>5 DEF Place, UpdatePlace
    <2>6. ASSUME o = "update" PROVE FALSE
      <3>1. p.kind = "update"
        BY <2>6 DEF Place
      <3>. QED
        BY <2>5, <3>1
    <2>. QED
      BY <1>4, <2>4, <2>5, <2>6 DEF Place
  <1>7. ASSUME NEW w \in Worker, Commit(w), Plan(w).kind = "update"
        PROVE  Place(r, o)'
    <2>. DEFINE q == Plan(w)
    <2>1. /\ today' = today /\ history' = history
          /\ q.start \in Int /\ q.end \in Int /\ Floor <= q.start
          /\ q.start <= q.end /\ update' = q.end + 1
          /\ q.start = IF update = None THEN history.t0 ELSE update
      BY <1>7, CommitUpdate
    <2>2. ASSUME p.kind = "update" PROVE UpdatePlace(r, o)'
      <3>1. UpdatePlace(r, o)
        BY <2>2 DEF Place
      <3>2. update' # None
        BY <2>1, DayInt
      <3>3. p.start <= update'
        BY <1>2, <1>3, <2>1, <3>1 DEF UpdatePlace
      <3>. QED
        BY <2>1, <3>1, <3>2, <3>3 DEF UpdatePlace, PastEnd
    <2>3. HistoryPlace(r) => HistoryPlace(r)'
      BY <2>1 DEF HistoryPlace, PastEnd
    <2>. QED
      BY <1>4, <2>1, <2>2, <2>3 DEF Place
  <1>8. ASSUME NEW w \in Worker, Commit(w)
        PROVE  Plan(w).kind \in {"history", "update"} \/ UNCHANGED <<history, update>>
    BY <1>8 DEF Commit
  <1>. QED
    BY <1>5, <1>6, <1>7, <1>8, DataSteps

LEMMA RangeCoverNext ==
  ASSUME CoverSetting, CoverInv, [Next]_vars, NEW r \in Execution,
         NEW o \in Kind, Begun(r), Place(r, o), RangeCover(r, o)
  PROVE  RangeCover(r, o)'
  <1>1. Grows /\ r.since \in Int /\ r.first \in Int
    BY CoverGrows, RowType
  <1>2. /\ history.next \in Int /\ history.t0 \in Int /\ update \in Int
    BY CoverType
  <1>3. ASSUME o = "custom" PROVE FetchedSince("custom", r.first, r.plan.start, r.since)'
    <2>1. FetchedSince("custom", r.first, r.plan.start, r.since)
      BY <1>3 DEF RangeCover
    <2>. QED
      BY <1>1, <2>1, SinceGrows DEF Kind
  <1>4. ASSUME NEW d \in Day, NEW k \in Kind, fetched[k][d] >= r.since
        PROVE  fetched'[k][d] >= r.since
    BY <1>1, <1>4 DEF Grows
  <1>5. ASSUME o = "history"
        PROVE  \A d \in Day : r.first <= d /\ d < history'.next => fetched'["history"][d] >= r.since
    <2>1. \A d \in Day : r.first <= d /\ d < history.next => fetched["history"][d] >= r.since
      BY <1>5 DEF RangeCover, FetchedSince
    <2>2. CASE history' = history
      BY <1>4, <2>1, <2>2 DEF Kind
    <2>3. ASSUME NEW w \in Worker, Commit(w), Plan(w).kind = "history"
          PROVE  \A d \in Day : r.first <= d /\ d < history'.next => fetched'["history"][d] >= r.since
      <3>1. /\ fetched' = fetched /\ Plan(w).start = history.next
            /\ history'.next = Plan(w).end + 1
            /\ FetchedSince("history", Plan(w).start, Plan(w).end + 1, exec[w].day)
        BY <2>3, CommitHistory
      <3>2. r.since <= exec[w].day
        BY <2>3 DEF Begun, Older, Commit
      <3>3. exec[w].day \in Int
        BY <2>3, WorkerCover, DayInt DEF Commit, CoverSetting
      <3>4. ASSUME NEW d \in Day, r.first <= d, d < history'.next
            PROVE  fetched'["history"][d] >= r.since
        <4>1. d \in Int /\ fetched["history"][d] \in Int
          BY <1>1, DayInt DEF Grows, Kind
        <4>2. CASE d < history.next
          BY <2>1, <3>1, <3>4, <4>2
        <4>3. CASE ~(d < history.next)
          <5>1. fetched["history"][d] >= exec[w].day
            BY <1>2, <3>1, <3>4, <4>1, <4>3 DEF FetchedSince
          <5>. QED
            BY <1>1, <3>1, <3>2, <3>3, <4>1, <5>1
        <4>. QED
          BY <4>2, <4>3
      <3>. QED
        BY <3>4
    <2>4. ASSUME NEW w \in Worker, Commit(w), Plan(w).kind # "history" PROVE history' = history
      BY <2>4 DEF Commit
    <2>. QED
      BY <2>2, <2>3, <2>4, DataSteps
  <1>6. ASSUME o # "custom" PROVE ChangesCover(r)'
    <2>. SUFFICES ASSUME update' # None, NEW d \in Day, r.first <= d, history'.t0 <= d, d < update'
                  PROVE  fetched'["update"][d] >= r.since
      BY DEF ChangesCover
    <2>1. ChangesCover(r)
      BY <1>6 DEF RangeCover
    <2>2. CASE UNCHANGED <<history, update>>
      BY <1>4, <2>1, <2>2 DEF ChangesCover, Kind
    <2>3. ASSUME NEW w \in Worker, Commit(w), Plan(w).kind = "update"
          PROVE  fetched'["update"][d] >= r.since
      <3>1. /\ fetched' = fetched /\ history' = history
            /\ Plan(w).start = IF update = None THEN history.t0 ELSE update
            /\ update' = Plan(w).end + 1
            /\ FetchedSince("update", Plan(w).start, Plan(w).end + 1, exec[w].day)
        BY <2>3, CommitUpdate
      <3>2. r.since <= exec[w].day
        BY <2>3 DEF Begun, Older, Commit
      <3>3. exec[w].day \in Int
        BY <2>3, WorkerCover, DayInt DEF Commit, CoverSetting
      <3>4. d \in Int /\ fetched["update"][d] \in Int
        BY <1>1, DayInt DEF Grows, Kind
      <3>5. CASE update # None /\ d < update
        BY <2>1, <3>1, <3>5 DEF ChangesCover
      <3>6. CASE ~(update # None /\ d < update)
        <4>1. Plan(w).start <= d
          BY <1>2, <3>1, <3>4, <3>6
        <4>2. fetched["update"][d] >= exec[w].day
          BY <3>1, <4>1 DEF FetchedSince
        <4>. QED
          BY <1>1, <3>1, <3>2, <3>3, <3>4, <4>2
      <3>. QED
        BY <3>5, <3>6
    <2>4. ASSUME NEW w \in Worker, Commit(w), Plan(w).kind = "history" PROVE FALSE
      BY <2>4, CommitHistory
    <2>5. ASSUME NEW w \in Worker, Commit(w), Plan(w).kind \notin {"history", "update"}
          PROVE  UNCHANGED <<history, update>>
      BY <2>5 DEF Commit
    <2>. QED
      BY <2>2, <2>3, <2>4, <2>5, DataSteps
  <1>7. o = "history" => FetchedSince("history", r.first, history.next, r.since)'
    BY <1>5 DEF FetchedSince
  <1>. QED
    BY <1>3, <1>6, <1>7 DEF RangeCover

LEMMA RowCoverNext ==
  ASSUME CoverSetting, CoverInv, [Next]_vars, NEW r \in Execution, NEW o \in Kind, RowCover(r, o)
  PROVE  RowCover(r, o)'
  BY BegunNext, PlaceNext, RangeCoverNext DEF RowCover

LEMMA PassedNext ==
  ASSUME CoverSetting, CoverInv, [Next]_vars, NEW r \in Execution, Passed(r)
  PROVE  Passed(r)'
  <1>1. Grows /\ r.since \in Int /\ r.plan.end \in Int
    BY CoverGrows, RowType
  <1>2. history'.next >= history.next /\ update' >= update
    BY AcceptAdvances DEF CoverInv, CoverSetting, Advances
  <1>3. /\ history.next \in Int /\ update \in Int /\ history'.next \in Int /\ update' \in Int
    <2>1. TypeInv' /\ TypeInv
      BY CoverType, NextTypeInv
    <2>. QED
      BY <2>1, CoverType, DayInt DEF TypeInv, TypeOK
  <1>4. r.plan.kind = "custom" => FetchedSince("custom", r.plan.start, r.plan.end + 1, r.since)'
    BY <1>1, SinceGrows DEF Passed, Kind
  <1>. QED
    BY <1>1, <1>2, <1>3, <1>4 DEF Passed

\* The rows that enter the queue satisfy the invariant.
LEMMA NextWindowPlace ==
  ASSUME CoverSetting, CoverInv, NEW p \in NextWindow
  PROVE  /\ p \in Window /\ p.start \in Int /\ p.end \in Int /\ p.target \in Int /\ p.t0 \in Int
         /\ p.start <= p.target /\ p.end = Least(p.start + WindowDays - 1, p.target)
         /\ \/ /\ p.kind = "history" /\ p.start = history.next /\ update = None
               /\ p.target <= today - Lag
               /\ p.target = today - Lag \/ (~PastEnd /\ p.target = history.frozen)
               /\ Incremental => p.target = p.t0 - Lag /\ ~PastEnd
               /\ Incremental /\ history.frozen # None => p.start <= history.frozen
            \/ /\ p.kind = "update" /\ Incremental /\ PastEnd
               /\ p.start = IF update = None THEN history.t0 ELSE update
               /\ p.target = today - UpdateLag
  <1>1. TypeInv /\ CheckInv /\ DataInv
    BY CoverType DEF CoverInv, AcceptInv
  <1>2. p \in Window
    BY <1>1, NextWindowType
  <1>3. p.start \in Int /\ p.end \in Int /\ p.target \in Int /\ p.t0 \in Int
    BY <1>2, DayInt DEF Window
  <1>4. RowInv(p) /\ Accepts(p) /\ Serves(p)
    BY <1>1, NextWindowRow
  <1>5. p.kind # "custom" /\ p.start <= p.target /\ p.end = Least(p.start + WindowDays - 1, p.target)
    BY <1>4, NextWindowKinds DEF Accepts
  <1>6. /\ history.next \in Int /\ history.frozen \in Int /\ history.t0 \in Int /\ today \in Int
        /\ None \in Int
    BY CoverType, DayInt
  <1>7. CASE p = HistoryPlan
    <2>1. p.kind = "history" /\ p.start = history.next /\ update = None
      BY <1>4, <1>7, HistoryPlanFields DEF Serves
    <2>2. p.target = today - Lag \/ (~PastEnd /\ p.target = history.frozen)
      <3>1. CASE history.frozen = None \/ (~Incremental /\ history.next > history.frozen)
        BY <1>7, <3>1, HistoryPlanFields
      <3>2. CASE ~(history.frozen = None \/ (~Incremental /\ history.next > history.frozen))
        <4>1. p.target = history.frozen
          BY <1>7, <3>2, HistoryPlanFields
        <4>2. ~(history.next > history.frozen)
          BY <1>5, <1>6, <2>1, <4>1
        <4>. QED
          BY <4>1, <4>2 DEF PastEnd
      <3>. QED
        BY <3>1, <3>2
    <2>3. p.target <= today - Lag
      <3>1. p.target = today - Lag \/ (history.frozen # None /\ p.target = history.frozen)
        BY <1>7, HistoryPlanFields
      <3>. QED
        BY <1>1, <1>6, <3>1, DayInt DEF DataInv
    <2>4. ASSUME Incremental
          PROVE  /\ p.target = p.t0 - Lag /\ ~PastEnd
                 /\ history.frozen # None => p.start <= history.frozen
      <3>1. CASE history.frozen = None
        <4>1. history.t0 = None
          BY <1>1, <3>1 DEF CheckInv
        <4>2. p.target = today - Lag /\ p.t0 = today
          BY <1>7, <3>1, <4>1, HistoryPlanFields
        <4>. QED
          BY <3>1, <4>2 DEF PastEnd
      <3>2. CASE history.frozen # None
        <4>1. history.t0 # None /\ history.frozen = history.t0 - Lag
          BY <1>1, <2>4, <3>2, CoverType DEF DataInv
        <4>2. p.target = history.frozen /\ p.t0 = history.t0
          BY <1>7, <2>4, <3>2, <4>1, HistoryPlanFields
        <4>3. ~(history.next > history.frozen)
          BY <1>5, <1>6, <2>1, <4>2
        <4>. QED
          BY <1>5, <2>1, <4>1, <4>2, <4>3 DEF PastEnd
      <3>. QED
        BY <3>1, <3>2
    <2>. QED
      BY <1>2, <1>3, <1>5, <2>1, <2>2, <2>3, <2>4
  <1>8. CASE p = UpdatePlan(HistoryPlan.total) /\ Incremental
    <2>1. /\ p.kind = "update" /\ p.target = today - UpdateLag
          /\ p.start = IF update = None THEN history.t0 ELSE update
      BY <1>8, UpdatePlanFields
    <2>2. PastEnd
      BY <1>4, <2>1 DEF Serves
    <2>. QED
      BY <1>2, <1>3, <1>5, <1>8, <2>1, <2>2
  <1>. QED
    BY <1>7, <1>8 DEF NextWindow

LEMMA AllIdle ==
  ASSUME CoverSetting, CoverInv, NoActiveJob, NEW w \in Worker
  PROVE  exec[w].stage = "idle"
  BY WorkerActive DEF CoverSetting, CoverInv, NoActiveJob

LEMMA TaskCover ==
  ASSUME CoverSetting, CoverInv, NoActiveJob, NEW r \in Execution, NEW p \in NextWindow,
         r.plan = p, r.first = p.start, r.last \in {p.target, p.end}, r.index = 1,
         r.since = today, r.last < r.first + r.windows * WindowDays
  PROVE  RowCover(r, p.kind)
  <1>1. /\ p.start \in Int /\ p.end \in Int /\ p.target \in Int /\ p.t0 \in Int
        /\ p.start <= p.target /\ p.end = Least(p.start + WindowDays - 1, p.target)
        /\ \/ /\ p.kind = "history" /\ p.start = history.next /\ update = None
              /\ p.target <= today - Lag
              /\ Incremental => p.target = p.t0 - Lag /\ ~PastEnd
              /\ Incremental /\ history.frozen # None => p.start <= history.frozen
           \/ /\ p.kind = "update" /\ Incremental /\ PastEnd
              /\ p.start = IF update = None THEN history.t0 ELSE update
              /\ p.target = today - UpdateLag
    BY NextWindowPlace
  <1>2. r.last \in Int /\ today \in Int /\ today - Lag \in Int
        /\ history.next \in Int /\ history.t0 \in Int /\ update \in Int
    BY RowType, CoverType, DayInt
  <1>3. r.first <= r.last /\ r.last <= p.target
    BY <1>1, <1>2, DayInt DEF Least
  <1>4. Begun(r)
    BY <1>2, <1>3, AllIdle DEF Begun, Older
  <1>5. (r.index - 1) * WindowDays = 0
    BY DayInt
  <1>6. update # None => update >= history.t0
    BY DEF CoverInv, DataInv
  <1>7. CASE p.kind = "history"
    <2>1. HistoryPlace(r)
      BY <1>1, <1>2, <1>3, <1>5, <1>7 DEF HistoryPlace
    <2>2. Place(r, p.kind)
      BY <1>1, <1>2, <1>3, <1>7, <2>1 DEF Place
    <2>3. FetchedSince("history", r.first, history.next, r.since)
      BY <1>1, <1>2, <1>7, DayInt DEF FetchedSince
    <2>4. ChangesCover(r)
      BY <1>1, <1>7 DEF ChangesCover
    <2>. QED
      BY <1>4, <1>7, <2>2, <2>3, <2>4 DEF RowCover, RangeCover
  <1>8. CASE p.kind = "update"
    <2>1. UpdatePlace(r, p.kind)
      BY <1>1, <1>2, <1>3, <1>5, <1>6, <1>8 DEF UpdatePlace
    <2>2. Place(r, p.kind)
      BY <1>1, <1>2, <1>3, <1>6, <1>8, <2>1 DEF Place
    <2>3. ChangesCover(r)
      BY <1>1, <1>2, <1>8, DayInt DEF ChangesCover
    <2>. QED
      BY <1>4, <1>8, <2>2, <2>3 DEF RowCover, RangeCover
  <1>. QED
    BY <1>1, <1>7, <1>8

\* The same task at another window: the fields that a retry or a following row keeps.
SameTask(r, s) ==
  /\ r.windows = s.windows /\ r.first = s.first /\ r.last = s.last /\ r.since = s.since

LEMMA SameBegun ==
  ASSUME NEW r \in Execution, NEW s \in Execution, SameTask(r, s), Begun(s), r.index > 0
  PROVE  Begun(r)
  BY DEF SameTask, Begun, Older

LEMMA SameRange ==
  ASSUME NEW r \in Execution, NEW s \in Execution, SameTask(r, s), NEW o \in Kind,
         RangeCover(s, o), o # "custom"
  PROVE  RangeCover(r, o)
  BY DEF SameTask, RangeCover, FetchedSince, ChangesCover

\* A retry that takes another window than the one that failed.
LEMMA RetryCover ==
  ASSUME CoverSetting, CoverInv, NEW s \in Execution, NEW o \in Kind, RowCover(s, o),
         s.plan.kind # "custom", NEW p \in NextWindow,
         ~(p.kind = s.plan.kind /\ p.start = s.plan.start)
  PROVE  RowCover(Retried(s, p), o)
  <1>. DEFINE r == Retried(s, p)
              q == s.plan
  <1>1. /\ p \in Window
        /\ p.start \in Int /\ p.end \in Int /\ p.target \in Int /\ p.t0 \in Int
        /\ p.start <= p.target
        /\ \/ /\ p.kind = "history" /\ p.start = history.next /\ update = None
              /\ p.target <= today - Lag
              /\ p.target = today - Lag \/ (~PastEnd /\ p.target = history.frozen)
              /\ Incremental => p.target = p.t0 - Lag /\ ~PastEnd
              /\ Incremental /\ history.frozen # None => p.start <= history.frozen
           \/ /\ p.kind = "update" /\ Incremental /\ PastEnd
              /\ p.start = IF update = None THEN history.t0 ELSE update
              /\ p.target = today - UpdateLag
    BY NextWindowPlace
  <1>2. /\ r \in Execution /\ r.plan = p /\ r.index = s.index /\ SameTask(r, s)
        /\ r.first = s.first /\ r.last = s.last
    BY <1>1, RetriedFields DEF SameTask
  <1>3. /\ today \in Int /\ history.next \in Int /\ history.t0 \in Int /\ update \in Int
        /\ history.frozen \in Int /\ Lag \in Int /\ UpdateLag \in Int
    BY CoverType, DayInt
  <1>4. /\ s.first \in Int /\ s.last \in Int /\ q.start \in Int
        /\ s.index * WindowDays \in Int /\ (s.index - 1) * WindowDays \in Int
        /\ s.index * WindowDays = (s.index - 1) * WindowDays + WindowDays
        /\ q.kind \in Kind
    BY RowType
  <1>. HIDE DEF r
  <1>5. Place(s, o) /\ o # "custom" /\ s.index > 0 /\ WindowDays \in Int /\ WindowDays > 0
    BY DayInt DEF RowCover, Place, Begun
  <1>6. q.kind = o \/ (q.kind = "update" /\ o = "history")
    BY <1>5 DEF Place
  <1>7. Begun(r) /\ RangeCover(r, o)
    BY <1>2, <1>5, SameBegun, SameRange DEF RowCover
  <1>8. update # None => update >= history.t0
    BY DEF CoverInv, DataInv
  <1>9. CASE p.kind = "history"
    <2>1. q.kind = "history" /\ o = "history"
      BY <1>1, <1>4, <1>5, <1>6, <1>9 DEF Place, UpdatePlace, Kind
    <2>2. HistoryPlace(s) /\ s.last <= today - Lag
      BY <1>5, <2>1 DEF Place
    <2>3. history.next >= q.start + WindowDays \/ PastEnd
      BY <1>1, <1>9, <2>1, <2>2 DEF HistoryPlace
    <2>4. q.start >= s.first + (s.index - 1) * WindowDays /\ q.start <= history.next
      BY <2>2 DEF HistoryPlace
    <2>5. p.start >= s.first + (s.index - 1) * WindowDays
      BY <1>1, <1>3, <1>4, <1>9, <2>4
    <2>6. ASSUME p.target < s.last PROVE p.start >= s.first + s.index * WindowDays
      <3>1. ~PastEnd
        BY <1>1, <1>3, <1>4, <1>9, <2>2, <2>6
      <3>. QED
        BY <1>1, <1>3, <1>4, <1>5, <1>9, <2>3, <2>4, <3>1
    <2>7. HistoryPlace(r)
      BY <1>1, <1>2, <1>3, <1>9, <2>5, <2>6 DEF HistoryPlace
    <2>8. Place(r, o)
      BY <1>2, <1>9, <2>1, <2>2, <2>7 DEF Place
    <2>9. RowCover(r, o)
      BY <1>7, <2>8 DEF RowCover
    <2>. QED
      BY <2>9 DEF r
  <1>10. CASE p.kind = "update"
    <2>1. p.start >= history.t0 /\ (update = None => p.start = history.t0)
          /\ (update # None => p.start <= update)
      BY <1>1, <1>3, <1>8, <1>10
    <2>2. o \in {"history", "update"}
      BY <1>5 DEF Kind
    <2>3. p.target >= s.last
      <3>1. UpdateLag <= Lag
        BY <1>1, <1>10 DEF CoverSetting
      <3>2. s.last <= today - Lag \/ s.last <= today - UpdateLag
        BY <1>5, <2>2 DEF Place
      <3>. QED
        BY <1>1, <1>3, <1>4, <1>10, <3>1, <3>2
    <2>4. (o = "history" /\ history.next > s.last)
          \/ p.start >= s.first + (s.index - 1) * WindowDays
      <3>1. CASE q.kind = "update"
        <4>1. UpdatePlace(s, o)
          BY <1>5, <3>1 DEF Place
        <4>2. p.start >= q.start
          BY <1>1, <1>3, <1>4, <1>10, <4>1 DEF UpdatePlace
        <4>. QED
          BY <1>1, <1>4, <4>1, <4>2 DEF UpdatePlace
      <3>2. CASE q.kind = "history"
        <4>1. HistoryPlace(s)
          BY <1>5, <3>2 DEF Place
        <4>2. Incremental /\ history.frozen # None /\ history.t0 # None
          BY <1>1, <1>10, CoverType DEF PastEnd
        <4>3. q.start <= history.frozen /\ history.frozen = history.t0 - Lag
          BY <4>1, <4>2 DEF HistoryPlace, CoverInv, DataInv
        <4>4. q.start >= s.first + (s.index - 1) * WindowDays
          BY <4>1 DEF HistoryPlace
        <4>. QED
          BY <1>3, <1>1, <1>4, <2>1, <4>3, <4>4, DayInt
      <3>. QED
        BY <1>4, <1>5, <1>6, <3>1, <3>2 DEF Kind
    <2>5. UpdatePlace(r, o)
      BY <1>1, <1>2, <1>10, <2>1, <2>3, <2>4 DEF UpdatePlace
    <2>6. Place(r, o)
      <3>1. /\ o = "history" => s.last <= today - Lag
            /\ o = "update" => s.first >= history.t0 /\ s.last <= today - UpdateLag
        BY <1>5 DEF Place
      <3>. QED
        BY <1>2, <1>10, <2>2, <2>5, <3>1 DEF Place
    <2>7. RowCover(r, o)
      BY <1>7, <2>6 DEF RowCover
    <2>. QED
      BY <2>7 DEF r
  <1>. QED
    BY <1>1, <1>9, <1>10

\* The row that carries a task on.
LEMMA SuccessorCover ==
  ASSUME CoverSetting, CoverInv, NEW w \in Worker, exec[w].stage = "committed",
         NEW p \in Window, p \in Chained(Plan(w))
  PROVE  RowCover(Successor(jobs[exec[w].job], p), OriginKind(jobs[exec[w].job]))
  <1>. DEFINE s == jobs[exec[w].job]
              q == Plan(w)
              r == Successor(s, p)
              o == OriginKind(s)
  <1>1. /\ s \in Execution /\ q = s.plan /\ q \in Window /\ RowCover(s, o)
        /\ RowInv(q) /\ Serves(q) /\ Left(q) /\ Brings(w) /\ exec[w].day \in Int
    BY WorkerCover, DayInt DEF CoverSetting, CoverInv, AcceptInv, WorkInv
  <1>2. /\ r \in Execution /\ r.plan = p /\ r.index = s.index + 1 /\ SameTask(r, s)
        /\ r.first = s.first /\ r.last = s.last /\ r.since = s.since
    BY <1>1, SuccessorFields DEF SameTask
  <1>3. /\ s.first \in Int /\ s.last \in Int /\ s.since \in Int /\ q.start \in Int /\ q.end \in Int
        /\ q.target \in Int /\ q.t0 \in Int /\ q.t0 \in Day /\ q.kind \in Kind
        /\ s.index \in Nat /\ s.index * WindowDays \in Int /\ (s.index - 1) * WindowDays \in Int
        /\ s.index * WindowDays = (s.index - 1) * WindowDays + WindowDays
        /\ (s.index + 1) * WindowDays = s.index * WindowDays + WindowDays
        /\ q.target \in Day
    BY <1>1, RowType
  <1>4. p.start \in Int /\ p.end \in Int /\ p.target \in Int
    BY DayInt DEF Window
  <1>5. /\ today \in Int /\ history.next \in Int /\ history.t0 \in Int /\ update \in Int
        /\ history.frozen \in Int /\ Lag \in Nat /\ UpdateLag \in Nat
        /\ WindowDays \in Int /\ WindowDays > 0
    BY CoverType, DayInt
  <1>6. Begun(s) /\ Place(s, o) /\ RangeCover(s, o)
    BY <1>1 DEF RowCover
  <1>7. s.since <= exec[w].day
    BY <1>6 DEF Begun, Older
  <1>8. (r.index - 1) * WindowDays = s.index * WindowDays
        /\ r.index * WindowDays = s.index * WindowDays + WindowDays
    BY <1>2, <1>3
  <1>9. p \in Chained(q)
    OBVIOUS
  <1>. HIDE DEF r, s, q, o
  <1>10. Begun(r)
    BY <1>1, <1>2, <1>3, <1>6, SameBegun
  <1>11. ASSUME q.kind = "history", Incremental, q.completed + 1 >= q.total,
                p.kind = "update", p.start = q.t0, p.target = today - UpdateLag,
                ~(p.start > p.target)
         PROVE  RowCover(r, o)
    <2>1. o = "history" /\ HistoryPlace(s) /\ s.last <= today - Lag
      BY <1>1, <1>6, <1>11 DEF Place
    <2>2. /\ q.start = Floor + q.completed * WindowDays
          /\ q.completed + 1 >= Ceiling(q.target - Floor + 1, WindowDays)
          /\ q.end = Least(q.start + WindowDays - 1, q.target) /\ q.start <= q.target
      BY <1>1, <1>11 DEF RowInv, InWalk, WellPlanned
    <2>3. q.completed \in Nat
      BY <1>1 DEF Window
    <2>4. q.target <= q.start + WindowDays - 1
      BY <1>3, <2>2, <2>3, WalkEnd
    <2>5. q.end = q.target
      BY <1>3, <1>5, <2>2, <2>4 DEF Least
    <2>6. /\ history.next = q.target + 1 /\ history.frozen = q.target /\ history.t0 = q.t0
          /\ update = None
      BY <1>1, <1>11, <2>5 DEF Left, Serves
    <2>7. PastEnd
      BY <1>3, <2>6, DayInt DEF PastEnd
    <2>8. q.t0 >= q.target
      <3>1. q.target = q.t0 - Lag
        BY <1>1, <1>11, <2>1 DEF HistoryPlace
      <3>. QED
        BY <1>3, <1>5, <3>1
    <2>9. history.next > s.last \/ p.start >= s.first + s.index * WindowDays
      <3>1. q.target < s.last => q.start >= s.first + s.index * WindowDays
        BY <1>1, <2>1 DEF HistoryPlace
      <3>. QED
        BY <1>3, <1>11, <2>2, <2>6, <2>8, <3>1
    <2>10. p.target >= s.last
      BY <1>3, <1>5, <1>11, <2>1 DEF CoverSetting
    <2>11. UpdatePlace(r, o)
      BY <1>2, <1>3, <1>8, <1>11, <2>1, <2>6, <2>7, <2>9, <2>10 DEF UpdatePlace
    <2>12. Place(r, o)
      BY <1>2, <1>11, <2>1, <2>11 DEF Place
    <2>13. RangeCover(r, o)
      BY <1>2, <1>1, <1>6, <2>1, SameRange DEF Kind
    <2>. QED
      BY <1>10, <2>12, <2>13 DEF RowCover
  <1>12. ASSUME p.kind = q.kind, p.start = q.end + 1, p.target = q.target,
                p.t0 = q.t0, ~(p.start > p.target)
         PROVE  RowCover(r, o)
    <2>1. ASSUME q.kind # "custom"
          PROVE  p.start = q.start + WindowDays /\ o # "custom" /\ RangeCover(r, o)
      <3>1. q.end = Least(q.start + WindowDays - 1, q.target)
        BY <1>1, <2>1 DEF RowInv, WellPlanned
      <3>2. p.start = q.start + WindowDays
        BY <1>3, <1>5, <1>12, <3>1 DEF Least
      <3>3. o \in {"history", "update"}
        BY <1>1, <1>3, <1>6, <2>1 DEF Place, Kind
      <3>4. RangeCover(r, o)
        BY <1>1, <1>2, <1>6, <3>3, SameRange DEF Kind
      <3>. QED
        BY <3>2, <3>3, <3>4
    <2>2. CASE q.kind = "history"
      <3>1. o = "history" /\ HistoryPlace(s) /\ s.last <= today - Lag
        BY <1>1, <1>6, <2>2 DEF Place
      <3>2. history.next = p.start /\ history.frozen = p.target
        BY <1>1, <1>12, <2>2 DEF Left
      <3>3. p.start = q.start + WindowDays
        BY <2>1, <2>2
      <3>4. /\ q.target <= today - Lag /\ (Incremental => q.target = q.t0 - Lag)
            /\ q.start >= s.first + (s.index - 1) * WindowDays
            /\ q.target < s.last => q.start >= s.first + s.index * WindowDays
        BY <1>1, <3>1 DEF HistoryPlace
      <3>5. p.start <= p.target
        BY <1>4, <1>12
      <3>6. /\ p.start >= s.first + s.index * WindowDays
            /\ p.target < s.last => p.start >= s.first + s.index * WindowDays + WindowDays
        BY <1>3, <1>5, <1>12, <3>3, <3>4
      <3>7. HistoryPlace(r)
        BY <1>2, <1>3, <1>4, <1>5, <1>8, <1>12, <3>2, <3>4, <3>5, <3>6 DEF HistoryPlace
      <3>8. Place(r, o)
        BY <1>2, <1>12, <2>2, <3>1, <3>7 DEF Place
      <3>. QED
        BY <1>10, <2>1, <2>2, <3>8 DEF RowCover
    <2>3. CASE q.kind = "update"
      <3>1. UpdatePlace(s, o)
        BY <1>1, <1>6, <2>3 DEF Place
      <3>2. update = p.start
        BY <1>1, <1>12, <2>3 DEF Left
      <3>3. p.start = q.start + WindowDays
        BY <2>1, <2>3
      <3>4. /\ Incremental /\ PastEnd /\ q.start >= history.t0 /\ q.target >= s.last
            /\ \/ o = "history" /\ history.next > s.last
               \/ q.start >= s.first + (s.index - 1) * WindowDays
        BY <1>1, <3>1 DEF UpdatePlace
      <3>5. p.start >= history.t0 /\ update # None
        <4>1. p.start \in Day
          BY DEF Window
        <4>. QED
          BY <1>3, <1>5, <3>2, <3>3, <3>4, <4>1, DayInt
      <3>6. (o = "history" /\ history.next > s.last) \/ p.start >= s.first + s.index * WindowDays
        BY <1>3, <1>5, <3>3, <3>4
      <3>7. UpdatePlace(r, o)
        BY <1>2, <1>4, <1>8, <1>12, <3>2, <3>4, <3>5, <3>6 DEF UpdatePlace
      <3>8. Place(r, o)
        BY <1>1, <1>2, <1>6, <1>12, <2>3, <3>7 DEF Place
      <3>. QED
        BY <1>10, <2>1, <2>3, <3>8 DEF RowCover
    <2>4. CASE q.kind = "custom"
      <3>1. o = "custom"
        BY <1>1, <1>6, <2>4 DEF Place
      <3>2. FetchedSince("custom", s.first, q.start, s.since)
        BY <1>1, <1>6, <3>1 DEF RangeCover
      <3>3. FetchedSince("custom", q.start, q.end + 1, exec[w].day)
        BY <1>1, <2>4 DEF Brings, q
      <3>4. ASSUME NEW d \in Day, s.first <= d, d < p.start PROVE fetched["custom"][d] >= s.since
        <4>1. d \in Int /\ fetched["custom"][d] \in Int
          BY CoverType, FetchedType, DayInt DEF Kind
        <4>2. CASE d < q.start
          BY <3>2, <3>4, <4>2 DEF FetchedSince
        <4>3. CASE ~(d < q.start)
          <5>1. fetched["custom"][d] >= exec[w].day
            BY <1>3, <1>12, <3>3, <3>4, <4>1, <4>3 DEF FetchedSince
          <5>. QED
            BY <1>1, <1>3, <1>7, <4>1, <5>1
        <4>. QED
          BY <4>2, <4>3
      <3>5. RangeCover(r, o)
        BY <1>2, <3>1, <3>4 DEF RangeCover, FetchedSince
      <3>6. Place(r, o)
        BY <1>2, <1>12, <2>4, <3>1 DEF Place
      <3>. QED
        BY <1>10, <3>5, <3>6 DEF RowCover
    <2>. QED
      BY <1>3, <2>2, <2>3, <2>4 DEF Kind
  <1>13. RowCover(r, o)
    BY <1>1, <1>9, <1>11, <1>12, ChainedFields
  <1>. QED
    BY <1>13 DEF r, o, s

\* The rows after a step: those that were there, and at most one at the end.
RowArrival(j, r) ==
  \/ j \in DOMAIN jobs /\ SameWindow(r, jobs[j])
  \/ /\ j = Len(jobs) + 1
     /\ \/ Entrant(r)
        \/ \E w \in Worker, p \in Window :
             /\ exec[w].stage = "committed" /\ p \in Chained(Plan(w))
             /\ r = Successor(jobs[exec[w].job], p)

SuccessArrival(j) ==
  /\ j \in DOMAIN jobs
  /\ \/ jobs[j].status = "success"
     \/ \E w \in Worker : exec[w].stage = "committed" /\ exec[w].job = j

LEMMA RowArrivals ==
  ASSUME TypeInv, [Next]_vars
  PROVE  \A j \in DOMAIN jobs' :
           RowArrival(j, jobs'[j]) /\ (jobs'[j].status = "success" => SuccessArrival(j))
  <1>. DEFINE Goal == \A j \in DOMAIN jobs' :
                RowArrival(j, jobs'[j]) /\ (jobs'[j].status = "success" => SuccessArrival(j))
  <1>1. ASSUME \A k \in DOMAIN jobs : SameWindow(jobs'[k], jobs[k])
        PROVE  \A k \in DOMAIN jobs : RowArrival(k, jobs'[k])
    BY <1>1 DEF RowArrival
  <1>2. SameRows => Goal
    BY <1>1 DEF SameRows, SuccessArrival
  <1>3. ASSUME NEW j, NEW status, StatusOf(j, status), status # "success" PROVE Goal
    BY <1>1, <1>3 DEF StatusOf, SuccessArrival
  <1>4. ASSUME NEW job \in Execution, Added(job), Entrant(job) PROVE Goal
    <2>1. job.status = "queued"
      BY <1>4, NewTaskFields, JobType, RetriedFields
         DEF Entrant, ByManual, ByScheduler, ByRange, ByRetry, ByResumption
    <2>2. RowArrival(Len(jobs) + 1, job)
      BY <1>4 DEF RowArrival
    <2>. HIDE DEF Entrant
    <2>3. \A k \in DOMAIN jobs : RowArrival(k, jobs'[k])
      BY <1>1, <1>4 DEF Added, SameWindow
    <2>. QED
      BY <1>4, <2>1, <2>2, <2>3 DEF Added, SuccessArrival
  <1>5. ASSUME NEW w \in Worker, NEW how, Finish(w, how),
               StatusOf(exec[w].job, EndStatus(how))
        PROVE  Goal
    <2>1. exec[w].stage = "committed"
      BY <1>5 DEF Finish
    <2>. QED
      BY <1>1, <1>5, <2>1 DEF StatusOf, SuccessArrival
  <1>6. ASSUME NEW w \in Worker, NEW how, Finish(w, how), NEW p \in Chained(Plan(w)), p \in Window,
               Followed(exec[w].job, EndStatus(how), Successor(jobs[exec[w].job], p))
        PROVE  Goal
    <2>1. exec[w].stage = "committed" /\ jobs[exec[w].job] \in Execution
      BY <1>6, WorkingType, JobType DEF Finish
    <2>2. Successor(jobs[exec[w].job], p).status = "queued"
      BY <1>6, <2>1, SuccessorFields
    <2>3. RowArrival(Len(jobs) + 1, jobs'[Len(jobs) + 1])
      BY <1>6, <2>1 DEF RowArrival, Followed
    <2>4. \A k \in DOMAIN jobs : RowArrival(k, jobs'[k])
      BY <1>1, <1>6 DEF Followed
    <2>5. \A k \in DOMAIN jobs : jobs'[k].status = "success" => SuccessArrival(k)
      BY <1>6, <2>1 DEF Followed, SuccessArrival
    <2>. QED
      BY <1>6, <2>2, <2>3, <2>4, <2>5 DEF Followed
  <1>7. jobs' = jobs => SameRows
    BY DEF SameRows, SameWindow
  <1>8. ASSUME NEW j \in DOMAIN jobs, Lose(j) PROVE StatusOf(j, "failed")
    BY <1>8, StatusWrites DEF Lose
  <1>. HIDE DEF Goal
  <1>9. ASSUME Entry PROVE Goal
    BY <1>2, <1>3, <1>4, <1>9, EntryRows
  <1>10. ASSUME NEW w \in Worker, Work(w) PROVE Goal
    BY <1>2, <1>3, <1>5, <1>6, <1>10, WorkRows
  <1>11. (Midnight \/ UNCHANGED vars) => jobs' = jobs
    BY DEF Midnight, vars
  <1>12. Goal
    BY <1>2, <1>3, <1>7, <1>8, <1>9, <1>10, <1>11 DEF Next
  <1>. QED
    BY <1>12 DEF Goal

\* A task over a custom range.
LEMMA RangeTaskCover ==
  ASSUME CoverSetting, CoverInv, NoActiveJob, NEW r \in Execution, ByRange(r)
  PROVE  r.plan.kind = "custom" /\ r.task = Len(jobs) + 1 /\ RowCover(r, "custom")
  <1>1. PICK first \in Day, last \in Day :
          /\ first <= last
          /\ r = NewTask(CustomPlan(first, last), CustomPlan(first, last).total, first, last, "all")
    BY DEF ByRange
  <1>2. /\ r.plan = CustomPlan(first, last) /\ r.first = first /\ r.last = last
        /\ r.windows = CustomPlan(first, last).total /\ r.index = 1
        /\ r.since = today /\ r.task = Len(jobs) + 1
    BY <1>1, NewTaskFields
  <1>3. /\ r.plan.kind = "custom" /\ r.plan.start = first
        /\ r.windows = Len(ClosedWindows(first, last))
    BY <1>2 DEF CustomPlan
  <1>4. r.last < r.first + r.windows * WindowDays
    <2>1. last - first \in Nat /\ first \in Int /\ last \in Int
      BY <1>1, DayInt
    <2>2. r.windows = Ceiling((last - first) + 1, WindowDays)
      BY <1>1, <1>3, ClosedWindowsLength
    <2>3. last - first < r.windows * WindowDays /\ r.windows * WindowDays \in Int
      BY <2>1, <2>2, CeilingBounds, RowType
    <2>. QED
      BY <1>2, <2>1, <2>3
  <1>5. Begun(r)
    BY <1>1, <1>2, <1>4, AllIdle, CoverType, DayInt DEF Begun, Older
  <1>6. FetchedSince("custom", r.first, r.plan.start, r.since)
    BY <1>2, <1>3, DayInt DEF FetchedSince
  <1>7. RowCover(r, "custom")
    BY <1>3, <1>5, <1>6 DEF RowCover, Place, RangeCover
  <1>. QED
    BY <1>2, <1>3, <1>7

LEMMA EntrantCover ==
  ASSUME CoverSetting, CoverInv, NEW r \in Execution, Entrant(r)
  PROVE  \/ r.task = Len(jobs) + 1 /\ RowCover(r, r.plan.kind)
         \/ r.task \in DOMAIN jobs /\ RowCover(r, OriginKind(r))
  <1>1. ASSUME NoActiveJob, NEW p \in NextWindow, NEW windows, NEW last, NEW shops,
               r = NewTask(p, windows, p.start, last, shops), last \in {p.target, p.end},
               last < p.start + windows * WindowDays
        PROVE  r.task = Len(jobs) + 1 /\ RowCover(r, r.plan.kind)
    <2>1. /\ r.plan = p /\ r.first = p.start /\ r.last = last /\ r.windows = windows
          /\ r.index = 1 /\ r.since = today /\ r.task = Len(jobs) + 1
      BY <1>1, NewTaskFields
    <2>. QED
      BY <1>1, <2>1, TaskCover
  <1>2. ASSUME NEW p \in NextWindow
        PROVE  /\ p.target < p.start + Len(ClosedWindows(p.start, p.target)) * WindowDays
               /\ p.end < p.start + 1 * WindowDays
    <2>1. /\ p \in Window /\ p.start <= p.target /\ p.start \in Int /\ p.target \in Int
          /\ p.end = Least(p.start + WindowDays - 1, p.target)
      BY <1>2, NextWindowPlace
    <2>2. p.start \in Day /\ p.target \in Day /\ p.target - p.start \in Nat
      BY <2>1 DEF Window
    <2>. DEFINE c == Ceiling((p.target - p.start) + 1, WindowDays)
    <2>3. Len(ClosedWindows(p.start, p.target)) = c
      BY <2>1, <2>2, ClosedWindowsLength
    <2>4. c \in Nat /\ p.target - p.start < c * WindowDays
      BY <2>2, CeilingBounds
    <2>. HIDE DEF c
    <2>5. c * WindowDays \in Int
      BY <2>4, DayInt
    <2>6. p.target < p.start + c * WindowDays
      BY <2>1, <2>4, <2>5
    <2>. QED
      BY <2>1, <2>3, <2>6, DayInt DEF Least
  <1>3. CASE NoActiveJob /\ ByManual(r)
    <2>1. PICK p \in NextWindow, shops \in {"all", "some"} :
            r = NewTask(p, Len(ClosedWindows(p.start, p.target)), p.start, p.target, shops)
      BY <1>3 DEF ByManual
    <2>. QED
      BY <1>1, <1>2, <1>3, <2>1
  <1>4. CASE NoActiveJob /\ ByScheduler(r)
    <2>1. PICK p \in NextWindow : r = NewTask(p, 1, p.start, p.end, "all")
      BY <1>4 DEF ByScheduler
    <2>. QED
      BY <1>1, <1>2, <1>4, <2>1
  <1>5. CASE NoActiveJob /\ ByRange(r)
    BY <1>5, RangeTaskCover
  <1>6. ASSUME NEW j \in DOMAIN jobs, NEW p \in Window, r = Retried(jobs[j], p),
               p \in RetryPlan(j) \/ p = jobs[j].plan
        PROVE  r.task \in DOMAIN jobs /\ RowCover(r, OriginKind(r))
    <2>. DEFINE s == jobs[j]
    <2>1. /\ s \in Execution /\ s.task \in DOMAIN jobs /\ RowCover(s, OriginKind(s))
      BY CoverType, JobType DEF CoverInv, CoverRows
    <2>2. /\ r.plan = p /\ r.index = s.index /\ r.task = s.task /\ SameTask(r, s)
          /\ r.first = s.first /\ r.last = s.last
      BY <1>6, <2>1, RetriedFields DEF SameTask
    <2>3. OriginKind(r) = OriginKind(s) /\ OriginKind(s) \in Kind
      BY <2>1, <2>2, CoverType, JobType, RowType DEF OriginKind
    <2>. HIDE DEF s
    <2>4. CASE p = s.plan
      <3>1. RowCover(r, OriginKind(s))
        BY <2>1, <2>2, <2>4 DEF RowCover, Begun, Older, Place, RangeCover, HistoryPlace, UpdatePlace,
           ChangesCover, FetchedSince, SameTask
      <3>. QED
        BY <2>1, <2>2, <2>3, <3>1
    <2>5. CASE p # s.plan
      <3>1. /\ p \in NextWindow /\ s.plan.kind # "custom"
            /\ ~(p.kind = s.plan.kind /\ p.start = s.plan.start)
        BY <1>6, <2>5 DEF RetryPlan, s
      <3>2. RowCover(r, OriginKind(s))
        BY <1>6, <2>1, <2>3, <3>1, RetryCover DEF s
      <3>. QED
        BY <2>1, <2>2, <2>3, <3>2
    <2>. QED
      BY <2>4, <2>5
  <1>7. CASE ByRetry(r)
    BY <1>6, <1>7 DEF ByRetry
  <1>8. CASE ByResumption(r)
    <2>1. \A j \in DOMAIN jobs : jobs[j].plan \in Window
      BY CoverType, JobType
    <2>. QED
      BY <1>6, <1>8, <2>1 DEF ByResumption
  <1>. QED
    BY <1>3, <1>4, <1>5, <1>7, <1>8 DEF Entrant

LEMMA CoverRowsNext ==
  ASSUME CoverSetting, CoverInv, [Next]_vars
  PROVE  CoverRows'
  <1>1. TypeInv /\ TypeInv'
    BY CoverType, NextTypeInv
  <1>2. \A k \in DOMAIN jobs : k \in DOMAIN jobs' /\ SameWindow(jobs'[k], jobs[k])
    BY <1>1, PlanOrigins
  <1>3. ASSUME NEW r \in Execution, r.task \in DOMAIN jobs
        PROVE  OriginKind(r)' = OriginKind(r) /\ r.task \in DOMAIN jobs' /\ OriginKind(r) \in Kind
    BY <1>1, <1>2, <1>3, JobType, RowType DEF OriginKind, SameWindow
  <1>4. ASSUME NEW r \in Execution, r.task \in DOMAIN jobs, RowCover(r, OriginKind(r))
        PROVE  RowCover(r, OriginKind(r))' /\ r.task \in DOMAIN jobs'
    <2>. DEFINE o == OriginKind(r)
    <2>1. o' = o /\ o \in Kind /\ r.task \in DOMAIN jobs'
      BY <1>3, <1>4
    <2>2. RowCover(r, o)
      BY <1>4
    <2>3. ASSUME NEW k \in Kind, RowCover(r, k) PROVE RowCover(r, k)'
      BY <1>4, <2>3, RowCoverNext
    <2>4. ASSUME NEW k \in Kind, o = k PROVE RowCover(r, o)'
      <3>1. o' = k /\ RowCover(r, k)
        BY <2>1, <2>2, <2>4
      <3>2. RowCover(r, k)'
        BY <2>3, <3>1
      <3>. HIDE DEF o
      <3>. QED
        BY <3>1, <3>2 DEF RowCover, Begun, Older, Place, RangeCover, HistoryPlace, UpdatePlace,
           ChangesCover, FetchedSince
    <2>. QED
      BY <2>1, <2>4
  <1>. SUFFICES ASSUME NEW r \in Execution, NEW j \in DOMAIN jobs', r = jobs'[j]
                PROVE  /\ r.task \in DOMAIN jobs'
                       /\ RowCover(r, OriginKind(r))'
                       /\ r.status = "success" => Passed(r)'
    BY DEF CoverRows
  <1>5. RowArrival(j, r) /\ (r.status = "success" => SuccessArrival(j))
    BY <1>1, RowArrivals
  <1>7. ASSUME NEW k \in DOMAIN jobs, SameWindow(r, jobs[k])
        PROVE  r.task \in DOMAIN jobs /\ RowCover(r, OriginKind(r))
    <2>1. jobs[k] \in Execution
      BY <1>1, JobType
    <2>2. jobs[k].task \in DOMAIN jobs /\ RowCover(jobs[k], OriginKind(jobs[k]))
      BY <2>1 DEF CoverInv, CoverRows
    <2>. QED
      BY <1>7, <2>2 DEF OriginKind, SameWindow, RowCover, Begun, Older, Place, RangeCover,
         HistoryPlace, UpdatePlace, ChangesCover, FetchedSince
  <1>8. ASSUME NEW w \in Worker, NEW p \in Window, exec[w].stage = "committed",
               p \in Chained(Plan(w)), r = Successor(jobs[exec[w].job], p)
        PROVE  r.task \in DOMAIN jobs /\ RowCover(r, OriginKind(r))
    <2>1. exec[w].job \in DOMAIN jobs /\ jobs[exec[w].job] \in Execution
      BY <1>8, WorkerCover DEF CoverSetting
    <2>2. r.task = jobs[exec[w].job].task
      BY <1>8, <2>1, SuccessorFields
    <2>3. r.task \in DOMAIN jobs
      BY <2>1, <2>2 DEF CoverInv, CoverRows
    <2>4. RowCover(r, OriginKind(jobs[exec[w].job]))
      BY <1>8, SuccessorCover
    <2>5. OriginKind(r) = OriginKind(jobs[exec[w].job])
      BY <2>2 DEF OriginKind
    <2>. QED
      BY <2>3, <2>4, <2>5
  <1>9. ASSUME r.task = Len(jobs) + 1, RowCover(r, r.plan.kind), j = Len(jobs) + 1
        PROVE  r.task \in DOMAIN jobs' /\ RowCover(r, OriginKind(r))'
    <2>1. OriginKind(r)' = r.plan.kind
      BY <1>9 DEF OriginKind
    <2>2. r.plan.kind \in Kind
      BY RowType
    <2>3. ASSUME NEW k \in Kind, r.plan.kind = k PROVE RowCover(r, OriginKind(r))'
      <3>1. RowCover(r, k)'
        BY <1>9, <2>3, RowCoverNext
      <3>2. OriginKind(r)' = k
        BY <2>1, <2>3
      <3>. QED
        BY <3>1, <3>2 DEF RowCover, Begun, Older, Place, RangeCover, HistoryPlace, UpdatePlace,
           ChangesCover, FetchedSince
    <2>. QED
      BY <1>9, <2>2, <2>3
  <1>10. r.task \in DOMAIN jobs' /\ RowCover(r, OriginKind(r))'
    <2>1. CASE j \in DOMAIN jobs /\ SameWindow(r, jobs[j])
      BY <1>4, <1>7, <2>1
    <2>2. CASE j = Len(jobs) + 1 /\ Entrant(r)
      BY <1>4, <1>9, <2>2, EntrantCover
    <2>3. ASSUME NEW w \in Worker, NEW p \in Window, exec[w].stage = "committed",
                 p \in Chained(Plan(w)), r = Successor(jobs[exec[w].job], p)
          PROVE  r.task \in DOMAIN jobs' /\ RowCover(r, OriginKind(r))'
      BY <1>4, <1>8, <2>3
    <2>. HIDE DEF Entrant
    <2>. QED
      BY <1>5, <2>1, <2>2, <2>3 DEF RowArrival
  <1>11. ASSUME r.status = "success" PROVE Passed(r)'
    <2>1. j \in DOMAIN jobs /\ SameWindow(r, jobs[j]) /\ jobs[j] \in Execution
      BY <1>1, <1>2, <1>5, <1>11, JobType DEF SuccessArrival
    <2>2. ASSUME jobs[j].status = "success" PROVE Passed(jobs[j])
      BY <2>1, <2>2 DEF CoverInv, CoverRows
    <2>3. ASSUME NEW w \in Worker, exec[w].stage = "committed", exec[w].job = j
          PROVE  Passed(jobs[j])
      <3>1. /\ Plan(w) = jobs[j].plan /\ Brings(w) /\ Left(Plan(w)) /\ exec[w].day \in Int
            /\ Begun(jobs[j])
        BY <2>3, WorkerCover, DayInt DEF CoverSetting, CoverInv, AcceptInv, WorkInv, RowCover
      <3>2. jobs[j].since <= exec[w].day /\ jobs[j].since \in Int /\ jobs[j].plan.end \in Int
        BY <2>1, <2>3, <3>1, RowType DEF Begun, Older
      <3>3. ASSUME jobs[j].plan.kind = "custom", NEW d \in Day,
                   jobs[j].plan.start <= d, d < jobs[j].plan.end + 1
            PROVE  fetched["custom"][d] >= jobs[j].since
        <4>1. fetched["custom"][d] >= exec[w].day /\ fetched["custom"][d] \in Int
          BY <1>1, <2>3, <3>1, <3>3, FetchedType DEF Brings, FetchedSince, Kind
        <4>. QED
          BY <3>1, <3>2, <4>1
      <3>4. /\ jobs[j].plan.kind = "history" => history.next > jobs[j].plan.end
            /\ jobs[j].plan.kind = "update" => update > jobs[j].plan.end
        BY <3>1, <3>2 DEF Left
      <3>. QED
        BY <3>3, <3>4 DEF Passed, FetchedSince
    <2>4. Passed(jobs[j])
      BY <1>5, <1>11, <2>2, <2>3 DEF SuccessArrival
    <2>5. Passed(r)
      BY <2>1, <2>4 DEF Passed, FetchedSince, SameWindow
    <2>. QED
      BY <2>5, PassedNext
  <1>. QED
    BY <1>10, <1>11

LEMMA NextCover ==
  ASSUME CoverSetting
  PROVE  CoverInv /\ [Next]_vars => CoverInv'
  BY NextAccept, NextGapInv, NextCustomRows, DataInvNext, CoverRowsNext DEF CoverInv, CoverSetting

LEMMA InitCover ==
  ASSUME Init
  PROVE  CoverInv
  <1>1. AcceptInv /\ GapInv /\ TypeInv
    BY InitAccept, InitGapInv, InitTypeInv
  <1>2. jobs = << >> /\ DOMAIN jobs = {}
    BY DEF Init
  <1>3. CustomRows /\ CoverRows
    BY <1>1, <1>2 DEF CustomRows, CoverRows
  <1>4. \A w \in Worker : exec[w].stage = "idle"
    BY DEF Init, Idle
  <1>5. FetchedInv
    BY DayInt, DaysAssumption DEF Init, FetchedInv, Day, Kind
  <1>6. history.frozen = None /\ history.t0 = None /\ update = None
    BY DEF Init
  <1>7. DataInv
    BY <1>4, <1>5, <1>6 DEF DataInv, Brings
  <1>. QED
    BY <1>1, <1>3, <1>7 DEF CoverInv

\* The rows that report the success of a task.
LEMMA CoverSucceeds ==
  ASSUME CoverSetting, CoverInv, NEW j \in DOMAIN jobs, TaskSucceeded(j),
         NEW d \in jobs[j].first .. jobs[j].last
  PROVE  LET kind == jobs[jobs[j].task].plan.kind IN
         \/ fetched[kind][d] >= jobs[j].since
         \/ kind = "history" /\ fetched["update"][d] >= jobs[j].since
  <1>. DEFINE r == jobs[j]
              p == r.plan
              o == OriginKind(r)
  <1>1. /\ r \in Execution /\ r.task \in DOMAIN jobs /\ RowCover(r, o) /\ Passed(r)
    BY CoverType, JobType DEF CoverInv, CoverRows, TaskSucceeded
  <1>2. r.index >= r.windows
    BY DEF TaskSucceeded
  <1>3. d \in Day /\ d \in Int /\ r.first <= d /\ d <= r.last
    BY <1>1, RowType, DayInt DEF Day
  <1>4. /\ r.first \in Int /\ r.last \in Int /\ r.since \in Int /\ p.start \in Int
        /\ p.end \in Int /\ p.target \in Int /\ p.kind \in Kind
        /\ r.index \in Nat /\ r.windows \in Nat /\ r.windows * WindowDays \in Int
        /\ r.index * WindowDays \in Int /\ (r.index - 1) * WindowDays \in Int
        /\ r.index * WindowDays = (r.index - 1) * WindowDays + WindowDays
    BY <1>1, RowType
  <1>5. /\ history.next \in Int /\ history.t0 \in Int /\ update \in Int
        /\ history.frozen \in Int /\ Lag \in Int /\ UpdateLag \in Int
        /\ WindowDays \in Int /\ WindowDays > 0
    BY CoverType, DayInt
  <1>6. CustomRow(r) /\ RowInv(p)
    BY <1>1, RowType DEF CoverInv, CustomRows, AcceptInv, RowsInv
  <1>. HIDE DEF r, p, o
  <1>7. r.last < r.first + r.index * WindowDays
    <2>1. r.windows * WindowDays <= r.index * WindowDays
      BY <1>2, <1>4, Times, DayInt
    <2>2. r.last < r.first + r.windows * WindowDays
      BY <1>1 DEF RowCover, Begun
    <2>. QED
      BY <1>4, <2>1, <2>2
  <1>8. Place(r, o) /\ RangeCover(r, o)
    BY <1>1 DEF RowCover
  <1>9. o \in Kind /\ o = jobs[r.task].plan.kind
    BY <1>4, <1>8 DEF Place, OriginKind, o, p, Kind
  <1>10. ASSUME fetched[o][d] >= r.since \/ (o = "history" /\ fetched["update"][d] >= r.since)
         PROVE  LET kind == jobs[jobs[j].task].plan.kind IN
                \/ fetched[kind][d] >= jobs[j].since
                \/ kind = "history" /\ fetched["update"][d] >= jobs[j].since
    BY <1>9, <1>10 DEF r
  <1>11. ASSUME p.target >= r.last, p.start >= r.first + (r.index - 1) * WindowDays, WellPlanned(p)
         PROVE  p.end >= r.last
    BY <1>4, <1>5, <1>7, <1>11 DEF WellPlanned, Least
  <1>12. CASE p.kind = "custom"
    <2>1. o = "custom"
      BY <1>8, <1>12 DEF Place, p
    <2>2. p.end = r.last
      BY <1>4, <1>5, <1>6, <1>7, <1>12 DEF CustomRow, Least, p
    <2>3. CASE d < p.start
      BY <1>3, <1>8, <1>10, <2>1, <2>3 DEF RangeCover, FetchedSince, p
    <2>4. CASE p.start <= d
      <3>1. FetchedSince("custom", p.start, p.end + 1, r.since)
        BY <1>1, <1>12 DEF Passed, p
      <3>2. d < p.end + 1
        BY <1>3, <1>4, <2>2
      <3>. QED
        BY <1>3, <1>10, <2>1, <2>4, <3>1, <3>2 DEF FetchedSince
    <2>. QED
      BY <1>3, <1>4, <2>3, <2>4
  <1>13. CASE p.kind = "history"
    <2>1. o = "history" /\ HistoryPlace(r) /\ WellPlanned(p)
      BY <1>6, <1>8, <1>13 DEF Place, RowInv, p
    <2>2. p.start >= r.first + (r.index - 1) * WindowDays
          /\ (p.target < r.last => p.start >= r.first + r.index * WindowDays)
      BY <2>1 DEF HistoryPlace, p
    <2>3. p.start <= p.target
      BY <2>1 DEF WellPlanned
    <2>4. p.target >= r.last
      BY <1>4, <1>7, <2>2, <2>3
    <2>5. p.end >= r.last
      BY <1>11, <2>1, <2>2, <2>4
    <2>6. history.next > p.end
      BY <1>1, <1>13 DEF Passed, p
    <2>7. d < history.next
      BY <1>3, <1>4, <1>5, <2>5, <2>6
    <2>. QED
      BY <1>3, <1>8, <1>10, <2>1, <2>7 DEF RangeCover, FetchedSince
  <1>14. CASE p.kind = "update"
    <2>1. (o = "update" \/ o = "history") /\ UpdatePlace(r, o) /\ WellPlanned(p)
      BY <1>6, <1>8, <1>14 DEF Place, RowInv, p
    <2>2. /\ Incremental /\ PastEnd /\ p.target >= r.last
          /\ \/ o = "history" /\ history.next > r.last
             \/ p.start >= r.first + (r.index - 1) * WindowDays
      BY <2>1 DEF UpdatePlace, p
    <2>3. update > p.end
      BY <1>1, <1>14 DEF Passed, p
    <2>4. ASSUME o = "history", d < history.next
          PROVE  fetched["history"][d] >= r.since
      BY <1>3, <1>8, <2>4 DEF RangeCover, FetchedSince
    <2>5. CASE o = "history" /\ history.next > r.last
      BY <1>3, <1>4, <1>5, <1>10, <2>4, <2>5
    <2>6. CASE p.start >= r.first + (r.index - 1) * WindowDays
      <3>1. update > r.last /\ d < update
        BY <1>3, <1>4, <1>5, <1>11, <2>1, <2>2, <2>3, <2>6
      <3>2. update # None
        BY <1>3, <1>4, <1>5, <3>1, DayInt DEF Day, None
      <3>3. ASSUME history.t0 <= d
            PROVE  fetched["update"][d] >= r.since
        BY <1>3, <1>8, <2>1, <3>1, <3>2, <3>3 DEF RangeCover, ChangesCover
      <3>4. CASE history.t0 <= d
        BY <1>10, <2>1, <3>3, <3>4
      <3>5. CASE ~(history.t0 <= d)
        <4>1. o = "history"
          BY <1>3, <1>4, <1>5, <1>8, <2>1, <3>5 DEF Place
        <4>2. history.frozen = history.t0 - Lag /\ history.next > history.frozen
          BY <2>2, CoverType DEF PastEnd, CoverInv, DataInv
        <4>3. d < history.next
          BY <1>3, <1>5, <2>2, <3>5, <4>2 DEF CoverSetting
        <4>. QED
          BY <1>10, <2>4, <4>1, <4>3
      <3>. QED
        BY <3>4, <3>5
    <2>. QED
      BY <2>2, <2>5, <2>6
  <1>. QED
    BY <1>4, <1>12, <1>13, <1>14 DEF Kind

\* A task reported as "success" has fetched every day of the range it was created for
\* since it was created: by its kind or, past the frozen end of the backfill, as changes.
\* The changes must be followed up to the backfill's own lag, and that lag may leave no
\* day between the backfill's end and the first day of the changes; the configuration
\* sets both to one day.
THEOREM SuccessCovered ==
  ASSUME CoverSetting
  PROVE  Spec => []SuccessMeansCovered
  <1>1. Init => CoverInv
    BY InitCover
  <1>2. CoverInv /\ [Next]_vars => CoverInv'
    BY NextCover
  <1>3. CoverInv => SuccessMeansCovered
    <2>. SUFFICES ASSUME CoverInv, NEW j \in DOMAIN jobs, TaskSucceeded(j)
                  PROVE  LET kind == jobs[jobs[j].task].plan.kind IN
                         \A d \in jobs[j].first .. jobs[j].last :
                           \/ fetched[kind][d] >= jobs[j].since
                           \/ kind = "history" /\ fetched["update"][d] >= jobs[j].since
      BY DEF SuccessMeansCovered
    <2>. QED
      BY CoverSucceeds
  <1>. QED
    BY <1>1, <1>2, <1>3, PTL DEF Spec
=============================================================================
