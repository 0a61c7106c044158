--------------------------- MODULE ApiSyncProofs ---------------------------
(***************************************************************************)
(* Theorems about ApiSync for every set of records and engines, any list,   *)
(* page size and number of changes and runs.                                *)
(***************************************************************************)
EXTENDS ApiSync, FiniteSetTheorems, SequenceTheorems, TLAPS

ApiSetting == [commit : {"pages", "whole"}, storage : {"history", "latest"},
               paging : {"total", "short", "none"}, served : 1 .. PageSize,
               maxPages : Nat \cup {None}, overlap : BOOLEAN, advance : BOOLEAN]

\* What the constants have to be.  Runs overlap only where an older version cannot replace
\* a newer one; short pages mean the end only if full ones are served and no page limit
\* ends the run before.
Bounds ==
  /\ IsFiniteSet(Rec)
  /\ First \in Seq(Rec) /\ \A i, j \in DOMAIN First : First[i] = First[j] => i = j
  /\ PageSize \in Nat \ {0}
  /\ Setting \subseteq ApiSetting
  /\ \A s \in Setting :
       /\ s.overlap => s.commit = "pages" /\ s.storage = "history"
       /\ s.paging = "short" =>
            /\ s.served = PageSize
            /\ s.maxPages # None => s.maxPages * PageSize >= Cardinality(Rec)

-----------------------------------------------------------------------------
(* The inductive invariant.                                                 *)

Snapshot == Rec \X Nat
StoreRow == [raw : [Rec -> Nat], history : SUBSET Snapshot, count : Nat]
RunRow == [stage : {"idle", "ask", "write", "upsert", "turn", "fail", "close"},
           id : Nat, page : Nat, got : Nat, total : Int, payload : SUBSET Snapshot,
           known : SUBSET Rec, start : SUBSET Snapshot, shifted : BOOLEAN, tries : Nat,
           result : {"none", "success", "failed", "paused"}, tx : Seq(StoreRow)]

Statuses == {"running", "none", "success", "partial_failed", "failed", "paused"}

ReportOk ==
  /\ batches \in Seq(Statuses)
  /\ logs \in Seq(SUBSET {"success", "failed", "paused"}) /\ Len(logs) = Len(batches)
  /\ point \in 0 .. Len(batches)
  /\ vouched \subseteq Snapshot

Types ==
  /\ setting \in Setting
  /\ list \in Seq(Rec)
  /\ version \in [Rec -> Nat]
  /\ Committed \in StoreRow
  /\ ReportOk
  /\ run \in [Engine -> RunRow]
  /\ \A e \in Engine : ~At(e, "idle") => run[e].id \in 1 .. Len(batches) /\ run[e].page > 0

\* The upstream list names a record once, and only records that exist.
Distinct(s) == \A i, j \in DOMAIN s : s[i] = s[j] => i = j
ListInv == Distinct(list) /\ \A i \in DOMAIN list : version[list[i]] > 0

OneAtATime ==
  ~setting.overlap => \A e, f \in Engine : ~At(e, "idle") /\ ~At(f, "idle") => e = f

\* A page has one version of a record, of those the record had.
PageOf(payload) ==
  /\ IsFiniteSet(payload)
  /\ \A x \in payload : 0 < x[2] /\ x[2] <= version[x[1]]
  /\ \A x, y \in payload : x[1] = y[1] => x = y

\* What a store says of itself: the tables, or what a transaction sees of them.
StoreOk(s) ==
  /\ s \in StoreRow
  /\ \A r \in Rec : s.raw[r] <= version[r]
  /\ ~setting.overlap => s.count = Cardinality(Stored(s))
  /\ setting.storage = "history" => \A r \in Rec : s.raw[r] # 0 => <<r, s.raw[r]>> \in s.history

\* A transaction is open in a run that has not ended.
Busy == {"ask", "write", "upsert", "turn", "fail"}
OpenOk(q) == q.tx # << >> => ~Paged /\ q.stage \in Busy

\* What a run is about to write is not older than what it finds, and the records it looked
\* up are there, if nobody writes beside it.
WriteOk(q, s) ==
  /\ PageOf(q.payload)
  /\ ~setting.overlap /\ q.stage \in {"write", "upsert"} =>
       \A x \in q.payload : s.raw[x[1]] <= x[2]
  /\ ~setting.overlap /\ q.stage = "upsert" => q.known = Stored(s)

\* How far a run came: what it got, and what the length of the list was.
Before(q) == (q.page - 1) * setting.served
Behind(q) == q.page * setting.served
Length(q) == IF setting.paging = "short" THEN q.total - 1 ELSE q.total

WalkOk(q) ==
  setting.paging # "none" =>
    /\ q.stage = "ask" => q.got <= Before(q)
    /\ q.stage \in {"write", "upsert"} =>
         q.got <= Before(q) /\ Cardinality(q.payload) <= setting.served
    /\ q.stage = "turn" => q.got <= Behind(q)
    /\ q.stage \in {"write", "upsert", "turn"} =>
         /\ Length(q) <= Cardinality(Rec)
         /\ Behind(q) < Length(q) => Cardinality(q.payload) >= setting.served

\* A record that is in the list behind place n.
Ahead(r, n) == \E i \in DOMAIN list : list[i] = r /\ i > n

\* A record the run began with is stored, on the page it holds, or on a later one.
Covered(q, s, x) ==
  \/ s.raw[x[1]] >= x[2]
  \/ q.stage = "ask" /\ Ahead(x[1], Before(q))
  \/ q.stage \in {"write", "upsert"} /\ \E y \in q.payload : y[1] = x[1] /\ x[2] <= y[2]
  \/ /\ q.stage \in {"write", "upsert", "turn"} /\ setting.paging # "none"
     /\ Behind(q) < Length(q) /\ Ahead(x[1], Behind(q))

CoverOk(q, s) ==
  /\ \A x \in q.start : x[2] <= version[x[1]]
  /\ q.stage \in {"ask", "write", "upsert", "turn"} /\ ~q.shifted =>
       \A x \in q.start : Covered(q, s, x)

RunOk(q, s) == OpenOk(q) /\ StoreOk(s) /\ WriteOk(q, s) /\ WalkOk(q) /\ CoverOk(q, s)

IInv ==
  /\ Types /\ ListInv /\ OneAtATime
  /\ StoreOk(Committed)
  /\ \A e \in Engine : RunOk(run[e], Seen(e)) /\ \A r \in Rec : raw[r] <= Seen(e).raw[r]
  /\ VouchedIsStored

-----------------------------------------------------------------------------
(* Values.                                                                  *)

LEMMA Pairs == \A x \in Snapshot : x[1] \in Rec /\ x[2] \in Nat /\ x = <<x[1], x[2]>>
  BY DEF Snapshot

LEMMA SettingFacts ==
  ASSUME Bounds, setting \in Setting
  PROVE  /\ setting.commit \in {"pages", "whole"} /\ setting.storage \in {"history", "latest"}
         /\ setting.paging \in {"total", "short", "none"}
         /\ setting.served \in Nat \ {0} /\ setting.served <= PageSize
         /\ setting.maxPages \in Int /\ (setting.maxPages # None => setting.maxPages \in Nat)
         /\ setting.overlap \in BOOLEAN /\ setting.advance \in BOOLEAN
         /\ PageSize \in Nat \ {0}
         /\ setting.overlap => Paged /\ setting.storage = "history"
         /\ setting.paging = "short" =>
              /\ setting.served = PageSize
              /\ setting.maxPages # None => setting.maxPages * PageSize >= Cardinality(Rec)
  <1>1. setting \in ApiSetting /\ PageSize \in Nat \ {0}
    BY DEF Bounds
  <1>2. /\ setting.overlap => Paged /\ setting.storage = "history"
        /\ setting.paging = "short" =>
             /\ setting.served = PageSize
             /\ setting.maxPages # None => setting.maxPages * PageSize >= Cardinality(Rec)
    BY DEF Bounds, Paged
  <1>. QED
    BY <1>1, <1>2 DEF ApiSetting, None

-----------------------------------------------------------------------------
(* The list.                                                                *)

LEMMA TakenOut ==
  ASSUME list \in Seq(Rec), Distinct(list), NEW r
  PROVE  /\ Without(r) \in Seq(Rec)
         /\ Distinct(Without(r))
         /\ \A i \in DOMAIN Without(r) :
              \E j \in DOMAIN list : Without(r)[i] = list[j] /\ list[j] # r
         /\ \A j \in DOMAIN list : list[j] # r =>
              \E i \in DOMAIN Without(r) : Without(r)[i] = list[j] /\ i >= j - 1
  <1>1. Len(list) \in Nat /\ list \in [1 .. Len(list) -> Rec] /\ DOMAIN list = 1 .. Len(list)
    BY LenProperties
  <1>2. CASE ~\E i \in DOMAIN list : list[i] = r
    <2>1. Without(r) = list
      BY <1>2 DEF Without
    <2>. QED
      BY <1>1, <1>2, <2>1
  <1>3. CASE \E i \in DOMAIN list : list[i] = r
    <2>. DEFINE p == CHOOSE i \in DOMAIN list : list[i] = r
                n == Len(list) - 1
    <2>1. p \in 1 .. Len(list) /\ list[p] = r /\ n \in Nat
      BY <1>1, <1>3
    <2>2. Without(r) = [i \in 1 .. n |-> IF i < p THEN list[i] ELSE list[i + 1]]
      BY <1>3 DEF Without
    <2>. HIDE DEF p
    <2>3. /\ Without(r) \in [1 .. n -> Rec] /\ DOMAIN Without(r) = 1 .. n
          /\ \A i \in 1 .. n : Without(r)[i] = IF i < p THEN list[i] ELSE list[i + 1]
      BY <1>1, <2>1, <2>2
    <2>4. Without(r) \in Seq(Rec)
      BY <2>1, <2>3, SeqDef
    <2>5. \A i \in 1 .. n : Without(r)[i] # r
      BY <1>1, <2>1, <2>3 DEF Distinct
    <2>6. Distinct(Without(r))
      BY <1>1, <2>1, <2>3 DEF Distinct
    <2>7. \A i \in 1 .. n : \E j \in DOMAIN list : Without(r)[i] = list[j] /\ list[j] # r
      <3>. SUFFICES ASSUME NEW i \in 1 .. n
                    PROVE  \E j \in DOMAIN list : Without(r)[i] = list[j]
        BY <2>5
      <3>1. CASE i < p
        BY <1>1, <2>3, <3>1
      <3>2. CASE ~(i < p)
        BY <1>1, <2>1, <2>3, <3>2
      <3>. QED
        BY <3>1, <3>2
    <2>8. ASSUME NEW j \in DOMAIN list, list[j] # r
          PROVE  \E i \in 1 .. n : Without(r)[i] = list[j] /\ i >= j - 1
      <3>1. CASE j < p
        BY <1>1, <2>1, <2>3, <3>1
      <3>2. CASE j > p
        <4>1. j - 1 \in 1 .. n /\ Without(r)[j - 1] = list[j]
          BY <1>1, <2>1, <2>3, <3>2
        <4>. QED
          BY <1>1, <4>1
      <3>3. j # p
        BY <2>1, <2>8
      <3>. QED
        BY <1>1, <2>1, <3>1, <3>2, <3>3
    <2>. QED
      BY <2>3, <2>4, <2>6, <2>7, <2>8
  <1>. QED
    BY <1>2, <1>3

LEMMA Concatenated ==
  ASSUME NEW s \in Seq(Rec), NEW t \in Seq(Rec)
  PROVE  /\ s \o t \in Seq(Rec) /\ Len(s \o t) = Len(s) + Len(t)
         /\ \A i \in 1 .. Len(s) + Len(t) :
              (s \o t)[i] = IF i <= Len(s) THEN s[i] ELSE t[i - Len(s)]
  BY ConcatProperties

\* A record that comes first pushes the others back.
LEMMA PutInFront ==
  ASSUME list \in Seq(Rec), Distinct(list), NEW r \in Rec, list' = <<r>> \o Without(r)
  PROVE  /\ list' \in Seq(Rec)
         /\ Distinct(list')
         /\ \A i \in DOMAIN list' :
              list'[i] = r \/ \E j \in DOMAIN list : list'[i] = list[j] /\ list[j] # r
         /\ \A j \in DOMAIN list : list[j] # r =>
              \E i \in DOMAIN list' : list'[i] = list[j] /\ i >= j
  <1>. DEFINE w == Without(r)
              one == <<r>>
  <1>1. /\ w \in Seq(Rec) /\ Distinct(w)
        /\ \A i \in DOMAIN w : \E j \in DOMAIN list : w[i] = list[j] /\ list[j] # r
        /\ \A j \in DOMAIN list : list[j] # r =>
             \E i \in DOMAIN w : w[i] = list[j] /\ i >= j - 1
    BY TakenOut
  <1>2. one \in Seq(Rec) /\ Len(one) = 1 /\ one[1] = r
    OBVIOUS
  <1>. HIDE DEF w, one
  <1>3. Len(w) \in Nat /\ DOMAIN w = 1 .. Len(w)
    BY <1>1, LenProperties
  <1>4. /\ list' \in Seq(Rec) /\ Len(list') = 1 + Len(w)
        /\ \A i \in 1 .. 1 + Len(w) : list'[i] = IF i <= 1 THEN one[i] ELSE w[i - 1]
    <2>1. list' = one \o w
      BY DEF w, one
    <2>2. /\ one \o w \in Seq(Rec) /\ Len(one \o w) = Len(one) + Len(w)
          /\ \A i \in 1 .. Len(one) + Len(w) :
               (one \o w)[i] = IF i <= Len(one) THEN one[i] ELSE w[i - Len(one)]
      BY <1>1, <1>2, Concatenated
    <2>. QED
      BY <1>2, <2>1, <2>2
  <1>5. DOMAIN list' = 1 .. 1 + Len(w)
    BY <1>4, LenProperties
  <1>6. /\ list'[1] = r
        /\ \A i \in DOMAIN w : i + 1 \in DOMAIN list' /\ list'[i + 1] = w[i]
        /\ \A i \in DOMAIN list' : i = 1 \/ (i - 1 \in DOMAIN w /\ list'[i] = w[i - 1])
    BY <1>2, <1>3, <1>4, <1>5
  <1>7. DOMAIN list' \subseteq Nat /\ DOMAIN w \subseteq Nat /\ DOMAIN list \subseteq Nat
    BY <1>3, <1>5, LenProperties
  <1>8. Distinct(list')
    <2>. SUFFICES ASSUME NEW i \in DOMAIN list', NEW j \in DOMAIN list', list'[i] = list'[j]
                  PROVE  i = j
      BY DEF Distinct
    <2>1. CASE i = 1 \/ j = 1
      BY <1>1, <1>6, <2>1
    <2>2. CASE i # 1 /\ j # 1
      <3>1. /\ i - 1 \in DOMAIN w /\ j - 1 \in DOMAIN w
            /\ w[i - 1] = w[j - 1]
        BY <1>6, <2>2
      <3>2. i - 1 = j - 1
        BY <1>1, <3>1 DEF Distinct
      <3>. QED
        BY <1>7, <3>2
    <2>. QED
      BY <2>1, <2>2
  <1>9. ASSUME NEW j \in DOMAIN list, list[j] # r
        PROVE  \E i \in DOMAIN list' : list'[i] = list[j] /\ i >= j
    <2>1. PICK i \in DOMAIN w : w[i] = list[j] /\ i >= j - 1
      BY <1>1, <1>9
    <2>2. i + 1 \in DOMAIN list' /\ list'[i + 1] = list[j] /\ i + 1 >= j
      BY <1>6, <1>7, <2>1
    <2>. QED
      BY <2>2
  <1>10. \A i \in DOMAIN list' :
           list'[i] = r \/ \E j \in DOMAIN list : list'[i] = list[j] /\ list[j] # r
    BY <1>1, <1>6
  <1>. QED
    BY <1>4, <1>8, <1>9, <1>10

LEMMA ListFacts ==
  ASSUME Types
  PROVE  /\ Len(list) \in Nat /\ DOMAIN list = 1 .. Len(list)
         /\ \A i \in DOMAIN list : list[i] \in Rec /\ version[list[i]] \in Nat
  <1>1. list \in Seq(Rec) /\ version \in [Rec -> Nat]
    BY DEF Types
  <1>2. Len(list) \in Nat /\ DOMAIN list = 1 .. Len(list) /\ list \in [1 .. Len(list) -> Rec]
    BY <1>1, LenProperties
  <1>. QED
    BY <1>1, <1>2

LEMMA IntervalSize ==
  ASSUME NEW lo \in Int, NEW hi \in Int, NEW n \in Nat, hi = lo + n - 1
  PROVE  IsFiniteSet(lo .. hi) /\ Cardinality(lo .. hi) = n
  <1>1. (IF lo > hi THEN 0 ELSE hi - lo + 1) = n
    OBVIOUS
  <1>2. IsFiniteSet(lo .. hi) /\ Cardinality(lo .. hi) = IF lo > hi THEN 0 ELSE hi - lo + 1
    BY FS_Interval
  <1>. QED
    BY <1>1, <1>2

\* The list is no longer than there are records.
LEMMA ListLength ==
  ASSUME Bounds, Types, ListInv
  PROVE  Len(list) <= Cardinality(Rec) /\ Cardinality(Rec) \in Nat
  <1>1. Len(list) \in Nat /\ DOMAIN list = 1 .. Len(list)
    BY ListFacts
  <1>2. IsFiniteSet(Rec)
    BY DEF Bounds
  <1>3. list \in [1 .. Len(list) -> Rec]
    BY LenProperties DEF Types
  <1>4. list \in Injection(1 .. Len(list), Rec)
    BY <1>1, <1>3 DEF Injection, IsInjective, ListInv, Distinct
  <1>5. Cardinality(1 .. Len(list)) <= Cardinality(Rec)
    BY <1>2, <1>4, FS_Injection
  <1>6. Cardinality(1 .. Len(list)) = Len(list)
    <2>. DEFINE lo == 1
    <2>1. lo \in Int /\ Len(list) \in Int /\ Len(list) = lo + Len(list) - 1
      BY <1>1
    <2>. HIDE DEF lo
    <2>2. Cardinality(lo .. Len(list)) = Len(list)
      BY <1>1, <2>1, IntervalSize
    <2>. QED
      BY <2>2 DEF lo
  <1>7. Cardinality(Rec) \in Nat
    BY <1>2, FS_CardinalityType
  <1>. QED
    BY <1>5, <1>6, <1>7

At2(i) == <<list[i], version[list[i]]>>

\* As many entries as places.
LEMMA Entries ==
  ASSUME Types, ListInv, NEW I \in SUBSET DOMAIN list, IsFiniteSet(I)
  PROVE  /\ IsFiniteSet({At2(i) : i \in I})
         /\ Cardinality({At2(i) : i \in I}) = Cardinality(I)
  <1>. DEFINE P == {At2(i) : i \in I}
              f == [i \in I |-> At2(i)]
  <1>1. f \in Surjection(I, P)
    <2>1. f \in [I -> P] /\ \A y \in P : \E i \in I : f[i] = y
      OBVIOUS
    <2>. QED
      BY <2>1 DEF Surjection
  <1>2. f \in Injection(I, P)
    <2>1. f \in [I -> P]
      OBVIOUS
    <2>2. \A i, j \in I : f[i] = f[j] => i = j
      <3>. SUFFICES ASSUME NEW i \in I, NEW j \in I, At2(i) = At2(j)
                    PROVE  i = j
        OBVIOUS
      <3>1. list[i] = list[j]
        BY DEF At2
      <3>. QED
        BY <3>1 DEF ListInv, Distinct
    <2>. QED
      BY <2>1, <2>2 DEF Injection, IsInjective
  <1>. HIDE DEF f
  <1>. QED
    BY <1>1, <1>2, FS_Surjection

Places(n) ==
  {k \in DOMAIN list : (n - 1) * setting.served < k /\ k <= n * setting.served}

LEMMA PageForm ==
  ASSUME NEW n
  PROVE  Page(n) = {At2(i) : i \in IF setting.paging = "none" THEN DOMAIN list ELSE Places(n)}
  BY DEF Page, Now, Places, At2

\* What a page holds, and how much.
LEMMA PageFacts ==
  ASSUME Bounds, Types, ListInv, NEW n \in Nat \ {0}
  PROVE  /\ Page(n) \subseteq Snapshot /\ PageOf(Page(n))
         /\ \A x \in Page(n) : x[2] = version[x[1]]
         /\ \A i \in DOMAIN list :
              setting.paging = "none" \/ i \in Places(n) =>
                \E x \in Page(n) : x[1] = list[i] /\ x[2] = version[list[i]]
         /\ setting.paging # "none" =>
              /\ Cardinality(Page(n)) <= setting.served
              /\ n * setting.served < Len(list) => Cardinality(Page(n)) >= setting.served
  <1>. DEFINE I == IF setting.paging = "none" THEN DOMAIN list ELSE Places(n)
              a == (n - 1) * setting.served
              b == n * setting.served
  <1>1. Page(n) = {At2(i) : i \in I}
    BY PageForm
  <1>2. I \subseteq DOMAIN list
    BY DEF Places
  <1>3. /\ Len(list) \in Nat /\ DOMAIN list = 1 .. Len(list)
        /\ \A i \in DOMAIN list : list[i] \in Rec /\ version[list[i]] \in Nat
    BY ListFacts
  <1>4. setting.served \in Nat \ {0}
    BY SettingFacts DEF Types
  <1>5. a \in Nat /\ b \in Nat /\ b = a + setting.served
    BY <1>4
  <1>6. setting.paging # "none" => \A i : i \in I <=> i \in DOMAIN list /\ a < i /\ i <= b
    BY DEF Places
  <1>. HIDE DEF I, a, b
  <1>7. IsFiniteSet(DOMAIN list)
    BY <1>3, FS_Interval
  <1>8. IsFiniteSet(I)
    BY <1>2, <1>7, FS_Subset
  <1>9. IsFiniteSet(Page(n)) /\ Cardinality(Page(n)) = Cardinality(I)
    BY <1>1, <1>2, <1>8, Entries
  <1>10. \A x \in Page(n) : \E i \in DOMAIN list : x = <<list[i], version[list[i]]>>
    BY <1>1, <1>2 DEF At2
  <1>11. Page(n) \subseteq Snapshot /\ \A x \in Page(n) : x[2] = version[x[1]] /\ 0 < x[2]
    BY <1>3, <1>10 DEF Snapshot, ListInv
  <1>12. PageOf(Page(n))
    <2>1. \A x \in Page(n) : 0 < x[2] /\ x[2] <= version[x[1]]
      BY <1>11, Pairs
    <2>2. \A x, y \in Page(n) : x[1] = y[1] => x = y
      BY <1>11, Pairs
    <2>. QED
      BY <1>9, <2>1, <2>2 DEF PageOf
  <1>13. ASSUME NEW i \in DOMAIN list, setting.paging = "none" \/ i \in Places(n)
         PROVE  \E x \in Page(n) : x[1] = list[i] /\ x[2] = version[list[i]]
    <2>1. i \in I
      BY <1>13 DEF I
    <2>2. At2(i) \in Page(n)
      BY <1>1, <2>1
    <2>3. At2(i)[1] = list[i] /\ At2(i)[2] = version[list[i]]
      BY DEF At2
    <2>. QED
      BY <2>2, <2>3
  <1>14. ASSUME setting.paging # "none"
         PROVE  /\ Cardinality(I) <= setting.served
                /\ b < Len(list) => Cardinality(I) >= setting.served
    <2>1. IsFiniteSet(a + 1 .. b) /\ Cardinality(a + 1 .. b) = setting.served
      <3>. DEFINE lo == a + 1
      <3>1. lo \in Int /\ b \in Int /\ setting.served \in Nat /\ b = lo + setting.served - 1
        BY <1>4, <1>5
      <3>. HIDE DEF lo
      <3>2. IsFiniteSet(lo .. b) /\ Cardinality(lo .. b) = setting.served
        BY <3>1, IntervalSize
      <3>. QED
        BY <3>2 DEF lo
    <2>2. I \subseteq a + 1 .. b
      BY <1>3, <1>5, <1>6, <1>14
    <2>3. b < Len(list) => a + 1 .. b \subseteq I
      BY <1>3, <1>5, <1>6, <1>14
    <2>4. Cardinality(I) <= setting.served
      BY <2>1, <2>2, FS_Subset
    <2>5. b < Len(list) => I = a + 1 .. b
      BY <2>2, <2>3
    <2>. QED
      BY <1>4, <2>1, <2>4, <2>5
  <1>. QED
    BY <1>9, <1>11, <1>12, <1>13, <1>14 DEF b

-----------------------------------------------------------------------------
(* The store.                                                               *)

LEMMA Together ==
  ASSUME NEW S, NEW T, IsFiniteSet(S), IsFiniteSet(T)
  PROVE  /\ IsFiniteSet(S \cup T) /\ Cardinality(S) \in Nat /\ Cardinality(T \ S) \in Nat
         /\ Cardinality(S \cup T) = Cardinality(S) + Cardinality(T \ S)
  <1>. DEFINE D == T \ S
  <1>1. S \cup T = S \cup D /\ S \cap D = {}
    OBVIOUS
  <1>2. IsFiniteSet(D)
    BY FS_Difference
  <1>. HIDE DEF D
  <1>3. /\ IsFiniteSet(S \cup D)
        /\ Cardinality(S \cup D) = Cardinality(S) + Cardinality(D) - Cardinality(S \cap D)
    BY <1>2, FS_Union
  <1>4. Cardinality(S \cap D) = 0
    BY <1>1, FS_EmptySet
  <1>5. Cardinality(S) \in Nat /\ Cardinality(D) \in Nat
    BY <1>2, FS_CardinalityType
  <1>6. Cardinality(S \cup D) = Cardinality(S) + Cardinality(D)
    BY <1>3, <1>4, <1>5
  <1>7. IsFiniteSet(S \cup T) /\ Cardinality(S \cup T) = Cardinality(S) + Cardinality(D)
    BY <1>1, <1>3, <1>6
  <1>. QED
    BY <1>5, <1>7 DEF D

Row(payload, r) == CHOOSE x \in payload : x[1] = r

LEMMA KeyFacts ==
  ASSUME Bounds, NEW payload \in SUBSET Snapshot, PageOf(payload)
  PROVE  /\ Keys(payload) \subseteq Rec /\ IsFiniteSet(Keys(payload))
         /\ \A r \in Keys(payload) :
              /\ Row(payload, r) \in payload /\ Row(payload, r)[1] = r
              /\ Row(payload, r)[2] \in Nat /\ Row(payload, r) = <<r, Row(payload, r)[2]>>
         /\ \A x \in payload : x[1] \in Keys(payload) /\ Row(payload, x[1]) = x
  <1>1. Keys(payload) \subseteq Rec
    BY Pairs DEF Keys
  <1>2. IsFiniteSet(Keys(payload))
    BY <1>1, FS_Subset DEF Bounds
  <1>3. \A x \in payload : x[1] \in Keys(payload)
    BY DEF Keys
  <1>4. \A r \in Keys(payload) : \E x \in payload : x[1] = r
    BY DEF Keys
  <1>5. \A r \in Keys(payload) : Row(payload, r) \in payload /\ Row(payload, r)[1] = r
    BY <1>4 DEF Row
  <1>6. \A r \in Keys(payload) :
          Row(payload, r)[2] \in Nat /\ Row(payload, r) = <<r, Row(payload, r)[2]>>
    BY <1>5, Pairs
  <1>7. \A x \in payload : Row(payload, x[1]) = x
    BY <1>3, <1>5 DEF PageOf
  <1>. QED
    BY <1>1, <1>2, <1>3, <1>5, <1>6, <1>7

LEMMA WrittenRaw ==
  ASSUME Bounds, setting \in Setting, NEW s, StoreOk(s),
         NEW payload \in SUBSET Snapshot, PageOf(payload), NEW known,
         ~setting.overlap => \A x \in payload : s.raw[x[1]] <= x[2]
  PROVE  LET t == Written(s, payload, known) IN
         /\ t.raw \in [Rec -> Nat]
         /\ \A r \in Rec : /\ t.raw[r] \in {s.raw[r], IF r \in Keys(payload)
                                                       THEN Row(payload, r)[2] ELSE s.raw[r]}
                           /\ s.raw[r] <= t.raw[r]
         /\ \A x \in payload : x[2] <= t.raw[x[1]]
         /\ ~setting.overlap => \A x \in payload : t.raw[x[1]] = x[2]
  <1>. DEFINE t == Written(s, payload, known)
              of(r) == Row(payload, r)[2]
              replaces(r) == setting.storage = "latest" \/ of(r) >= s.raw[r]
  <1>1. t.raw = [r \in Rec |-> IF r \in Keys(payload) /\ replaces(r) THEN of(r) ELSE s.raw[r]]
    BY DEF Written, Row
  <1>2. s.raw \in [Rec -> Nat]
    BY DEF StoreOk, StoreRow
  <1>3. /\ Keys(payload) \subseteq Rec
        /\ \A r \in Keys(payload) : of(r) \in Nat /\ Row(payload, r) \in payload
                                    /\ Row(payload, r)[1] = r
        /\ \A x \in payload : x[1] \in Keys(payload) /\ of(x[1]) = x[2]
    BY KeyFacts
  <1>4. \A r \in Keys(payload) : ~setting.overlap => of(r) >= s.raw[r]
    BY <1>2, <1>3
  <1>5. \A r \in Keys(payload) : ~replaces(r) => s.raw[r] >= of(r)
    BY <1>2, <1>3
  <1>6. setting.storage = "latest" => ~setting.overlap
    BY SettingFacts
  <1>. HIDE DEF t, of
  <1>7. t.raw \in [Rec -> Nat]
    BY <1>1, <1>2, <1>3
  <1>8. \A r \in Rec : t.raw[r] = IF r \in Keys(payload) /\ replaces(r) THEN of(r) ELSE s.raw[r]
    BY <1>1
  <1>9. \A r \in Rec : s.raw[r] <= t.raw[r]
    BY <1>2, <1>3, <1>4, <1>6, <1>8
  <1>10. ASSUME NEW x \in payload
         PROVE  /\ x[2] <= t.raw[x[1]]
                /\ ~setting.overlap => t.raw[x[1]] = x[2]
    <2>1. x[1] \in Keys(payload) /\ x[1] \in Rec /\ of(x[1]) = x[2] /\ x[2] \in Nat
      BY <1>3
    <2>. QED
      BY <1>2, <1>4, <1>5, <1>8, <2>1
  <1>11. \A r \in Rec :
           t.raw[r] \in {s.raw[r], IF r \in Keys(payload) THEN of(r) ELSE s.raw[r]}
    BY <1>8
  <1>. QED
    BY <1>7, <1>9, <1>10, <1>11 DEF t, of

\* A page that is written keeps what the store says of itself.
LEMMA WrittenOk ==
  ASSUME Bounds, Types, NEW s, StoreOk(s), NEW payload \in SUBSET Snapshot, PageOf(payload),
         NEW known \in SUBSET Rec,
         ~setting.overlap => known = Stored(s) /\ \A x \in payload : s.raw[x[1]] <= x[2]
  PROVE  StoreOk(Written(s, payload, known))
  <1>. DEFINE t == Written(s, payload, known)
  <1>1. /\ t.raw \in [Rec -> Nat]
        /\ \A r \in Rec : /\ t.raw[r] \in {s.raw[r], IF r \in Keys(payload)
                                                      THEN Row(payload, r)[2] ELSE s.raw[r]}
                          /\ s.raw[r] <= t.raw[r]
        /\ \A x \in payload : x[2] <= t.raw[x[1]]
    BY WrittenRaw DEF Types
  <1>2. t = [raw |-> t.raw,
             history |-> IF setting.storage = "history" THEN s.history \cup payload ELSE s.history,
             count |-> s.count + Cardinality(Keys(payload) \ known)]
    BY DEF Written
  <1>3. /\ s.raw \in [Rec -> Nat] /\ s.history \subseteq Snapshot /\ s.count \in Nat
        /\ version \in [Rec -> Nat]
    BY DEF StoreOk, StoreRow, Types
  <1>4. /\ Keys(payload) \subseteq Rec /\ IsFiniteSet(Keys(payload))
        /\ \A r \in Keys(payload) :
             /\ Row(payload, r) \in payload /\ Row(payload, r)[1] = r
             /\ Row(payload, r)[2] \in Nat /\ Row(payload, r) = <<r, Row(payload, r)[2]>>
        /\ \A x \in payload : x[1] \in Keys(payload) /\ Row(payload, x[1]) = x
    BY KeyFacts
  <1>5. Cardinality(Keys(payload) \ known) \in Nat
    BY <1>4, FS_Difference, FS_CardinalityType
  <1>. HIDE DEF t
  <1>6. t \in StoreRow
    <2>1. /\ t.history = IF setting.storage = "history" THEN s.history \cup payload ELSE s.history
          /\ t.count = s.count + Cardinality(Keys(payload) \ known)
      BY <1>2
    <2>2. t.history \subseteq Snapshot /\ t.count \in Nat
      BY <1>3, <1>5, <2>1
    <2>3. t = [raw |-> t.raw, history |-> t.history, count |-> t.count]
      BY <1>2, <2>1
    <2>. QED
      BY <1>1, <2>2, <2>3 DEF StoreRow
  <1>7. \A r \in Rec : t.raw[r] <= version[r]
    <2>1. \A r \in Keys(payload) : Row(payload, r)[2] <= version[r]
      BY <1>4 DEF PageOf
    <2>2. \A r \in Rec : s.raw[r] <= version[r]
      BY DEF StoreOk
    <2>. QED
      BY <1>1, <2>1, <2>2
  <1>8. ASSUME ~setting.overlap
        PROVE  t.count = Cardinality(Stored(t))
    <2>1. t.count = s.count + Cardinality(Keys(payload) \ Stored(s))
      <3>1. t.count = s.count + Cardinality(Keys(payload) \ known)
        BY <1>2
      <3>2. known = Stored(s)
        BY <1>8
      <3>. QED
        BY <3>1, <3>2
    <2>2. s.count = Cardinality(Stored(s))
      BY <1>8 DEF StoreOk
    <2>3. Stored(t) = Stored(s) \cup Keys(payload)
      <3>1. \A r \in Keys(payload) : t.raw[r] # 0
        <4>1. \A r \in Keys(payload) :
                0 < Row(payload, r)[2] /\ Row(payload, r)[2] <= t.raw[r]
          BY <1>1, <1>4 DEF PageOf
        <4>. QED
          BY <1>1, <1>4, <4>1
      <3>2. \A r \in Rec : r \notin Keys(payload) => t.raw[r] = s.raw[r]
        BY <1>1
      <3>3. \A r \in Rec : s.raw[r] # 0 => t.raw[r] # 0
        BY <1>1, <1>3
      <3>. QED
        BY <1>4, <3>1, <3>2, <3>3 DEF Stored
    <2>4. IsFiniteSet(Stored(s))
      <3>1. Stored(s) \subseteq Rec
        BY DEF Stored
      <3>. QED
        BY <3>1, FS_Subset DEF Bounds
    <2>. QED
      BY <1>4, <2>1, <2>2, <2>3, <2>4, Together
  <1>9. ASSUME setting.storage = "history"
        PROVE  \A r \in Rec : t.raw[r] # 0 => <<r, t.raw[r]>> \in t.history
    <2>1. t.history = s.history \cup payload
      BY <1>2, <1>9
    <2>2. \A r \in Rec : s.raw[r] # 0 => <<r, s.raw[r]>> \in s.history
      BY <1>9 DEF StoreOk
    <2>3. \A r \in Keys(payload) : <<r, Row(payload, r)[2]>> \in payload
      BY <1>4
    <2>. QED
      BY <1>1, <2>1, <2>2, <2>3
  <1>. QED
    BY <1>6, <1>7, <1>8, <1>9 DEF StoreOk, t

-----------------------------------------------------------------------------
(* One run at a time.                                                       *)

LEMMA StoreFacts ==
  ASSUME NEW s \in StoreRow
  PROVE  s.raw \in [Rec -> Nat] /\ s.history \subseteq Snapshot /\ s.count \in Nat
  BY DEF StoreRow

LEMMA RunFacts ==
  ASSUME NEW q \in RunRow
  PROVE  /\ q.id \in Nat /\ q.page \in Nat /\ q.got \in Nat /\ q.total \in Int
         /\ q.payload \subseteq Snapshot /\ q.known \subseteq Rec /\ q.start \subseteq Snapshot
         /\ q.shifted \in BOOLEAN /\ q.tries \in Nat /\ q.tx \in Seq(StoreRow)
  BY DEF RunRow

\* The other runs keep what they had while one run goes on.
LEMMA Upstream ==
  ASSUME NEW q, NEW s, UNCHANGED upstream, RunOk(q, s)
  PROVE  RunOk(q, s)'
  <1>1. setting' = setting /\ list' = list /\ version' = version
    BY DEF upstream
  <1>2. OpenOk(q)' = OpenOk(q)
    BY <1>1 DEF OpenOk, Paged
  <1>3. StoreOk(s)' = StoreOk(s)
    BY <1>1 DEF StoreOk
  <1>4. WriteOk(q, s)' = WriteOk(q, s)
    BY <1>1 DEF WriteOk, PageOf
  <1>5. WalkOk(q)' = WalkOk(q)
    BY <1>1 DEF WalkOk, Before, Behind, Length
  <1>6. CoverOk(q, s)' = CoverOk(q, s)
    BY <1>1 DEF CoverOk, Covered, Ahead, Before, Behind, Length
  <1>. QED
    BY <1>2, <1>3, <1>4, <1>5, <1>6 DEF RunOk

\* The tables seen by a run that writes nothing, or that may write beside others.
LEMMA Grown ==
  ASSUME Bounds, setting \in Setting, NEW q \in RunRow, NEW s, RunOk(q, s), NEW c, StoreOk(c),
         \A r \in Rec : s.raw[r] <= c.raw[r],
         setting.overlap \/ q.stage = "idle"
  PROVE  RunOk(q, c)
  <1>1. WriteOk(q, c)
    BY DEF RunOk, WriteOk
  <1>2. ASSUME NEW x \in q.start, s.raw[x[1]] >= x[2]
        PROVE  c.raw[x[1]] >= x[2]
    <2>1. x[1] \in Rec /\ x[2] \in Nat
      BY RunFacts, Pairs
    <2>2. s.raw[x[1]] \in Nat /\ c.raw[x[1]] \in Nat
      BY <2>1, StoreFacts DEF RunOk, StoreOk
    <2>3. s.raw[x[1]] <= c.raw[x[1]]
      BY <2>1
    <2>. QED
      BY <1>2, <2>1, <2>2, <2>3
  <1>3. CoverOk(q, c)
    <2>1. \A x \in q.start : Covered(q, s, x) => Covered(q, c, x)
      BY <1>2 DEF Covered
    <2>. QED
      BY <2>1 DEF RunOk, CoverOk
  <1>. QED
    BY <1>1, <1>3 DEF RunOk

\* What has to be shown of a step of one engine.
LEMMA EngineStep ==
  ASSUME Bounds, IInv, NEW e \in Engine, NEW q \in RunRow, NEW c, NEW s,
         Become(e, q), UNCHANGED upstream,
         Committed' = c, StoreOk(c), \A r \in Rec : raw[r] <= c.raw[r],
         c = Committed \/ ~At(e, "idle"),
         ~At(e, "idle") \/ setting.overlap \/ (\A f \in Engine : At(f, "idle")),
         s = IF q.tx = << >> THEN c ELSE q.tx[1],
         RunOk(q, s), \A r \in Rec : c.raw[r] <= s.raw[r],
         ReportOk', Len(batches) <= Len(batches'),
         q.stage # "idle" => q.id \in 1 .. Len(batches') /\ q.page > 0,
         \A x \in vouched' : x \in vouched \/ c.raw[x[1]] >= x[2]
  PROVE  IInv'
  <1>1. setting' = setting /\ list' = list /\ version' = version
    BY DEF upstream
  <1>2. Types /\ ListInv /\ OneAtATime /\ StoreOk(Committed) /\ VouchedIsStored
    BY DEF IInv
  <1>3. run \in [Engine -> RunRow] /\ run' = [run EXCEPT ![e] = q]
    BY <1>2 DEF Types, Become
  <1>4. /\ run' \in [Engine -> RunRow] /\ run'[e] = q
        /\ \A f \in Engine : f # e => run'[f] = run[f]
    BY <1>3
  <1>5. c \in StoreRow /\ raw' = c.raw
    <2>1. Committed'.raw = raw'
      BY DEF Committed
    <2>. QED
      BY <2>1 DEF StoreOk
  <1>6. Len(batches) \in Nat /\ Len(batches') \in Nat
    <2>1. batches \in Seq(Statuses) /\ batches' \in Seq(Statuses)
      BY <1>2 DEF Types, ReportOk
    <2>. QED
      BY <2>1
  <1>7. Types'
    <2>1. \A f \in Engine : run'[f].stage # "idle" =>
            run'[f].id \in 1 .. Len(batches') /\ run'[f].page > 0
      <3>. SUFFICES ASSUME NEW f \in Engine, f # e, run[f].stage # "idle"
                    PROVE  run[f].id \in 1 .. Len(batches') /\ run[f].page > 0
        BY <1>4
      <3>1. run[f].id \in 1 .. Len(batches) /\ run[f].page > 0
        BY <1>2 DEF Types, At
      <3>. QED
        BY <1>6, <3>1
    <2>2. setting' \in Setting /\ list' \in Seq(Rec) /\ version' \in [Rec -> Nat]
      BY <1>1, <1>2 DEF Types
    <2>. QED
      BY <1>4, <1>5, <2>1, <2>2 DEF Types, At
  <1>8. ListInv'
    BY <1>1, <1>2 DEF ListInv, Distinct
  <1>9. OneAtATime'
    <2>. SUFFICES ASSUME ~setting.overlap, NEW f \in Engine, NEW g \in Engine,
                         run'[f].stage # "idle", run'[g].stage # "idle"
                  PROVE  f = g
      BY <1>1 DEF OneAtATime, At
    <2>1. CASE ~At(e, "idle")
      <3>1. run[f].stage # "idle" /\ run[g].stage # "idle"
        BY <1>4, <2>1 DEF At
      <3>. QED
        BY <1>2, <3>1 DEF OneAtATime, At
    <2>2. CASE \A h \in Engine : At(h, "idle")
      BY <1>4, <2>2 DEF At
    <2>. QED
      BY <2>1, <2>2
  <1>10. StoreOk(Committed)'
    <2>1. StoreOk(c)'
      BY <1>1 DEF StoreOk
    <2>. QED
      BY <2>1 DEF StoreOk
  <1>11. VouchedIsStored'
    <2>. SUFFICES ASSUME NEW x \in vouched'
                  PROVE  c.raw[x[1]] >= x[2]
      BY <1>5 DEF VouchedIsStored
    <2>1. CASE x \in vouched
      <3>1. raw[x[1]] >= x[2]
        BY <1>2, <2>1 DEF VouchedIsStored
      <3>2. x[1] \in Rec /\ x[2] \in Nat
        BY <1>2, <2>1, Pairs DEF Types, ReportOk
      <3>3. raw[x[1]] \in Nat /\ c.raw[x[1]] \in Nat
        <4>1. Committed.raw \in [Rec -> Nat]
          BY <1>2, StoreFacts DEF Types
        <4>2. raw \in [Rec -> Nat]
          BY <4>1 DEF Committed
        <4>. QED
          BY <1>5, <3>2, <4>2, StoreFacts
      <3>. QED
        BY <3>1, <3>2, <3>3
    <2>. QED
      BY <2>1
  <1>12. ASSUME NEW f \in Engine
         PROVE  (RunOk(run[f], Seen(f)) /\ \A r \in Rec : raw[r] <= Seen(f).raw[r])'
    <2>1. CASE f = e
      <3>1. Seen(f)' = s /\ run'[f] = q
        BY <1>4, <2>1 DEF Seen
      <3>2. RunOk(q, s)'
        BY Upstream
      <3>3. RunOk(run[f], Seen(f))'
        BY <3>1, <3>2 DEF RunOk, OpenOk, StoreOk, WriteOk, WalkOk, CoverOk, Paged, Before,
                          Behind, Length, Covered
      <3>. QED
        BY <1>5, <3>1, <3>3
    <2>2. CASE f # e
      <3>1. PICK p : p = run[f]
        OBVIOUS
      <3>2. PICK b : b = Seen(f)
        OBVIOUS
      <3>3. PICK d : d = Seen(f)'
        OBVIOUS
      <3>4. p \in RunRow /\ RunOk(p, b) /\ run'[f] = p
        BY <1>3, <1>4, <2>2, <3>1, <3>2 DEF IInv
      <3>5. /\ b = IF p.tx = << >> THEN Committed ELSE p.tx[1]
            /\ d = IF p.tx = << >> THEN c ELSE p.tx[1]
        BY <3>1, <3>2, <3>3, <3>4 DEF Seen
      <3>6. \A r \in Rec : raw[r] <= b.raw[r]
        BY <3>2 DEF IInv
      <3>7. RunOk(p, d) /\ \A r \in Rec : c.raw[r] <= d.raw[r]
        <4>1. CASE c = Committed
          BY <3>4, <3>5, <3>6, <4>1 DEF Committed
        <4>2. CASE c # Committed
          <5>1. setting.overlap \/ p.stage = "idle"
            BY <1>2, <2>2, <3>1, <4>2 DEF OneAtATime, At
          <5>2. p.tx = << >>
            BY <1>2, <3>4, <5>1, SettingFacts DEF RunOk, OpenOk, Busy, Types
          <5>3. b = Committed /\ d = c
            BY <3>5, <5>2
          <5>4. b.raw = raw
            BY <5>3 DEF Committed
          <5>5. RunOk(p, c)
            BY <1>2, <3>4, <5>1, <5>4, Grown DEF Types
          <5>6. \A r \in Rec : c.raw[r] <= c.raw[r]
            BY <1>5, StoreFacts
          <5>. QED
            BY <5>3, <5>5, <5>6
        <4>. QED
          BY <4>1, <4>2
      <3>8. RunOk(p, d)'
        BY <3>7, Upstream
      <3>9. RunOk(run[f], Seen(f))'
        BY <3>3, <3>4, <3>8 DEF RunOk, OpenOk, StoreOk, WriteOk, WalkOk, CoverOk, Paged, Before,
                                Behind, Length, Covered
      <3>. QED
        BY <1>5, <3>3, <3>7, <3>9
    <2>. QED
      BY <2>1, <2>2
  <1>. QED
    BY <1>7, <1>8, <1>9, <1>10, <1>11, <1>12 DEF IInv

LEMMA At1 ==
  ASSUME IInv, NEW e \in Engine
  PROVE  /\ Types /\ ListInv /\ setting \in Setting /\ StoreOk(Committed) /\ Committed.raw = raw
         /\ run[e] \in RunRow /\ RunOk(run[e], Seen(e)) /\ \A r \in Rec : raw[r] <= Seen(e).raw[r]
         /\ Seen(e) = IF run[e].tx = << >> THEN Committed ELSE run[e].tx[1]
         /\ raw \in [Rec -> Nat]
         /\ ~At(e, "idle") => run[e].id \in 1 .. Len(batches) /\ run[e].page > 0
  <1>1. Committed.raw \in [Rec -> Nat] /\ Committed.raw = raw
    BY StoreFacts DEF IInv, Types, Committed
  <1>. QED
    BY <1>1 DEF IInv, Types, Seen

\* A step that leaves the tables and the reports alone.
LEMMA QuietStep ==
  ASSUME Bounds, IInv, NEW e \in Engine, NEW q \in RunRow, NEW s,
         Become(e, q), UNCHANGED <<upstream, store, report>>, ~At(e, "idle"),
         q.stage # "idle" => q.id = run[e].id /\ q.page > 0,
         s = IF q.tx = << >> THEN Committed ELSE q.tx[1],
         RunOk(q, s), \A r \in Rec : raw[r] <= s.raw[r]
  PROVE  IInv'
  <1>1. PICK c : c = Committed
    OBVIOUS
  <1>2. Committed' = c
    BY <1>1 DEF store, Committed
  <1>3. UNCHANGED upstream /\ batches' = batches /\ logs' = logs /\ point' = point /\ vouched' = vouched
    BY DEF report
  <1>4. Types /\ StoreOk(c) /\ c.raw = raw /\ \A r \in Rec : raw[r] <= c.raw[r]
    BY <1>1, At1
  <1>5. run[e].id \in 1 .. Len(batches)
    BY At1
  <1>6. ReportOk'
    BY <1>3, <1>4 DEF Types, ReportOk
  <1>7. Len(batches) \in Nat
    BY <1>4 DEF Types, ReportOk
  <1>. QED
    BY <1>1, <1>2, <1>3, <1>4, <1>5, <1>6, <1>7, EngineStep

\* A run that asks and writes nothing any more.
LEMMA Resting ==
  ASSUME NEW q \in RunRow, NEW s, q.stage \in {"idle", "fail", "close"}, q.payload = {},
         OpenOk(q), StoreOk(s), \A x \in q.start : x[2] <= version[x[1]]
  PROVE  RunOk(q, s)
  <1>1. WriteOk(q, s)
    <2>1. PageOf({})
      BY FS_EmptySet DEF PageOf
    <2>. QED
      BY <2>1 DEF WriteOk
  <1>2. WalkOk(q)
    BY DEF WalkOk
  <1>3. CoverOk(q, s)
    BY DEF CoverOk
  <1>. QED
    BY <1>1, <1>2, <1>3 DEF RunOk

LEMMA IdleOk ==
  ASSUME NEW s, StoreOk(s)
  PROVE  Idle \in RunRow /\ Idle.stage = "idle" /\ Idle.tx = << >> /\ RunOk(Idle, s)
  <1>1. Idle \in RunRow
    <2>1. << >> \in Seq(StoreRow)
      OBVIOUS
    <2>. QED
      BY <2>1 DEF Idle, RunRow
  <1>2. /\ Idle.stage = "idle" /\ Idle.payload = {} /\ Idle.tx = << >> /\ Idle.start = {}
    BY DEF Idle
  <1>. QED
    BY <1>1, <1>2, Resting DEF OpenOk

LEMMA StartOk ==
  ASSUME NEW p, NEW s, RunOk(p, s)
  PROVE  \A x \in p.start : x[2] <= version[x[1]]
  BY DEF RunOk, CoverOk

LEMMA FailedOk ==
  ASSUME NEW p \in RunRow, NEW s, RunOk(p, s)
  PROVE  /\ Failed(p) \in RunRow /\ Failed(p).id = p.id /\ Failed(p).page = p.page
         /\ Failed(p).tx = p.tx /\ Failed(p).stage = "fail" /\ RunOk(Failed(p), s)
  <1>1. /\ Failed(p) \in RunRow /\ Failed(p).id = p.id /\ Failed(p).page = p.page
        /\ Failed(p).tx = p.tx /\ Failed(p).stage = "fail" /\ Failed(p).payload = {}
        /\ Failed(p).start = p.start
    BY DEF Failed, RunRow
  <1>2. OpenOk(Failed(p))
    BY <1>1 DEF RunOk, OpenOk, Busy
  <1>. QED
    BY <1>1, <1>2, Resting, StartOk DEF RunOk

WithTx(p, t) == [p EXCEPT !.tx = t]

LEMMA TxReplaced ==
  ASSUME NEW p \in RunRow, NEW t \in Seq(StoreRow), NEW q, q = WithTx(p, t)
  PROVE  /\ q \in RunRow /\ q.tx = t
         /\ q.stage = p.stage /\ q.id = p.id /\ q.page = p.page /\ q.got = p.got
         /\ q.total = p.total /\ q.payload = p.payload /\ q.known = p.known
         /\ q.start = p.start /\ q.shifted = p.shifted
  BY DEF RunRow, WithTx

LEMMA FailedAlone ==
  ASSUME NEW p \in RunRow, NEW s, RunOk(p, s), NEW c, StoreOk(c),
         NEW t \in Seq(StoreRow),
         NEW q, q = WithTx(Failed(p), t)
  PROVE  /\ q \in RunRow /\ q.id = p.id /\ q.page = p.page
         /\ q.tx = t /\ q.stage = "fail" /\ (t = << >> => RunOk(q, c))
  <1>1. PICK f : f = Failed(p)
    OBVIOUS
  <1>2. /\ f \in RunRow /\ f.id = p.id /\ f.page = p.page
        /\ f.stage = "fail" /\ f.payload = {} /\ f.start = p.start
    BY <1>1 DEF Failed, RunRow
  <1>3. q = WithTx(f, t)
    BY <1>1
  <1>4. /\ q \in RunRow /\ q.id = p.id /\ q.page = p.page
        /\ q.tx = t /\ q.stage = "fail" /\ q.payload = {} /\ q.start = p.start
    <2>1. f \in RunRow
      BY <1>2
    <2>2. q \in RunRow /\ q.tx = t /\ q.stage = f.stage /\ q.id = f.id /\ q.page = f.page
          /\ q.payload = f.payload /\ q.start = f.start
      BY <1>3, <2>1, TxReplaced
    <2>. QED
      BY <1>2, <2>2
  <1>5. t = << >> => OpenOk(q)
    BY <1>4 DEF OpenOk
  <1>6. \A x \in q.start : x[2] <= version[x[1]]
    BY <1>4, StartOk
  <1>. QED
    BY <1>4, <1>5, <1>6, Resting

AnsweredTo(p, n, k) ==
  [p EXCEPT !.total = k, !.payload = n, !.stage = "write", !.tries = 0]

\* The answer: what the run waits for is on the page, or behind it.
LEMMA AnsweredOk ==
  ASSUME Bounds, Types, ListInv, NEW p \in RunRow, NEW s, p.stage = "ask", p.page > 0,
         RunOk(p, s), NEW n, n = Page(p.page), NEW k, k = Total,
         NEW q, q = AnsweredTo(p, n, k)
  PROVE  q \in RunRow /\ q.id = p.id /\ q.page = p.page /\ q.tx = p.tx /\ RunOk(q, s)
  <1>1. /\ Len(list) \in Nat /\ DOMAIN list = 1 .. Len(list)
        /\ \A i \in DOMAIN list : list[i] \in Rec /\ version[list[i]] \in Nat
    BY ListFacts
  <1>2. /\ setting.served \in Nat \ {0} /\ setting.paging \in {"total", "short", "none"}
    BY SettingFacts DEF Types
  <1>3. p.page \in Nat \ {0} /\ p.got \in Nat /\ p.start \subseteq Snapshot
    BY RunFacts
  <1>4. /\ n \subseteq Snapshot /\ PageOf(n)
        /\ \A x \in n : x[2] = version[x[1]]
        /\ \A i \in DOMAIN list :
             setting.paging = "none" \/ i \in Places(p.page) =>
               \E x \in n : x[1] = list[i] /\ x[2] = version[list[i]]
        /\ setting.paging # "none" =>
             /\ Cardinality(n) <= setting.served
             /\ p.page * setting.served < Len(list) => Cardinality(n) >= setting.served
    BY <1>3, PageFacts
  <1>5. k \in Int /\ (setting.paging = "total" => k = Len(list))
        /\ (setting.paging = "short" => k - 1 = Len(list))
    <2>1. CASE setting.paging = "total"
      <3>1. k = Len(list)
        BY <2>1 DEF Total
      <3>. QED
        BY <1>1, <2>1, <3>1
    <2>2. CASE setting.paging = "short"
      <3>1. k = Len(list) + 1
        BY <2>2 DEF Total
      <3>. QED
        BY <1>1, <2>2, <3>1
    <2>3. CASE setting.paging = "none"
      <3>1. k = None
        BY <2>3 DEF Total
      <3>. QED
        BY <2>3, <3>1 DEF None
    <2>. QED
      BY <1>2, <2>1, <2>2, <2>3
  <1>6. /\ q \in RunRow /\ q.id = p.id /\ q.page = p.page /\ q.tx = p.tx /\ q.got = p.got
        /\ q.total = k /\ q.payload = n /\ q.stage = "write" /\ q.start = p.start
        /\ q.shifted = p.shifted
    BY <1>4, <1>5 DEF RunRow, AnsweredTo
  <1>7. setting.paging # "none" => Length(q) = Len(list)
    BY <1>2, <1>5, <1>6 DEF Length
  <1>8. Behind(q) = p.page * setting.served /\ Before(q) = (p.page - 1) * setting.served
    BY <1>6 DEF Behind, Before
  <1>9. OpenOk(q) /\ StoreOk(s)
    BY <1>6 DEF RunOk, OpenOk, Busy
  <1>10. WriteOk(q, s)
    <2>1. \A x \in n : s.raw[x[1]] <= x[2]
      <3>1. \A x \in n : x[1] \in Rec
        BY <1>4, Pairs
      <3>. QED
        BY <1>4, <1>9, <3>1 DEF StoreOk
    <2>. QED
      BY <1>4, <1>6, <2>1 DEF WriteOk
  <1>11. WalkOk(q)
    <2>. SUFFICES ASSUME setting.paging # "none"
                  PROVE  /\ q.got <= Before(q) /\ Cardinality(q.payload) <= setting.served
                         /\ Length(q) <= Cardinality(Rec)
                         /\ Behind(q) < Length(q) => Cardinality(q.payload) >= setting.served
      BY <1>6 DEF WalkOk
    <2>1. p.got <= Before(p)
      BY DEF RunOk, WalkOk
    <2>2. Before(p) = Before(q)
      BY <1>6 DEF Before
    <2>. QED
      BY <1>4, <1>6, <1>7, <1>8, <2>1, <2>2, ListLength
  <1>12. CoverOk(q, s)
    <2>. SUFFICES ASSUME ~p.shifted, NEW x \in p.start
                  PROVE  Covered(q, s, x)
      BY <1>6, StartOk DEF CoverOk
    <2>1. Covered(p, s, x) /\ x[2] <= version[x[1]]
      BY DEF RunOk, CoverOk
    <2>2. CASE s.raw[x[1]] >= x[2]
      BY <2>2 DEF Covered
    <2>3. CASE Ahead(x[1], Before(p))
      <3>1. PICK i \in DOMAIN list : list[i] = x[1] /\ i > Before(p)
        BY <2>3 DEF Ahead
      <3>2. CASE setting.paging = "none" \/ i \in Places(p.page)
        <4>1. PICK y \in n : y[1] = list[i] /\ y[2] = version[list[i]]
          BY <1>4, <3>2
        <4>2. y[1] = x[1] /\ x[2] <= y[2]
          BY <2>1, <3>1, <4>1
        <4>. QED
          BY <1>6, <4>2 DEF Covered
      <3>3. CASE setting.paging # "none" /\ i \notin Places(p.page)
        <4>1. i \in 1 .. Len(list) /\ i > (p.page - 1) * setting.served
          BY <1>1, <3>1 DEF Before
        <4>2. ~(i <= p.page * setting.served)
          BY <3>3, <4>1 DEF Places
        <4>3. p.page * setting.served \in Nat
          BY <1>2, <1>3
        <4>4. i > Behind(q) /\ Behind(q) < Length(q)
          BY <1>1, <1>7, <1>8, <3>3, <4>1, <4>2, <4>3
        <4>5. Ahead(x[1], Behind(q))
          BY <3>1, <4>4 DEF Ahead
        <4>. QED
          BY <1>6, <3>3, <4>4, <4>5 DEF Covered
      <3>. QED
        BY <3>2, <3>3
    <2>. QED
      BY <2>1, <2>2, <2>3 DEF Covered
  <1>. QED
    BY <1>6, <1>9, <1>10, <1>11, <1>12 DEF RunOk

LookedTo(p, k) ==
  [p EXCEPT !.stage = "upsert", !.known = k]

LEMMA LookedOk ==
  ASSUME NEW p \in RunRow, NEW s, p.stage = "write", RunOk(p, s), NEW k, k = Stored(s),
         NEW q, q = LookedTo(p, k)
  PROVE  q \in RunRow /\ q.id = p.id /\ q.page = p.page /\ q.tx = p.tx /\ RunOk(q, s)
  <1>1. k \subseteq Rec
    BY DEF Stored
  <1>2. /\ q \in RunRow /\ q.id = p.id /\ q.page = p.page /\ q.tx = p.tx /\ q.got = p.got
        /\ q.total = p.total /\ q.payload = p.payload /\ q.stage = "upsert" /\ q.start = p.start
        /\ q.shifted = p.shifted /\ q.known = k
    BY <1>1 DEF RunRow, LookedTo
  <1>3. OpenOk(q)
    BY <1>2 DEF RunOk, OpenOk, Busy
  <1>4. WriteOk(q, s)
    BY <1>2 DEF RunOk, WriteOk
  <1>5. WalkOk(q)
    BY <1>2 DEF RunOk, WalkOk, Before, Behind, Length
  <1>6. CoverOk(q, s)
    BY <1>2 DEF RunOk, CoverOk, Covered, Behind, Length
  <1>. QED
    BY <1>2, <1>3, <1>4, <1>5, <1>6 DEF RunOk

\* What a write leaves in the tables, or in its transaction.
LEMMA WriteFacts ==
  ASSUME Bounds, Types, NEW p \in RunRow, NEW s, p.stage = "upsert", RunOk(p, s),
         NEW t, t = Written(s, p.payload, p.known)
  PROVE  /\ StoreOk(t) /\ \A r \in Rec : s.raw[r] <= t.raw[r]
         /\ \A x \in p.payload : x[2] <= t.raw[x[1]]
         /\ ~setting.overlap => \A x \in p.payload : t.raw[x[1]] = x[2]
  <1>1. /\ p.payload \in SUBSET Snapshot /\ PageOf(p.payload) /\ p.known \in SUBSET Rec
        /\ StoreOk(s) /\ setting \in Setting
        /\ ~setting.overlap => p.known = Stored(s) /\ \A x \in p.payload : s.raw[x[1]] <= x[2]
    BY RunFacts DEF RunOk, WriteOk, Types
  <1>2. StoreOk(t)
    BY <1>1, WrittenOk
  <1>3. /\ \A r \in Rec : s.raw[r] <= t.raw[r]
        /\ \A x \in p.payload : x[2] <= t.raw[x[1]]
        /\ ~setting.overlap => \A x \in p.payload : t.raw[x[1]] = x[2]
    BY <1>1, WrittenRaw
  <1>. QED
    BY <1>2, <1>3

\* Stored before is stored after.
LEMMA StaysStored ==
  ASSUME NEW s, NEW t, StoreOk(s), StoreOk(t), \A r \in Rec : s.raw[r] <= t.raw[r],
         NEW x \in Snapshot, s.raw[x[1]] >= x[2]
  PROVE  t.raw[x[1]] >= x[2]
  <1>1. x[1] \in Rec /\ x[2] \in Nat
    BY Pairs
  <1>2. s.raw[x[1]] \in Nat /\ t.raw[x[1]] \in Nat /\ s.raw[x[1]] <= t.raw[x[1]]
    BY <1>1, StoreFacts DEF StoreOk
  <1>. QED
    BY <1>1, <1>2

TurnedTo(p, g, k) == [p EXCEPT !.stage = "turn", !.got = g, !.tries = 0, !.known = k]

LEMMA StageTurned ==
  ASSUME NEW p \in RunRow, NEW g \in Nat, NEW k \in SUBSET Rec, NEW q, q = TurnedTo(p, g, k)
  PROVE  /\ q \in RunRow /\ q.id = p.id /\ q.page = p.page /\ q.tx = p.tx /\ q.got = g
         /\ q.total = p.total /\ q.payload = p.payload /\ q.stage = "turn" /\ q.start = p.start
         /\ q.shifted = p.shifted
  BY DEF RunRow, TurnedTo

LEMMA TurnedFacts ==
  ASSUME NEW p \in RunRow, Cardinality(p.payload) \in Nat, NEW q, q = Turned(p)
  PROVE  /\ q \in RunRow /\ q.id = p.id /\ q.page = p.page /\ q.tx = p.tx
         /\ q.got = p.got + Cardinality(p.payload) /\ q.total = p.total
         /\ q.payload = p.payload /\ q.stage = "turn" /\ q.start = p.start
         /\ q.shifted = p.shifted
  <1>1. Turned(p) = TurnedTo(p, p.got + Cardinality(p.payload), {})
    BY DEF Turned, TurnedTo
  <1>2. p.got + Cardinality(p.payload) \in Nat /\ {} \in SUBSET Rec
    BY RunFacts
  <1>. QED
    BY <1>1, <1>2, StageTurned

\* A page that is stored.
LEMMA TurnedOk ==
  ASSUME Bounds, Types, NEW p \in RunRow, NEW s, p.stage = "upsert", p.page > 0, RunOk(p, s),
         NEW t, t = Written(s, p.payload, p.known),
         NEW q \in RunRow, q.page = p.page, q.got = p.got + Cardinality(p.payload),
         q.total = p.total, q.payload = p.payload, q.stage = "turn", q.start = p.start,
         q.shifted = p.shifted, OpenOk(q)
  PROVE  RunOk(q, t)
  <1>1. /\ StoreOk(t) /\ \A r \in Rec : s.raw[r] <= t.raw[r]
        /\ \A x \in p.payload : x[2] <= t.raw[x[1]]
    BY WriteFacts
  <1>2. StoreOk(s) /\ PageOf(p.payload)
    BY DEF RunOk, WriteOk
  <1>3. Cardinality(p.payload) \in Nat
    BY <1>2, FS_CardinalityType DEF PageOf
  <1>4. setting.served \in Nat \ {0} /\ p.page \in Nat /\ p.got \in Nat
    BY SettingFacts, RunFacts DEF Types
  <1>5. WriteOk(q, t)
    BY <1>2 DEF WriteOk
  <1>6. Behind(q) = Behind(p) /\ Length(q) = Length(p)
    BY DEF Behind, Length
  <1>7. WalkOk(q)
    <2>. SUFFICES ASSUME setting.paging # "none"
                  PROVE  /\ q.got <= Behind(q) /\ Length(q) <= Cardinality(Rec)
                         /\ Behind(q) < Length(q) => Cardinality(q.payload) >= setting.served
      BY DEF WalkOk
    <2>1. /\ p.got <= Before(p) /\ Cardinality(p.payload) <= setting.served
          /\ Length(p) <= Cardinality(Rec)
          /\ Behind(p) < Length(p) => Cardinality(p.payload) >= setting.served
      BY DEF RunOk, WalkOk
    <2>2. Before(p) \in Int /\ Behind(p) = Before(p) + setting.served
      BY <1>4 DEF Before, Behind
    <2>3. q.got <= Behind(q)
      BY <1>3, <1>4, <1>6, <2>1, <2>2
    <2>. QED
      BY <1>6, <2>1, <2>3
  <1>8. CoverOk(q, t)
    <2>. SUFFICES ASSUME ~p.shifted, NEW x \in p.start
                  PROVE  Covered(q, t, x)
      BY StartOk DEF CoverOk
    <2>1. Covered(p, s, x) /\ x \in Snapshot
      BY RunFacts DEF RunOk, CoverOk
    <2>2. CASE s.raw[x[1]] >= x[2]
      BY <1>1, <1>2, <2>1, <2>2, StaysStored DEF Covered
    <2>3. CASE \E y \in p.payload : y[1] = x[1] /\ x[2] <= y[2]
      <3>1. PICK y \in p.payload : y[1] = x[1] /\ x[2] <= y[2]
        BY <2>3
      <3>2. y[2] <= t.raw[x[1]] /\ y[2] \in Nat /\ x[1] \in Rec /\ x[2] \in Nat
        BY <1>1, <2>1, <3>1, RunFacts, Pairs
      <3>3. t.raw[x[1]] \in Nat
        BY <1>1, <3>2, StoreFacts DEF StoreOk
      <3>. QED
        BY <3>1, <3>2, <3>3 DEF Covered
    <2>4. CASE setting.paging # "none" /\ Behind(p) < Length(p) /\ Ahead(x[1], Behind(p))
      BY <1>6, <2>4 DEF Covered
    <2>. QED
      BY <2>1, <2>2, <2>3, <2>4 DEF Covered
  <1>. QED
    BY <1>1, <1>5, <1>7, <1>8 DEF RunOk

RetriedTo(p) ==
  [p EXCEPT !.stage = "write", !.tries = 1, !.known = {}]

\* A page that is written once more.
LEMMA RetriedOk ==
  ASSUME Bounds, Types, NEW p \in RunRow, NEW s, p.stage = "upsert", RunOk(p, s), Paged,
         NEW t, t = s \/ t = Written(s, p.payload, p.known),
         NEW q, q = RetriedTo(p)
  PROVE  q \in RunRow /\ q.id = p.id /\ q.page = p.page /\ q.tx = p.tx /\ RunOk(q, t)
  <1>1. /\ q \in RunRow /\ q.id = p.id /\ q.page = p.page /\ q.tx = p.tx /\ q.got = p.got
        /\ q.total = p.total /\ q.payload = p.payload /\ q.stage = "write" /\ q.start = p.start
        /\ q.shifted = p.shifted
    <2>1. {} \subseteq Rec
      OBVIOUS
    <2>. QED
      BY <2>1 DEF RunRow, RetriedTo
  <1>2. /\ StoreOk(s) /\ StoreOk(t) /\ \A r \in Rec : s.raw[r] <= t.raw[r]
        /\ ~setting.overlap => \A x \in p.payload : t.raw[x[1]] <= x[2]
    <2>1. CASE t = s
      <3>1. \A r \in Rec : s.raw[r] \in Nat
        BY StoreFacts DEF RunOk, StoreOk
      <3>. QED
        BY <2>1, <3>1 DEF RunOk, WriteOk
    <2>2. CASE t = Written(s, p.payload, p.known)
      <3>1. /\ StoreOk(t) /\ \A r \in Rec : s.raw[r] <= t.raw[r]
            /\ ~setting.overlap => \A x \in p.payload : t.raw[x[1]] = x[2]
        BY <2>2, WriteFacts
      <3>2. \A x \in p.payload : x[2] \in Nat
        BY RunFacts, Pairs
      <3>3. ~setting.overlap => \A x \in p.payload : t.raw[x[1]] <= x[2]
        BY <3>1, <3>2
      <3>. QED
        BY <3>1, <3>3 DEF RunOk
    <2>. QED
      BY <2>1, <2>2
  <1>3. OpenOk(q)
    BY <1>1 DEF RunOk, OpenOk, Busy
  <1>4. WriteOk(q, t)
    BY <1>1, <1>2 DEF RunOk, WriteOk
  <1>5. WalkOk(q)
    BY <1>1 DEF RunOk, WalkOk, Before, Behind, Length
  <1>6. CoverOk(q, t)
    <2>. SUFFICES ASSUME ~p.shifted, NEW x \in p.start
                  PROVE  Covered(q, t, x)
      BY <1>1, StartOk DEF CoverOk
    <2>1. Covered(p, s, x) /\ x \in Snapshot
      BY RunFacts DEF RunOk, CoverOk
    <2>2. CASE s.raw[x[1]] >= x[2]
      BY <1>2, <2>1, <2>2, StaysStored DEF Covered
    <2>3. CASE ~(s.raw[x[1]] >= x[2])
      BY <1>1, <2>1, <2>3 DEF Covered, Behind, Length
    <2>. QED
      BY <2>2, <2>3
  <1>. QED
    BY <1>1, <1>2, <1>3, <1>4, <1>5, <1>6 DEF RunOk

NextTo(p, n, k) ==
  [p EXCEPT !.stage = "ask", !.page = k, !.payload = n]

\* The next page: what was behind the last one is before nothing else.
LEMMA NextOk ==
  ASSUME Bounds, Types, NEW p \in RunRow, NEW s, p.stage = "turn", p.page > 0, RunOk(p, s),
         More(p), NEW n \in SUBSET Snapshot, PageOf(n), NEW k \in Nat, k > 0, k - 1 = p.page,
         NEW q, q = NextTo(p, n, k)
  PROVE  q \in RunRow /\ q.id = p.id /\ q.page > 0 /\ q.tx = p.tx /\ RunOk(q, s)
  <1>1. /\ q \in RunRow /\ q.id = p.id /\ q.page = k /\ q.tx = p.tx /\ q.got = p.got
        /\ q.payload = n /\ q.stage = "ask" /\ q.start = p.start /\ q.shifted = p.shifted
    BY DEF RunRow, NextTo
  <1>2. OpenOk(q) /\ StoreOk(s)
    BY <1>1 DEF RunOk, OpenOk, Busy
  <1>3. WriteOk(q, s)
    BY <1>1 DEF WriteOk
  <1>4. Before(q) = Behind(p)
    BY <1>1 DEF Before, Behind
  <1>5. WalkOk(q)
    BY <1>1, <1>4 DEF RunOk, WalkOk
  <1>6. CoverOk(q, s)
    <2>. SUFFICES ASSUME ~p.shifted, NEW x \in p.start
                  PROVE  Covered(q, s, x)
      BY <1>1, StartOk DEF CoverOk
    <2>1. Covered(p, s, x)
      BY DEF RunOk, CoverOk
    <2>. QED
      BY <1>1, <1>4, <2>1 DEF Covered
  <1>. QED
    BY <1>1, <1>2, <1>3, <1>5, <1>6 DEF RunOk

LEMMA TimesGrows ==
  ASSUME NEW a \in Nat, NEW b \in Nat, NEW c \in Nat, b <= c
  PROVE  a * b <= a * c /\ b * a <= c * a
  OBVIOUS

\* A run that ends of itself has everything it began with.
LEMMA EndedOk ==
  ASSUME Bounds, Types, NEW p \in RunRow, NEW s, p.stage = "turn", p.page > 0, RunOk(p, s),
         ~More(p), NotTruncated(p), ~p.shifted, NEW x \in p.start
  PROVE  s.raw[x[1]] >= x[2]
  <1>1. /\ setting.paging \in {"total", "short", "none"}
        /\ setting.served \in Nat \ {0} /\ setting.served <= PageSize /\ PageSize \in Nat \ {0}
        /\ setting.maxPages # None => setting.maxPages \in Nat
        /\ setting.paging = "short" =>
             /\ setting.served = PageSize
             /\ setting.maxPages # None => setting.maxPages * PageSize >= Cardinality(Rec)
    BY SettingFacts DEF Types
  <1>2. p.page \in Nat \ {0} /\ p.got \in Nat /\ p.total \in Int
    BY RunFacts
  <1>3. Covered(p, s, x)
    BY DEF RunOk, CoverOk
  <1>4. Cardinality(Rec) \in Nat /\ Cardinality(p.payload) \in Nat
    BY FS_CardinalityType DEF Bounds, RunOk, WriteOk, PageOf
  <1>. SUFFICES ASSUME setting.paging # "none", Behind(p) < Length(p)
                PROVE  FALSE
    BY <1>3 DEF Covered
  <1>5. /\ p.got <= Behind(p) /\ Length(p) <= Cardinality(Rec)
        /\ Cardinality(p.payload) >= setting.served
    BY DEF RunOk, WalkOk
  <1>6. Behind(p) \in Nat /\ Behind(p) = p.page * setting.served
    BY <1>1, <1>2 DEF Behind
  <1>7. CASE setting.paging = "total"
    <2>1. Length(p) = p.total /\ p.got >= p.total
      BY <1>7 DEF Length, NotTruncated
    <2>. QED
      BY <1>2, <1>5, <1>6, <2>1
  <1>8. CASE setting.paging = "short"
    <2>1. Length(p) = p.total - 1 /\ Behind(p) = p.page * PageSize
      BY <1>1, <1>6, <1>8 DEF Length
    <2>2. CASE ~UnderMaxPages(p)
      <3>1. setting.maxPages \in Nat /\ p.page >= setting.maxPages
        BY <1>1, <1>2, <2>2 DEF UnderMaxPages
      <3>2. p.page * PageSize >= setting.maxPages * PageSize
        BY <1>1, <1>2, <3>1, TimesGrows
      <3>3. setting.maxPages * PageSize >= Cardinality(Rec) /\ setting.maxPages * PageSize \in Nat
        BY <1>1, <1>8, <2>2, <3>1 DEF UnderMaxPages
      <3>. QED
        BY <1>2, <1>4, <1>5, <1>6, <2>1, <3>2, <3>3
    <2>3. CASE ShortPageComplete(p)
      BY <1>1, <1>4, <1>5, <1>8, <2>3 DEF ShortPageComplete
    <2>4. CASE ~(p.page * PageSize < p.total)
      BY <1>2, <1>6, <2>1, <2>4
    <2>. QED
      BY <1>8, <2>2, <2>3, <2>4 DEF More
  <1>. QED
    BY <1>1, <1>7, <1>8

\* The first page of a run.
BegunTo(z, i, n, t) ==
  [z EXCEPT !.stage = "ask", !.id = i, !.page = 1, !.start = n, !.tx = t]

LEMMA BegunFacts ==
  ASSUME NEW z \in RunRow, NEW i \in Nat, NEW n \in SUBSET Snapshot, NEW t \in Seq(StoreRow),
         NEW q, q = BegunTo(z, i, n, t)
  PROVE  /\ q \in RunRow /\ q.id = i /\ q.page = 1 /\ q.tx = t /\ q.got = z.got
         /\ q.payload = z.payload /\ q.stage = "ask" /\ q.start = n /\ q.shifted = z.shifted
  BY DEF RunRow, BegunTo

LEMMA IdleRow ==
  Idle \in RunRow /\ Idle.got = 0 /\ Idle.payload = {}
  <1>1. << >> \in Seq(StoreRow)
    OBVIOUS
  <1>. QED
    BY <1>1 DEF Idle, RunRow

LEMMA BegunIdle ==
  ASSUME NEW i \in Nat, NEW n \in SUBSET Snapshot, NEW t \in Seq(StoreRow)
  PROVE  \E q \in RunRow :
           /\ q = BegunTo(Idle, i, n, t)
           /\ q.id = i /\ q.page = 1 /\ q.tx = t /\ q.got = 0
           /\ q.payload = {} /\ q.stage = "ask" /\ q.start = n
  <1>1. PICK z : z = Idle
    OBVIOUS
  <1>2. z \in RunRow /\ z.got = 0 /\ z.payload = {}
    BY <1>1, IdleRow
  <1>3. PICK q : q = BegunTo(z, i, n, t)
    OBVIOUS
  <1>4. /\ q \in RunRow /\ q.id = i /\ q.page = 1 /\ q.tx = t /\ q.got = z.got
        /\ q.payload = z.payload /\ q.stage = "ask" /\ q.start = n
    BY <1>2, <1>3, BegunFacts
  <1>5. q = BegunTo(Idle, i, n, t)
    BY <1>1, <1>3
  <1>6. q.got = 0 /\ q.payload = {}
    BY <1>2, <1>4
  <1>. QED
    BY <1>4, <1>5, <1>6

LEMMA NowFacts ==
  ASSUME Types
  PROVE  /\ Now \in SUBSET Snapshot
         /\ \A x \in Now : x[2] <= version[x[1]] /\ Ahead(x[1], 0)
  <1>1. /\ DOMAIN list = 1 .. Len(list)
        /\ \A j \in DOMAIN list : list[j] \in Rec /\ version[list[j]] \in Nat
    BY ListFacts
  <1>2. Now \subseteq Snapshot
    BY <1>1 DEF Now, Snapshot
  <1>3. ASSUME NEW x \in Now
        PROVE  x[2] <= version[x[1]] /\ Ahead(x[1], 0)
    <2>1. PICK j \in DOMAIN list : x = <<list[j], version[list[j]]>>
      BY DEF Now
    <2>2. x[1] = list[j] /\ x[2] = version[list[j]] /\ j > 0 /\ x[2] \in Nat
      BY <1>1, <2>1
    <2>. QED
      BY <2>2 DEF Ahead
  <1>. QED
    BY <1>2, <1>3

LEMMA BegunOk ==
  ASSUME Bounds, Types, NEW c, StoreOk(c), NEW i \in Nat, NEW n \in SUBSET Snapshot,
         \A x \in n : x[2] <= version[x[1]] /\ Ahead(x[1], 0),
         NEW t \in Seq(StoreRow), t # << >> => ~Paged /\ t[1] = c,
         NEW q \in RunRow, q.page = 1, q.tx = t, q.got = 0, q.payload = {}, q.stage = "ask",
         q.start = n
  PROVE  RunOk(q, c) /\ c = IF q.tx = << >> THEN c ELSE q.tx[1]
  <1>1. OpenOk(q)
    BY DEF OpenOk, Busy
  <1>2. WriteOk(q, c)
    <2>1. PageOf({})
      BY FS_EmptySet DEF PageOf
    <2>. QED
      BY <2>1 DEF WriteOk
  <1>3. Before(q) = 0
    BY SettingFacts DEF Before, Types
  <1>4. WalkOk(q)
    BY <1>3 DEF WalkOk
  <1>5. CoverOk(q, c)
    BY <1>3 DEF CoverOk, Covered
  <1>. QED
    BY <1>1, <1>2, <1>4, <1>5 DEF RunOk

-----------------------------------------------------------------------------
(* The steps.                                                               *)

LEMMA BecomeOf == ASSUME NEW e, NEW q, NEW r, Become(e, r), q = r
                  PROVE  Become(e, q)
  OBVIOUS

LEMMA AnswerStep ==
  ASSUME Bounds, IInv, NEW e \in Engine, Answer(e)
  PROVE  IInv'
  <1>1. PICK p : p = run[e]
    OBVIOUS
  <1>2. PICK s : s = Seen(e)
    OBVIOUS
  <1>3. /\ Types /\ ListInv /\ p \in RunRow /\ RunOk(p, s) /\ \A r \in Rec : raw[r] <= s.raw[r]
        /\ s = IF p.tx = << >> THEN Committed ELSE p.tx[1]
        /\ p.stage = "ask" /\ p.page > 0 /\ ~At(e, "idle")
    BY <1>1, <1>2, At1 DEF Answer, At
  <1>4. PICK n : n = Page(p.page)
    OBVIOUS
  <1>5. PICK k : k = Total
    OBVIOUS
  <1>6. PICK q : q = AnsweredTo(p, n, k)
    OBVIOUS
  <1>7. q \in RunRow /\ q.id = p.id /\ q.page = p.page /\ q.tx = p.tx /\ RunOk(q, s)
    BY <1>3, <1>4, <1>5, <1>6, AnsweredOk
  <1>8. UNCHANGED <<upstream, store, report>>
    BY DEF Answer
  <1>9. CASE Become(e, q)
    BY <1>1, <1>3, <1>7, <1>8, <1>9, QuietStep
  <1>10. CASE Become(e, Failed(q))
    <2>1. PICK f : f = Failed(q)
      OBVIOUS
    <2>2. /\ f \in RunRow /\ f.id = q.id /\ f.page = q.page /\ f.tx = q.tx /\ RunOk(f, s)
      BY <1>7, <2>1, FailedOk
    <2>. QED
      BY <1>1, <1>3, <1>7, <1>8, <1>10, <2>1, <2>2, QuietStep
  <1>11. Become(e, q) \/ Become(e, Failed(q))
    BY <1>1, <1>4, <1>5, <1>6 DEF Answer, AnsweredTo
  <1>. QED
    BY <1>9, <1>10, <1>11

\* The steps that leave a run failed, and nothing else.
LEMMA FailStep ==
  ASSUME Bounds, IInv, NEW e \in Engine, ~At(e, "idle"), Become(e, Failed(run[e])),
         UNCHANGED <<upstream, store, report>>
  PROVE  IInv'
  <1>1. PICK p : p = run[e]
    OBVIOUS
  <1>2. PICK s : s = Seen(e)
    OBVIOUS
  <1>3. /\ p \in RunRow /\ RunOk(p, s) /\ \A r \in Rec : raw[r] <= s.raw[r]
        /\ s = IF p.tx = << >> THEN Committed ELSE p.tx[1]
        /\ p.page > 0
    BY <1>1, <1>2, At1
  <1>4. PICK q : q = Failed(p)
    OBVIOUS
  <1>5. q \in RunRow /\ q.id = p.id /\ q.page = p.page /\ q.tx = p.tx /\ RunOk(q, s)
    BY <1>3, <1>4, FailedOk
  <1>6. Become(e, q)
    BY <1>1, <1>4
  <1>. QED
    BY <1>1, <1>3, <1>5, <1>6, QuietStep

LEMMA LookUpStep ==
  ASSUME Bounds, IInv, NEW e \in Engine, LookUp(e)
  PROVE  IInv'
  <1>1. PICK p : p = run[e]
    OBVIOUS
  <1>2. PICK s : s = Seen(e)
    OBVIOUS
  <1>3. /\ p \in RunRow /\ RunOk(p, s) /\ \A r \in Rec : raw[r] <= s.raw[r]
        /\ s = IF p.tx = << >> THEN Committed ELSE p.tx[1]
        /\ p.stage = "write" /\ p.page > 0 /\ ~At(e, "idle")
    BY <1>1, <1>2, At1 DEF LookUp, At
  <1>4. PICK k : k = Stored(s)
    OBVIOUS
  <1>5. PICK q : q = LookedTo(p, k)
    OBVIOUS
  <1>6. q \in RunRow /\ q.id = p.id /\ q.page = p.page /\ q.tx = p.tx /\ RunOk(q, s)
    BY <1>3, <1>4, <1>5, LookedOk
  <1>7. Become(e, q) /\ UNCHANGED <<upstream, store, report>>
    BY <1>1, <1>2, <1>4, <1>5 DEF LookUp, LookedTo
  <1>. QED
    BY <1>1, <1>3, <1>6, <1>7, QuietStep

LEMMA NextPageStep ==
  ASSUME Bounds, IInv, NEW e \in Engine, NextPage(e)
  PROVE  IInv'
  <1>1. PICK p : p = run[e]
    OBVIOUS
  <1>2. PICK s : s = Seen(e)
    OBVIOUS
  <1>3. /\ Types /\ p \in RunRow /\ RunOk(p, s) /\ \A r \in Rec : raw[r] <= s.raw[r]
        /\ s = IF p.tx = << >> THEN Committed ELSE p.tx[1]
        /\ p.stage = "turn" /\ p.page > 0 /\ ~At(e, "idle") /\ More(p)
    BY <1>1, <1>2, At1 DEF NextPage, At
  <1>4. PICK n : n = {}
    OBVIOUS
  <1>5. PICK k : k = p.page + 1
    OBVIOUS
  <1>6. PICK q : q = NextTo(p, n, k)
    OBVIOUS
  <1>7. q \in RunRow /\ q.id = p.id /\ q.page > 0 /\ q.tx = p.tx /\ RunOk(q, s)
    <2>1. n \in SUBSET Snapshot /\ PageOf(n)
      BY <1>4, FS_EmptySet DEF PageOf
    <2>2. k \in Nat /\ k > 0 /\ k - 1 = p.page
      BY <1>3, <1>5, RunFacts
    <2>. QED
      BY <1>3, <1>6, <2>1, <2>2, NextOk
  <1>8. Become(e, q) /\ UNCHANGED <<upstream, store, report>>
    BY <1>1, <1>4, <1>5, <1>6 DEF NextPage, NextTo
  <1>. QED
    BY <1>1, <1>3, <1>7, <1>8, QuietStep

LEMMA LoseTransactionStep ==
  ASSUME Bounds, IInv, NEW e \in Engine, LoseTransaction(e)
  PROVE  IInv'
  <1>1. PICK p : p = run[e]
    OBVIOUS
  <1>2. PICK s : s = Seen(e)
    OBVIOUS
  <1>3. PICK c : c = Committed
    OBVIOUS
  <1>4. /\ p \in RunRow /\ RunOk(p, s) /\ StoreOk(c) /\ c.raw = raw /\ raw \in [Rec -> Nat]
        /\ p.page > 0 /\ ~At(e, "idle")
    BY <1>1, <1>2, <1>3, At1 DEF LoseTransaction, At
  <1>5. << >> \in Seq(StoreRow)
    OBVIOUS
  <1>6. PICK q : q = WithTx(Failed(p), << >>)
    OBVIOUS
  <1>7. /\ q \in RunRow /\ q.id = p.id /\ q.page = p.page /\ q.tx = << >> /\ RunOk(q, c)
    <2>1. \E t \in Seq(StoreRow) : t = << >> /\ q = WithTx(Failed(p), t)
      BY <1>5, <1>6, Zenon
    <2>2. PICK t \in Seq(StoreRow) : t = << >> /\ q = WithTx(Failed(p), t)
      BY <2>1
    <2>3. q = WithTx(Failed(p), t)
      BY <2>2
    <2>4. /\ q \in RunRow /\ q.id = p.id /\ q.page = p.page
          /\ q.tx = t /\ (t = << >> => RunOk(q, c))
      BY <1>4, <2>3, FailedAlone
    <2>. QED
      BY <2>2, <2>4
  <1>8. Become(e, q) /\ UNCHANGED <<upstream, store, report>>
    BY <1>1, <1>6 DEF LoseTransaction, WithTx
  <1>9. \A r \in Rec : raw[r] <= c.raw[r]
    BY <1>4
  <1>. QED
    BY <1>1, <1>3, <1>4, <1>7, <1>8, <1>9, QuietStep

LEMMA DieStep ==
  ASSUME Bounds, IInv, NEW e \in Engine, Die(e)
  PROVE  IInv'
  <1>1. PICK c : c = Committed
    OBVIOUS
  <1>2. StoreOk(c) /\ c.raw = raw /\ raw \in [Rec -> Nat]
    BY <1>1, At1
  <1>3. PICK q : q = Idle
    OBVIOUS
  <1>4. q \in RunRow /\ q.stage = "idle" /\ q.tx = << >> /\ RunOk(q, c)
    BY <1>2, <1>3, IdleOk
  <1>5. Become(e, q) /\ UNCHANGED <<upstream, store, report>> /\ ~At(e, "idle")
    BY <1>3 DEF Die
  <1>6. \A r \in Rec : raw[r] <= c.raw[r]
    BY <1>2
  <1>. QED
    BY <1>1, <1>4, <1>5, <1>6, QuietStep

LEMMA PutFacts ==
  ASSUME NEW t \in StoreRow, Put(t)
  PROVE  Committed' = t
  <1>1. Committed' = [raw |-> t.raw, history |-> t.history, count |-> t.count]
    BY DEF Put, Committed
  <1>2. t = [raw |-> t.raw, history |-> t.history, count |-> t.count]
    BY DEF StoreRow
  <1>. QED
    BY <1>1, <1>2

LEMMA SameReport ==
  ASSUME Types, UNCHANGED report
  PROVE  /\ ReportOk' /\ Len(batches) <= Len(batches') /\ batches' = batches /\ vouched' = vouched
         /\ Len(batches) \in Nat
  <1>1. batches' = batches /\ logs' = logs /\ point' = point /\ vouched' = vouched
    BY DEF report
  <1>2. ReportOk'
    BY <1>1 DEF Types, ReportOk
  <1>3. Len(batches) \in Nat
    BY DEF Types, ReportOk
  <1>. QED
    BY <1>1, <1>2, <1>3

LEMMA AtOf ==
  ASSUME IInv, NEW e \in Engine, ~At(e, "idle")
  PROVE  /\ run[e].page > 0 /\ run[e].id \in 1 .. Len(batches)
         /\ \A r \in Rec : Seen(e).raw[r] \in Nat /\ raw[r] \in Nat
  <1>1. Seen(e).raw \in [Rec -> Nat] /\ raw \in [Rec -> Nat]
    BY At1, StoreFacts DEF RunOk, StoreOk
  <1>. QED
    BY <1>1, At1

LEMMA WriteStep ==
  ASSUME Bounds, IInv, NEW e \in Engine, Write(e)
  PROVE  IInv'
  <1>1. PICK p : p = run[e]
    OBVIOUS
  <1>2. PICK s : s = Seen(e)
    OBVIOUS
  <1>3. /\ Types /\ p \in RunRow /\ RunOk(p, s) /\ \A r \in Rec : raw[r] <= s.raw[r]
        /\ s = IF p.tx = << >> THEN Committed ELSE p.tx[1]
        /\ p.stage = "upsert" /\ ~At(e, "idle")
    BY <1>1, <1>2, At1 DEF Write, At
  <1>4. p.page > 0 /\ p.id \in 1 .. Len(batches) /\ \A r \in Rec : s.raw[r] \in Nat /\ raw[r] \in Nat
    BY <1>1, <1>2, <1>3, AtOf
  <1>5. PICK t : t = Written(s, p.payload, p.known)
    OBVIOUS
  <1>6. StoreOk(t) /\ t \in StoreRow /\ \A r \in Rec : s.raw[r] <= t.raw[r]
    BY <1>3, <1>5, WriteFacts DEF StoreOk
  <1>7. \A r \in Rec : raw[r] <= t.raw[r] /\ t.raw[r] <= t.raw[r]
    <2>1. \A r \in Rec : t.raw[r] \in Nat
      BY <1>6, StoreFacts
    <2>. QED
      BY <1>3, <1>4, <1>6, <2>1
  <1>8. PICK g : g = Turned(p)
    OBVIOUS
  <1>9. /\ g \in RunRow /\ g.id = p.id /\ g.page = p.page /\ g.tx = p.tx
        /\ g.got = p.got + Cardinality(p.payload) /\ g.total = p.total
        /\ g.payload = p.payload /\ g.stage = "turn" /\ g.start = p.start /\ g.shifted = p.shifted
    <2>1. Cardinality(p.payload) \in Nat
      BY <1>3, FS_CardinalityType DEF RunOk, WriteOk, PageOf
    <2>. QED
      BY <1>3, <1>8, <2>1, TurnedFacts
  <1>10. UNCHANGED <<upstream, report>>
    BY DEF Write
  <1>11. ReportOk' /\ Len(batches) <= Len(batches') /\ batches' = batches /\ vouched' = vouched
    BY <1>3, <1>10, SameReport DEF report
  <1>12. CASE Paged
    <2>1. Put(t) /\ Become(e, g)
      BY <1>1, <1>2, <1>5, <1>8, <1>12 DEF Write
    <2>2. Committed' = t
      BY <1>6, <2>1, PutFacts
    <2>3. p.tx = << >> /\ OpenOk(g)
      BY <1>3, <1>9, <1>12 DEF RunOk, OpenOk
    <2>4. RunOk(g, t)
      BY <1>3, <1>4, <1>5, <1>9, <2>3, TurnedOk
    <2>5. t = IF g.tx = << >> THEN t ELSE g.tx[1]
      BY <1>9, <2>3
    <2>6. \A x \in vouched' : x \in vouched \/ t.raw[x[1]] >= x[2]
      BY <1>11
    <2>7. g.stage # "idle" => g.id \in 1 .. Len(batches') /\ g.page > 0
      BY <1>4, <1>9, <1>11
    <2>. QED
      BY <1>3, <1>6, <1>7, <1>9, <1>10, <1>11, <2>1, <2>2, <2>4, <2>5, <2>6, <2>7, EngineStep
  <1>13. CASE ~Paged
    <2>1. PICK u : u = <<t>>
      OBVIOUS
    <2>2. u \in Seq(StoreRow) /\ u # << >> /\ u[1] = t
      BY <1>6, <2>1
    <2>3. PICK q : q = WithTx(g, u)
      OBVIOUS
    <2>4. UNCHANGED store /\ Become(e, q)
      BY <1>1, <1>2, <1>5, <1>8, <1>13, <2>1, <2>3 DEF Write, WithTx
    <2>5. /\ q \in RunRow /\ q.tx = u /\ q.stage = g.stage /\ q.id = g.id /\ q.page = g.page
          /\ q.got = g.got /\ q.total = g.total /\ q.payload = g.payload /\ q.start = g.start
          /\ q.shifted = g.shifted
      BY <1>9, <2>2, <2>3, TxReplaced
    <2>6. OpenOk(q)
      BY <1>9, <1>13, <2>5 DEF OpenOk, Busy
    <2>7. RunOk(q, t)
      BY <1>3, <1>4, <1>5, <1>9, <2>5, <2>6, TurnedOk
    <2>8. t = IF q.tx = << >> THEN Committed ELSE q.tx[1]
      BY <2>2, <2>5
    <2>9. UNCHANGED <<upstream, store, report>> /\ q.id = p.id /\ q.page > 0
      BY <1>4, <1>9, <1>10, <2>4, <2>5
    <2>. QED
      BY <1>1, <1>3, <1>7, <2>4, <2>5, <2>7, <2>8, <2>9, QuietStep
  <1>. QED
    BY <1>12, <1>13

LEMMA LoseConnectionStep ==
  ASSUME Bounds, IInv, NEW e \in Engine, LoseConnection(e)
  PROVE  IInv'
  <1>1. PICK p : p = run[e]
    OBVIOUS
  <1>2. PICK s : s = Seen(e)
    OBVIOUS
  <1>3. /\ Types /\ p \in RunRow /\ RunOk(p, s) /\ \A r \in Rec : raw[r] <= s.raw[r]
        /\ s = IF p.tx = << >> THEN Committed ELSE p.tx[1]
        /\ p.stage = "upsert" /\ ~At(e, "idle") /\ Paged
    BY <1>1, <1>2, At1 DEF LoseConnection, At
  <1>4. p.page > 0 /\ p.id \in 1 .. Len(batches) /\ \A r \in Rec : s.raw[r] \in Nat /\ raw[r] \in Nat
    BY <1>1, <1>2, <1>3, AtOf
  <1>5. p.tx = << >> /\ s = Committed
    BY <1>3 DEF RunOk, OpenOk
  <1>6. UNCHANGED <<upstream, report>>
    BY DEF LoseConnection
  <1>7. ReportOk' /\ Len(batches) <= Len(batches') /\ batches' = batches /\ vouched' = vouched
    BY <1>3, <1>6, SameReport DEF report
  <1>8. PICK w : w = Written(s, p.payload, p.known)
    OBVIOUS
  <1>9. StoreOk(w) /\ w \in StoreRow /\ \A r \in Rec : s.raw[r] <= w.raw[r]
    BY <1>3, <1>8, WriteFacts DEF StoreOk
  <1>10. PICK t : (t = s \/ t = w) /\ Committed' = t
    <2>1. CASE UNCHANGED store
      <3>1. Committed' = Committed
        BY <2>1 DEF store, Committed
      <3>. QED
        BY <1>5, <3>1
    <2>2. CASE Put(w)
      BY <1>9, <2>2, PutFacts
    <2>. QED
      BY <1>1, <1>2, <1>8, <2>1, <2>2 DEF LoseConnection
  <1>11. StoreOk(t) /\ \A r \in Rec : raw[r] <= t.raw[r] /\ t.raw[r] <= t.raw[r]
    <2>1. StoreOk(t)
      BY <1>3, <1>9, <1>10 DEF RunOk
    <2>2. \A r \in Rec : s.raw[r] <= t.raw[r]
      BY <1>4, <1>9, <1>10
    <2>3. \A r \in Rec : t.raw[r] \in Nat
      BY <2>1, StoreFacts DEF StoreOk
    <2>. QED
      BY <1>3, <1>4, <2>1, <2>2, <2>3
  <1>12. PICK q : q = RetriedTo(p)
    OBVIOUS
  <1>13. q \in RunRow /\ q.id = p.id /\ q.page = p.page /\ q.tx = p.tx /\ RunOk(q, t)
    BY <1>3, <1>8, <1>10, <1>12, RetriedOk
  <1>14. PICK f : f = Failed(p)
    OBVIOUS
  <1>15. f \in RunRow /\ f.id = p.id /\ f.page = p.page /\ f.tx = p.tx /\ RunOk(f, t)
    <2>1. /\ f \in RunRow /\ f.id = p.id /\ f.page = p.page /\ f.tx = p.tx /\ RunOk(f, s)
          /\ f.stage = "fail"
      BY <1>3, <1>14, FailedOk
    <2>2. f.payload = {}
      BY <1>3, <1>14 DEF Failed, RunRow
    <2>3. RunOk(f, t)
      BY <1>11, <2>1, <2>2, Resting, StartOk DEF RunOk
    <2>. QED
      BY <2>1, <2>3
  <1>16. Become(e, q) \/ Become(e, f)
    BY <1>1, <1>12, <1>14 DEF LoseConnection, RetriedTo
  <1>17. ASSUME NEW h \in RunRow, Become(e, h), h.id = p.id, h.page = p.page, h.tx = p.tx,
                RunOk(h, t)
         PROVE  IInv'
    <2>1. t = IF h.tx = << >> THEN t ELSE h.tx[1]
      BY <1>5, <1>17
    <2>2. \A x \in vouched' : x \in vouched \/ t.raw[x[1]] >= x[2]
      BY <1>7
    <2>3. h.stage # "idle" => h.id \in 1 .. Len(batches') /\ h.page > 0
      BY <1>4, <1>7, <1>17
    <2>. QED
      BY <1>3, <1>6, <1>7, <1>10, <1>11, <1>17, <2>1, <2>2, <2>3, EngineStep
  <1>. QED
    BY <1>13, <1>15, <1>16, <1>17

LEMMA LogProps ==
  ASSUME NEW S, NEW s \in Seq(SUBSET S), NEW i \in 1 .. Len(s), NEW x \in S
  PROVE  /\ [s EXCEPT ![i] = @ \cup {x}] \in Seq(SUBSET S)
         /\ Len([s EXCEPT ![i] = @ \cup {x}]) = Len(s)
  <1>1. s[i] \cup {x} \in SUBSET S
    BY LenProperties
  <1>2. /\ [s EXCEPT ![i] = s[i] \cup {x}] \in Seq(SUBSET S)
        /\ Len([s EXCEPT ![i] = s[i] \cup {x}]) = Len(s)
    BY <1>1, ExceptSeq
  <1>. QED
    BY <1>2

\* What a run writes into its log.
LEMMA Logged ==
  ASSUME Types, NEW e \in Engine, run[e].id \in 1 .. Len(batches),
         NEW status \in {"success", "failed", "paused"}, Log(e, status), batches' = batches,
         point' \in 0 .. Len(batches), vouched' \subseteq Snapshot
  PROVE  ReportOk' /\ Len(batches) <= Len(batches')
  <1>1. /\ batches \in Seq(Statuses) /\ logs \in Seq(SUBSET {"success", "failed", "paused"})
        /\ Len(logs) = Len(batches)
    BY DEF Types, ReportOk
  <1>2. logs' \in Seq(SUBSET {"success", "failed", "paused"}) /\ Len(logs') = Len(logs)
    BY <1>1, LogProps DEF Log
  <1>3. Len(batches) <= Len(batches')
    BY <1>1
  <1>. QED
    BY <1>1, <1>2, <1>3 DEF ReportOk

PausedTo(p, n) == [p EXCEPT !.stage = "close", !.result = "paused", !.payload = n]
DoneTo(p, t, n) == [p EXCEPT !.stage = "close", !.result = "success", !.tx = t, !.payload = n]
FailedTo(p, t) == [p EXCEPT !.stage = "close", !.result = "failed", !.tx = t]

LEMMA PausedRow ==
  ASSUME NEW p \in RunRow, NEW n \in SUBSET Snapshot
  PROVE  \E q \in RunRow :
           /\ q = PausedTo(p, n) /\ q.stage = "close" /\ q.payload = n /\ q.tx = p.tx
           /\ q.id = p.id /\ q.page = p.page /\ q.start = p.start
  <1>1. /\ PausedTo(p, n) \in RunRow /\ PausedTo(p, n).stage = "close"
        /\ PausedTo(p, n).payload = n /\ PausedTo(p, n).tx = p.tx /\ PausedTo(p, n).id = p.id
        /\ PausedTo(p, n).page = p.page /\ PausedTo(p, n).start = p.start
    BY DEF PausedTo, RunRow
  <1>. QED
    BY <1>1, Zenon

LEMMA DoneRow ==
  ASSUME NEW p \in RunRow, NEW n \in SUBSET Snapshot, NEW t \in Seq(StoreRow)
  PROVE  \E q \in RunRow :
           /\ q = DoneTo(p, t, n) /\ q.stage = "close" /\ q.payload = n /\ q.tx = t
           /\ q.id = p.id /\ q.page = p.page /\ q.start = p.start
  <1>1. /\ DoneTo(p, t, n) \in RunRow /\ DoneTo(p, t, n).stage = "close"
        /\ DoneTo(p, t, n).payload = n /\ DoneTo(p, t, n).tx = t /\ DoneTo(p, t, n).id = p.id
        /\ DoneTo(p, t, n).page = p.page /\ DoneTo(p, t, n).start = p.start
    BY DEF DoneTo, RunRow
  <1>. QED
    BY <1>1, Zenon

LEMMA FailedRow ==
  ASSUME NEW p \in RunRow, NEW t \in Seq(StoreRow)
  PROVE  \E q \in RunRow :
           /\ q = FailedTo(p, t) /\ q.stage = "close" /\ q.payload = p.payload /\ q.tx = t
           /\ q.id = p.id /\ q.page = p.page /\ q.start = p.start
  <1>1. /\ FailedTo(p, t) \in RunRow /\ FailedTo(p, t).stage = "close"
        /\ FailedTo(p, t).payload = p.payload /\ FailedTo(p, t).tx = t /\ FailedTo(p, t).id = p.id
        /\ FailedTo(p, t).page = p.page /\ FailedTo(p, t).start = p.start
    BY DEF FailedTo, RunRow
  <1>. QED
    BY <1>1, Zenon

LEMMA ClosedOk ==
  ASSUME NEW p, NEW s, RunOk(p, s), NEW q, q.stage = "close", q.payload = {}, q.tx = << >>,
         q.start = p.start
  PROVE  RunOk(q, s)
  <1>1. OpenOk(q)
    BY DEF OpenOk
  <1>2. \A x \in q.start : x[2] <= version[x[1]]
    BY StartOk
  <1>3. StoreOk(s)
    BY DEF RunOk
  <1>4. WriteOk(q, s)
    <2>1. PageOf({})
      BY FS_EmptySet DEF PageOf
    <2>. QED
      BY <2>1 DEF WriteOk
  <1>5. WalkOk(q)
    BY DEF WalkOk
  <1>6. CoverOk(q, s)
    BY <1>2 DEF CoverOk
  <1>. QED
    BY <1>1, <1>3, <1>4, <1>5, <1>6 DEF RunOk

LEMMA PauseStep ==
  ASSUME Bounds, IInv, NEW e \in Engine, Pause(e)
  PROVE  IInv'
  <1>1. PICK p : p = run[e]
    OBVIOUS
  <1>2. PICK s : s = Seen(e)
    OBVIOUS
  <1>3. /\ Types /\ p \in RunRow /\ RunOk(p, s) /\ \A r \in Rec : raw[r] <= s.raw[r]
        /\ s = IF p.tx = << >> THEN Committed ELSE p.tx[1]
        /\ p.stage = "turn" /\ ~At(e, "idle") /\ Paged
    BY <1>1, <1>2, At1 DEF Pause, At
  <1>4. p.page > 0 /\ p.id \in 1 .. Len(batches) /\ \A r \in Rec : s.raw[r] \in Nat /\ raw[r] \in Nat
    BY <1>1, <1>2, <1>3, AtOf
  <1>5. p.tx = << >> /\ s = Committed /\ StoreOk(s)
    BY <1>3 DEF RunOk, OpenOk
  <1>6. PICK n : n = {}
    OBVIOUS
  <1>7. PICK q \in RunRow :
          /\ q = PausedTo(p, n) /\ q.stage = "close" /\ q.payload = n /\ q.tx = p.tx
          /\ q.id = p.id /\ q.page = p.page /\ q.start = p.start
    <2>1. n \in SUBSET Snapshot
      BY <1>6
    <2>. QED
      BY <1>3, <2>1, PausedRow
  <1>8. RunOk(q, s)
    BY <1>3, <1>5, <1>6, <1>7, ClosedOk
  <1>9. Become(e, q) /\ UNCHANGED <<upstream, store, batches, point, vouched>> /\ Log(e, "paused")
    BY <1>1, <1>6, <1>7 DEF Pause, PausedTo
  <1>10. UNCHANGED upstream /\ UNCHANGED store /\ batches' = batches /\ point' = point
         /\ vouched' = vouched
    BY <1>9
  <1>11. ReportOk' /\ Len(batches) <= Len(batches')
    <2>1. point' \in 0 .. Len(batches) /\ vouched' \subseteq Snapshot
      BY <1>3, <1>10 DEF Types, ReportOk
    <2>. QED
      BY <1>1, <1>3, <1>4, <1>9, <1>10, <2>1, Logged
  <1>12. Committed' = s
    BY <1>5, <1>10 DEF store, Committed
  <1>13. s = IF q.tx = << >> THEN s ELSE q.tx[1]
    BY <1>5, <1>7
  <1>14. \A r \in Rec : s.raw[r] <= s.raw[r]
    BY <1>4
  <1>15. q.stage # "idle" => q.id \in 1 .. Len(batches') /\ q.page > 0
    BY <1>4, <1>7, <1>10
  <1>16. \A x \in vouched' : x \in vouched \/ s.raw[x[1]] >= x[2]
    BY <1>10
  <1>. QED
    BY <1>3, <1>5, <1>7, <1>8, <1>9, <1>10, <1>11, <1>12, <1>13, <1>14, <1>15, <1>16, EngineStep

\* What a report says, and what the tables hold then.
LEMMA ReportFacts ==
  ASSUME Bounds, IInv, NEW e \in Engine, Complete(e), Report(e), NEW s, s = Seen(e)
  PROVE  /\ UNCHANGED upstream /\ batches' = batches
         /\ Committed' = s /\ ReportOk' /\ Len(batches) <= Len(batches')
         /\ \A x \in vouched' : x \in vouched \/ s.raw[x[1]] >= x[2]
  <1>1. PICK p : p = run[e]
    OBVIOUS
  <1>2. /\ Types /\ p \in RunRow /\ RunOk(p, s)
        /\ s = IF p.tx = << >> THEN Committed ELSE p.tx[1]
        /\ p.stage = "turn" /\ ~At(e, "idle") /\ ~More(p) /\ NotTruncated(p)
    BY <1>1, At1 DEF Complete, At
  <1>3. p.page > 0 /\ p.id \in 1 .. Len(batches)
    BY <1>1, <1>2, AtOf
  <1>4. UNCHANGED upstream /\ batches' = batches /\ Log(e, "success")
    BY DEF Report
  <1>5. Committed' = s
    <2>1. CASE Paged
      <3>1. p.tx = << >>
        BY <1>2, <2>1 DEF RunOk, OpenOk
      <3>2. UNCHANGED store
        BY <2>1 DEF Report
      <3>. QED
        BY <1>2, <3>1, <3>2 DEF store, Committed
    <2>2. CASE ~Paged
      <3>1. Put(s) /\ s \in StoreRow
        BY <1>2, <2>2 DEF Report, RunOk, StoreOk
      <3>. QED
        BY <3>1, PutFacts
    <2>. QED
      BY <2>1, <2>2
  <1>6. vouched' = vouched \/ (~p.shifted /\ vouched' = vouched \cup p.start)
    BY <1>1 DEF Report
  <1>7. \A x \in vouched' : x \in vouched \/ s.raw[x[1]] >= x[2]
    BY <1>2, <1>3, <1>6, EndedOk
  <1>8. ReportOk' /\ Len(batches) <= Len(batches')
    <2>1. vouched' \subseteq Snapshot
      BY <1>2, <1>6, RunFacts DEF Types, ReportOk
    <2>2. Len(batches) \in Nat /\ point \in 0 .. Len(batches)
      BY <1>2 DEF Types, ReportOk
    <2>3. point' = p.id \/ point' = point
      BY <1>1 DEF Report
    <2>4. point' \in 0 .. Len(batches)
      BY <1>3, <2>2, <2>3
    <2>. QED
      BY <1>1, <1>2, <1>3, <1>4, <2>1, <2>4, Logged
  <1>. QED
    BY <1>4, <1>5, <1>7, <1>8

LEMMA SucceedStep ==
  ASSUME Bounds, IInv, NEW e \in Engine, Complete(e), Report(e),
         NEW q \in RunRow, Become(e, q), q.tx = << >>, RunOk(q, Seen(e)),
         q.stage # "idle" => q.id = run[e].id /\ q.page = run[e].page
  PROVE  IInv'
  <1>1. PICK s : s = Seen(e)
    OBVIOUS
  <1>2. /\ UNCHANGED upstream /\ batches' = batches
        /\ Committed' = s /\ ReportOk' /\ Len(batches) <= Len(batches')
        /\ \A x \in vouched' : x \in vouched \/ s.raw[x[1]] >= x[2]
    BY <1>1, ReportFacts
  <1>3. ~At(e, "idle") /\ \A r \in Rec : raw[r] <= s.raw[r]
    BY <1>1, At1 DEF Complete, At
  <1>4. /\ run[e].page > 0 /\ run[e].id \in 1 .. Len(batches)
        /\ \A r \in Rec : s.raw[r] \in Nat /\ raw[r] \in Nat
    BY <1>1, <1>3, AtOf
  <1>5. RunOk(q, s) /\ StoreOk(s)
    BY <1>1 DEF RunOk
  <1>6. s = IF q.tx = << >> THEN s ELSE q.tx[1]
    OBVIOUS
  <1>7. \A r \in Rec : s.raw[r] <= s.raw[r]
    BY <1>4
  <1>8. q.stage # "idle" => q.id \in 1 .. Len(batches') /\ q.page > 0
    BY <1>2, <1>4
  <1>. QED
    BY <1>2, <1>3, <1>5, <1>6, <1>7, <1>8, EngineStep

LEMMA SuccessSteps ==
  ASSUME Bounds, IInv, NEW e \in Engine, Succeed(e) \/ SucceedUnheard(e)
  PROVE  IInv'
  <1>1. PICK p : p = run[e]
    OBVIOUS
  <1>2. PICK s : s = Seen(e)
    OBVIOUS
  <1>3. Complete(e) /\ Report(e)
    BY DEF Succeed, SucceedUnheard
  <1>4. p \in RunRow /\ RunOk(p, s) /\ StoreOk(s)
    BY <1>1, <1>2, At1 DEF RunOk
  <1>5. CASE Succeed(e)
    <2>1. PICK n : n = {}
      OBVIOUS
    <2>2. n \in SUBSET Snapshot
      BY <2>1
    <2>3. << >> \in Seq(StoreRow)
      OBVIOUS
    <2>4. \E u \in Seq(StoreRow) : u = << >>
      BY <2>3, Zenon
    <2>5. PICK t \in Seq(StoreRow) : t = << >>
      BY <2>4
    <2>6. t \in Seq(StoreRow)
      BY <2>5
    <2>7. PICK q \in RunRow :
            /\ q = DoneTo(p, t, n) /\ q.stage = "close" /\ q.payload = n /\ q.tx = t
            /\ q.id = p.id /\ q.page = p.page /\ q.start = p.start
      BY <1>4, <2>2, <2>6, DoneRow
    <2>8. q.payload = {} /\ q.tx = << >>
      BY <2>1, <2>5, <2>7
    <2>9. RunOk(q, s)
      BY <1>4, <2>7, <2>8, ClosedOk
    <2>10. Become(e, q)
      <3>1. Become(e, DoneTo(p, << >>, {}))
        BY <1>1, <1>5 DEF Succeed, DoneTo
      <3>2. q = DoneTo(p, << >>, {})
        BY <2>1, <2>5, <2>7
      <3>. QED
        BY <3>1, <3>2
    <2>. QED
      BY <1>1, <1>2, <1>3, <2>7, <2>8, <2>9, <2>10, SucceedStep
  <1>6. CASE SucceedUnheard(e)
    <2>1. PICK f : f = Failed(p)
      OBVIOUS
    <2>2. /\ f \in RunRow /\ f.id = p.id /\ f.page = p.page /\ f.tx = p.tx /\ RunOk(f, s)
      BY <1>4, <2>1, FailedOk
    <2>3. PICK z : z = Idle
      OBVIOUS
    <2>4. z \in RunRow /\ z.stage = "idle" /\ z.tx = << >> /\ RunOk(z, s)
      BY <1>4, <2>3, IdleOk
    <2>5. CASE Paged
      <3>1. Become(e, f)
        BY <1>1, <1>6, <2>1, <2>5 DEF SucceedUnheard
      <3>2. f.tx = << >>
        BY <1>4, <2>2, <2>5 DEF RunOk, OpenOk
      <3>. QED
        BY <1>1, <1>2, <1>3, <2>2, <3>1, <3>2, SucceedStep
    <2>6. CASE ~Paged
      <3>1. Become(e, z)
        BY <1>6, <2>3, <2>6 DEF SucceedUnheard
      <3>. QED
        BY <1>2, <1>3, <2>4, <3>1, SucceedStep
    <2>. QED
      BY <2>5, <2>6
  <1>. QED
    BY <1>5, <1>6

LEMMA ClosedSame ==
  ASSUME NEW p, NEW s, RunOk(p, s), NEW q, q.stage = "close", q.payload = p.payload,
         q.tx = << >>, q.start = p.start
  PROVE  RunOk(q, s)
  <1>1. OpenOk(q)
    BY DEF OpenOk
  <1>2. \A x \in q.start : x[2] <= version[x[1]]
    BY StartOk
  <1>3. StoreOk(s)
    BY DEF RunOk
  <1>4. WriteOk(q, s)
    BY DEF RunOk, WriteOk
  <1>5. WalkOk(q)
    BY DEF WalkOk
  <1>6. CoverOk(q, s)
    BY <1>2 DEF CoverOk
  <1>. QED
    BY <1>1, <1>3, <1>4, <1>5, <1>6 DEF RunOk

LEMMA LogFailureStep ==
  ASSUME Bounds, IInv, NEW e \in Engine, LogFailure(e)
  PROVE  IInv'
  <1>1. PICK p : p = run[e]
    OBVIOUS
  <1>2. PICK s : s = Seen(e)
    OBVIOUS
  <1>3. /\ Types /\ p \in RunRow /\ RunOk(p, s) /\ StoreOk(s) /\ \A r \in Rec : raw[r] <= s.raw[r]
        /\ s = IF p.tx = << >> THEN Committed ELSE p.tx[1]
        /\ p.stage = "fail" /\ ~At(e, "idle")
    BY <1>1, <1>2, At1 DEF LogFailure, At, RunOk
  <1>4. p.page > 0 /\ p.id \in 1 .. Len(batches) /\ \A r \in Rec : s.raw[r] \in Nat /\ raw[r] \in Nat
    BY <1>1, <1>2, <1>3, AtOf
  <1>5. << >> \in Seq(StoreRow)
    OBVIOUS
  <1>6. \E u \in Seq(StoreRow) : u = << >>
    BY <1>5, Zenon
  <1>7. PICK t \in Seq(StoreRow) : t = << >>
    BY <1>6
  <1>8. PICK q \in RunRow :
          /\ q = FailedTo(p, t) /\ q.stage = "close" /\ q.payload = p.payload /\ q.tx = t
          /\ q.id = p.id /\ q.page = p.page /\ q.start = p.start
    <2>1. t \in Seq(StoreRow)
      BY <1>7
    <2>. QED
      BY <1>3, <2>1, FailedRow
  <1>9. q.tx = << >>
    BY <1>7, <1>8
  <1>10. RunOk(q, s)
    BY <1>3, <1>8, <1>9, ClosedSame
  <1>11. Become(e, q)
    <2>1. Become(e, FailedTo(p, << >>))
      BY <1>1 DEF LogFailure, FailedTo
    <2>2. q = FailedTo(p, << >>)
      BY <1>7, <1>8
    <2>. QED
      BY <2>1, <2>2
  <1>12. UNCHANGED upstream /\ batches' = batches /\ point' = point /\ vouched' = vouched
         /\ Log(e, "failed")
    BY DEF LogFailure
  <1>13. Committed' = s
    <2>1. CASE Paged
      <3>1. p.tx = << >>
        BY <1>3, <2>1 DEF RunOk, OpenOk
      <3>2. UNCHANGED store
        BY <2>1 DEF LogFailure
      <3>. QED
        BY <1>3, <3>1, <3>2 DEF store, Committed
    <2>2. CASE ~Paged
      <3>1. Put(s) /\ s \in StoreRow
        BY <1>2, <1>3, <2>2 DEF LogFailure, StoreOk
      <3>. QED
        BY <3>1, PutFacts
    <2>. QED
      BY <2>1, <2>2
  <1>14. ReportOk' /\ Len(batches) <= Len(batches')
    <2>1. point' \in 0 .. Len(batches) /\ vouched' \subseteq Snapshot
      BY <1>3, <1>12 DEF Types, ReportOk
    <2>. QED
      BY <1>1, <1>3, <1>4, <1>12, <2>1, Logged
  <1>15. s = IF q.tx = << >> THEN s ELSE q.tx[1]
    BY <1>9
  <1>16. \A r \in Rec : s.raw[r] <= s.raw[r]
    BY <1>4
  <1>17. q.stage # "idle" => q.id \in 1 .. Len(batches') /\ q.page > 0
    BY <1>4, <1>8, <1>12
  <1>18. \A x \in vouched' : x \in vouched \/ s.raw[x[1]] >= x[2]
    BY <1>12
  <1>. QED
    BY <1>3, <1>8, <1>10, <1>11, <1>12, <1>13, <1>14, <1>15, <1>16, <1>17, <1>18, EngineStep

LEMMA SetBatch ==
  ASSUME NEW S, NEW s \in Seq(S), NEW i \in 1 .. Len(s), NEW x \in S
  PROVE  [s EXCEPT ![i] = x] \in Seq(S) /\ Len([s EXCEPT ![i] = x]) = Len(s)
  BY ExceptSeq

LEMMA CloseStep ==
  ASSUME Bounds, IInv, NEW e \in Engine, Close(e)
  PROVE  IInv'
  <1>1. PICK c : c = Committed
    OBVIOUS
  <1>2. /\ Types /\ StoreOk(c) /\ c.raw = raw /\ raw \in [Rec -> Nat] /\ run[e] \in RunRow
        /\ ~At(e, "idle")
    BY <1>1, At1 DEF Close, At
  <1>3. PICK q : q = Idle
    OBVIOUS
  <1>4. q \in RunRow /\ q.stage = "idle" /\ q.tx = << >> /\ RunOk(q, c)
    BY <1>2, <1>3, IdleOk
  <1>5. Become(e, q) /\ UNCHANGED upstream /\ UNCHANGED store /\ logs' = logs /\ point' = point
        /\ vouched' = vouched
    BY <1>3 DEF Close
  <1>6. Committed' = c
    BY <1>1, <1>5 DEF store, Committed
  <1>7. batches' \in Seq(Statuses) /\ Len(batches') = Len(batches)
    <2>1. /\ run[e].id \in 1 .. Len(batches)
          /\ run[e].result \in {"none", "success", "failed", "paused"}
      BY <1>2, AtOf DEF RunRow
    <2>2. batches \in Seq(Statuses)
      BY <1>2 DEF Types, ReportOk
    <2>3. PICK other \in {"none", "success", "failed"} :
            batches' = [batches EXCEPT ![run[e].id] = Summary(run[e].result, other)]
      BY DEF Close
    <2>4. Summary(run[e].result, other) \in Statuses
      BY <2>1 DEF Summary, Statuses
    <2>. QED
      BY <2>1, <2>2, <2>3, <2>4, SetBatch
  <1>8. ReportOk' /\ Len(batches) <= Len(batches')
    BY <1>2, <1>5, <1>7 DEF Types, ReportOk
  <1>9. \A r \in Rec : raw[r] <= c.raw[r] /\ c.raw[r] <= c.raw[r]
    BY <1>2
  <1>10. c = IF q.tx = << >> THEN c ELSE q.tx[1]
    BY <1>4
  <1>11. \A x \in vouched' : x \in vouched \/ c.raw[x[1]] >= x[2]
    BY <1>5
  <1>. QED
    BY <1>2, <1>4, <1>5, <1>6, <1>8, <1>9, <1>10, <1>11, EngineStep

LEMMA Appended ==
  ASSUME NEW S, NEW s \in Seq(S), NEW x \in S
  PROVE  Append(s, x) \in Seq(S) /\ Len(Append(s, x)) = Len(s) + 1
  BY AppendProperties

LEMMA BeginStep ==
  ASSUME Bounds, IInv, NEW e \in Engine, Begin(e)
  PROVE  IInv'
  <1>1. PICK c : c = Committed
    OBVIOUS
  <1>2. /\ Types /\ StoreOk(c) /\ c \in StoreRow /\ c.raw = raw /\ raw \in [Rec -> Nat]
    BY <1>1, At1 DEF StoreOk
  <1>3. PICK i : i = Len(batches) + 1
    OBVIOUS
  <1>4. PICK n : n = Now
    OBVIOUS
  <1>5. PICK t : t = IF Paged THEN << >> ELSE <<c>>
    OBVIOUS
  <1>6. t \in Seq(StoreRow) /\ (t # << >> => ~Paged /\ t[1] = c)
    <2>1. CASE Paged
      BY <1>5, <2>1
    <2>2. CASE ~Paged
      BY <1>2, <1>5, <2>2
    <2>. QED
      BY <2>1, <2>2
  <1>7. Len(batches) \in Nat /\ i \in Nat /\ n \in SUBSET Snapshot
        /\ \A x \in n : x[2] <= version[x[1]] /\ Ahead(x[1], 0)
    <2>1. Len(batches) \in Nat
      BY <1>2 DEF Types, ReportOk
    <2>. QED
      BY <1>2, <1>3, <1>4, <2>1, NowFacts
  <1>8. PICK q \in RunRow :
          /\ q = BegunTo(Idle, i, n, t)
          /\ q.id = i /\ q.page = 1 /\ q.tx = t /\ q.got = 0
          /\ q.payload = {} /\ q.stage = "ask" /\ q.start = n
    BY <1>6, <1>7, BegunIdle
  <1>9. RunOk(q, c) /\ c = IF q.tx = << >> THEN c ELSE q.tx[1]
    BY <1>2, <1>6, <1>7, <1>8, BegunOk
  <1>10. Become(e, q)
    <2>1. Become(e, BegunTo(Idle, Len(batches) + 1, Now, IF Paged THEN << >> ELSE <<Committed>>))
      BY DEF Begin, BegunTo
    <2>2. q = BegunTo(Idle, Len(batches) + 1, Now, IF Paged THEN << >> ELSE <<Committed>>)
      BY <1>1, <1>3, <1>4, <1>5, <1>8
    <2>. QED
      BY <2>1, <2>2
  <1>11. /\ UNCHANGED upstream /\ UNCHANGED store /\ point' = point /\ vouched' = vouched
         /\ batches' = Append(batches, "running") /\ logs' = Append(logs, {})
         /\ ~At(e, "idle") \/ setting.overlap \/ (\A f \in Engine : At(f, "idle"))
    BY DEF Begin
  <1>12. Committed' = c
    BY <1>1, <1>11 DEF store, Committed
  <1>13. /\ batches' \in Seq(Statuses) /\ Len(batches') = Len(batches) + 1
         /\ logs' \in Seq(SUBSET {"success", "failed", "paused"}) /\ Len(logs') = Len(logs) + 1
    <2>1. batches \in Seq(Statuses) /\ logs \in Seq(SUBSET {"success", "failed", "paused"})
      BY <1>2 DEF Types, ReportOk
    <2>2. "running" \in Statuses /\ {} \in SUBSET {"success", "failed", "paused"}
      BY DEF Statuses
    <2>. QED
      BY <1>11, <2>1, <2>2, Appended
  <1>14. ReportOk' /\ Len(batches) <= Len(batches')
    BY <1>2, <1>7, <1>11, <1>13 DEF Types, ReportOk
  <1>15. \A r \in Rec : raw[r] <= c.raw[r] /\ c.raw[r] <= c.raw[r]
    BY <1>2
  <1>16. q.stage # "idle" => q.id \in 1 .. Len(batches') /\ q.page > 0
    BY <1>3, <1>7, <1>8, <1>13
  <1>17. \A x \in vouched' : x \in vouched \/ c.raw[x[1]] >= x[2]
    BY <1>11
  <1>. QED
    BY <1>1, <1>2, <1>8, <1>9, <1>10, <1>11, <1>12, <1>14, <1>15, <1>16, <1>17, EngineStep

-----------------------------------------------------------------------------
(* The upstream list changes.                                               *)

\* What a run keeps while records become newer.
LEMMA ChangedOk ==
  ASSUME setting' = setting, version \in [Rec -> Nat], version' \in [Rec -> Nat],
         \A r \in Rec : version[r] <= version'[r],
         NEW p \in RunRow, NEW s, RunOk(p, s), NEW q,
         q.stage = p.stage, q.page = p.page, q.got = p.got, q.total = p.total,
         q.payload = p.payload, q.known = p.known, q.tx = p.tx, q.start \subseteq p.start,
         q.stage \in {"ask", "write", "upsert", "turn"} /\ ~q.shifted =>
           \A x \in q.start : Covered(q, s, x)'
  PROVE  RunOk(q, s)'
  <1>1. StoreOk(s) /\ s \in StoreRow
    BY DEF RunOk, StoreOk
  <1>2. StoreOk(s)'
    <2>1. s.raw \in [Rec -> Nat]
      BY <1>1, StoreFacts
    <2>2. \A r \in Rec : s.raw[r] <= version[r]
      BY <1>1 DEF StoreOk
    <2>3. \A r \in Rec : s.raw[r] <= version'[r]
      BY <2>1, <2>2
    <2>. QED
      BY <1>1, <2>3 DEF StoreOk
  <1>3. OpenOk(q)'
    BY DEF RunOk, OpenOk, Paged
  <1>4. PageOf(p.payload)'
    <2>1. PageOf(p.payload)
      BY DEF RunOk, WriteOk
    <2>2. \A x \in p.payload : 0 < x[2] /\ x[2] <= version'[x[1]]
      <3>. SUFFICES ASSUME NEW x \in p.payload
                    PROVE  0 < x[2] /\ x[2] <= version'[x[1]]
        OBVIOUS
      <3>1. x[1] \in Rec /\ x[2] \in Nat
        BY RunFacts, Pairs
      <3>2. 0 < x[2] /\ x[2] <= version[x[1]]
        BY <2>1 DEF PageOf
      <3>. QED
        BY <3>1, <3>2
    <2>. QED
      BY <2>1, <2>2 DEF PageOf
  <1>5. WriteOk(q, s)'
    BY <1>4 DEF RunOk, WriteOk
  <1>6. WalkOk(q)'
    BY DEF RunOk, WalkOk, Before, Behind, Length
  <1>7. \A x \in q.start : x[2] <= version'[x[1]]
    <2>. SUFFICES ASSUME NEW x \in p.start
                  PROVE  x[2] <= version'[x[1]]
      OBVIOUS
    <2>1. x[1] \in Rec /\ x[2] \in Nat
      BY RunFacts, Pairs
    <2>2. x[2] <= version[x[1]]
      BY StartOk
    <2>. QED
      BY <2>1, <2>2
  <1>8. CoverOk(q, s)'
    BY <1>7 DEF CoverOk
  <1>. QED
    BY <1>2, <1>3, <1>5, <1>6, <1>8 DEF RunOk

LEMMA ChangeStep ==
  ASSUME Bounds, IInv, Change, version' \in [Rec -> Nat],
         \A r \in Rec : version[r] <= version'[r],
         list' \in Seq(Rec), Distinct(list'), \A i \in DOMAIN list' : version'[list'[i]] > 0,
         run' \in [Engine -> RunRow],
         \A e \in Engine :
           /\ run'[e].stage = run[e].stage /\ run'[e].tx = run[e].tx
           /\ run[e].stage # "idle" => run'[e].id = run[e].id /\ run'[e].page = run[e].page,
         \A e \in Engine : \A q, s : q = run'[e] /\ s = Seen(e) => RunOk(q, s)'
  PROVE  IInv'
  <1>1. /\ Types /\ ListInv /\ OneAtATime /\ StoreOk(Committed) /\ VouchedIsStored
        /\ \A e \in Engine : \A r \in Rec : raw[r] <= Seen(e).raw[r]
    BY DEF IInv
  <1>2. /\ setting' = setting /\ raw' = raw /\ history' = history /\ count' = count
        /\ batches' = batches /\ logs' = logs /\ point' = point /\ vouched' = vouched
    BY DEF Change, store, report
  <1>3. Committed' = Committed
    BY <1>2 DEF Committed
  <1>4. \A e \in Engine : Seen(e)' = Seen(e)
    BY <1>3 DEF Seen
  <1>5. Types'
    <2>1. ReportOk'
      BY <1>1, <1>2 DEF Types, ReportOk
    <2>2. \A e \in Engine : ~At(e, "idle")' => run'[e].id \in 1 .. Len(batches') /\ run'[e].page > 0
      BY <1>1, <1>2 DEF Types, At
    <2>. QED
      BY <1>1, <1>2, <1>3, <2>1, <2>2 DEF Types
  <1>6. ListInv'
    BY DEF ListInv, Distinct
  <1>7. OneAtATime'
    BY <1>1, <1>2 DEF OneAtATime, At
  <1>8. StoreOk(Committed)'
    <2>1. raw \in [Rec -> Nat]
      BY <1>1, StoreFacts DEF Types, Committed
    <2>2. \A r \in Rec : raw[r] <= version[r]
      BY <1>1 DEF StoreOk, Committed
    <2>3. version \in [Rec -> Nat]
      BY <1>1 DEF Types
    <2>4. \A r \in Rec : raw[r] <= version'[r]
      BY <2>1, <2>2, <2>3
    <2>5. \A r \in Rec : Committed.raw[r] <= version'[r]
      BY <2>4 DEF Committed
    <2>. QED
      BY <1>1, <1>2, <1>3, <2>5 DEF StoreOk, Stored
  <1>9. ASSUME NEW e \in Engine
        PROVE  (RunOk(run[e], Seen(e)) /\ \A r \in Rec : raw[r] <= Seen(e).raw[r])'
    <2>1. PICK q : q = run'[e]
      OBVIOUS
    <2>2. PICK s : s = Seen(e)
      OBVIOUS
    <2>3. RunOk(q, s)'
      BY <2>1, <2>2
    <2>4. RunOk(run[e], Seen(e))'
      BY <1>4, <2>1, <2>2, <2>3 DEF RunOk, OpenOk, StoreOk, WriteOk, WalkOk, CoverOk, Paged, Before,
                                    Behind, Length, Covered
    <2>. QED
      BY <1>1, <1>2, <1>4, <2>4
  <1>10. VouchedIsStored'
    BY <1>1, <1>2 DEF VouchedIsStored
  <1>. QED
    BY <1>5, <1>6, <1>7, <1>8, <1>9, <1>10 DEF IInv

LeftTo(p, n) == [p EXCEPT !.start = n]
MovedTo(p) == [p EXCEPT !.shifted = TRUE]

LEMMA LeftFacts ==
  ASSUME NEW p \in RunRow, NEW n \in SUBSET Snapshot, NEW q, q = LeftTo(p, n)
  PROVE  /\ q \in RunRow /\ q.stage = p.stage /\ q.id = p.id /\ q.page = p.page /\ q.tx = p.tx
         /\ q.got = p.got /\ q.total = p.total /\ q.payload = p.payload /\ q.known = p.known
         /\ q.start = n /\ q.shifted = p.shifted
  BY DEF RunRow, LeftTo

LEMMA MovedFacts ==
  ASSUME NEW p \in RunRow, NEW q, q = MovedTo(p)
  PROVE  /\ q \in RunRow /\ q.stage = p.stage /\ q.id = p.id /\ q.page = p.page /\ q.tx = p.tx
         /\ q.got = p.got /\ q.total = p.total /\ q.payload = p.payload /\ q.known = p.known
         /\ q.start = p.start /\ q.shifted
  BY DEF RunRow, MovedTo

LEMMA Bumped ==
  ASSUME version \in [Rec -> Nat], NEW r \in Rec, version' = [version EXCEPT ![r] = @ + 1]
  PROVE  /\ version' \in [Rec -> Nat] /\ \A x \in Rec : version[x] <= version'[x]
         /\ version'[r] > 0 /\ \A x \in Rec : x # r => version'[x] = version[x]
  OBVIOUS

LEMMA TouchStep ==
  ASSUME Bounds, IInv, NEW r \in Rec, Touch(r)
  PROVE  IInv'
  <1>1. /\ Change /\ version' = [version EXCEPT ![r] = @ + 1] /\ list' = list /\ run' = run
    BY DEF Touch
  <1>2. Types /\ ListInv
    BY DEF IInv
  <1>3. setting' = setting
    BY <1>1 DEF Change
  <1>4. /\ version \in [Rec -> Nat] /\ version' \in [Rec -> Nat]
        /\ \A x \in Rec : version[x] <= version'[x]
    BY <1>1, <1>2, Bumped DEF Types
  <1>5. list \in Seq(Rec) /\ Distinct(list) /\ run \in [Engine -> RunRow]
    BY <1>2 DEF Types, ListInv
  <1>6. \A i \in DOMAIN list : version'[list[i]] > 0
    <2>1. \A i \in DOMAIN list : list[i] \in Rec /\ version[list[i]] > 0
      BY <1>2, ListFacts DEF ListInv
    <2>. QED
      BY <1>4, <2>1
  <1>7. ASSUME NEW e \in Engine, NEW q, NEW s, q = run[e], s = Seen(e)
        PROVE  RunOk(q, s)'
    <2>1. PICK p : p = run[e]
      OBVIOUS
    <2>2. p \in RunRow /\ RunOk(p, s)
      BY <1>7, <2>1, At1
    <2>3. p.stage \in {"ask", "write", "upsert", "turn"} /\ ~p.shifted =>
            \A x \in p.start : Covered(p, s, x)'
      BY <1>1, <1>3, <2>2 DEF RunOk, CoverOk, Covered, Ahead, Before, Behind, Length
    <2>4. RunOk(p, s)'
      BY <1>3, <1>4, <2>2, <2>3, ChangedOk
    <2>5. q = p
      BY <1>7, <2>1
    <2>. QED
      BY <2>4, <2>5
  <1>8. \A e \in Engine :
          /\ run'[e].stage = run[e].stage /\ run'[e].tx = run[e].tx
          /\ run[e].stage # "idle" => run'[e].id = run[e].id /\ run'[e].page = run[e].page
    BY <1>1
  <1>9. \A e \in Engine : \A q, s : q = run'[e] /\ s = Seen(e) => RunOk(q, s)'
    BY <1>1, <1>7
  <1>10. /\ list' \in Seq(Rec) /\ Distinct(list') /\ run' \in [Engine -> RunRow]
         /\ \A i \in DOMAIN list' : version'[list'[i]] > 0
    <2>1. Distinct(list') = Distinct(list)
      BY <1>1
    <2>. QED
      BY <1>1, <1>5, <1>6, <2>1
  <1>. QED
    BY <1>1, <1>4, <1>8, <1>9, <1>10, ChangeStep

LEMMA AppearStep ==
  ASSUME Bounds, IInv, NEW r \in Rec, Appear(r)
  PROVE  IInv'
  <1>1. /\ Change /\ version' = [version EXCEPT ![r] = @ + 1] /\ list' = <<r>> \o Without(r)
        /\ run' = [e \in Engine |-> [run[e] EXCEPT !.start = {x \in @ : x[1] # r}]]
    BY DEF Appear
  <1>2. Types /\ ListInv
    BY DEF IInv
  <1>3. setting' = setting
    BY <1>1 DEF Change
  <1>4. /\ version \in [Rec -> Nat] /\ version' \in [Rec -> Nat]
        /\ \A x \in Rec : version[x] <= version'[x]
        /\ version'[r] > 0
    BY <1>1, <1>2, Bumped DEF Types
  <1>5. list \in Seq(Rec) /\ Distinct(list) /\ run \in [Engine -> RunRow]
    BY <1>2 DEF Types, ListInv
  <1>6. /\ list' \in Seq(Rec) /\ Distinct(list')
        /\ \A i \in DOMAIN list' :
             list'[i] = r \/ \E j \in DOMAIN list : list'[i] = list[j] /\ list[j] # r
        /\ \A j \in DOMAIN list : list[j] # r =>
             \E i \in DOMAIN list' : list'[i] = list[j] /\ i >= j
    BY <1>1, <1>5, PutInFront
  <1>7. \A i \in DOMAIN list' : version'[list'[i]] > 0
    <2>1. \A j \in DOMAIN list : list[j] \in Rec /\ version[list[j]] > 0
      BY <1>2, ListFacts DEF ListInv
    <2>2. \A j \in DOMAIN list : version'[list[j]] > 0
      BY <1>4, <2>1
    <2>. QED
      BY <1>4, <1>6, <2>2
  <1>8. DOMAIN list \subseteq Int /\ DOMAIN list' \subseteq Int
    BY <1>5, <1>6, LenProperties
  <1>9. ASSUME NEW e \in Engine, NEW p, p = run[e], NEW n, n = {x \in p.start : x[1] # r},
               NEW q, q = LeftTo(p, n)
        PROVE  /\ q = run'[e] /\ q \in RunRow
               /\ q.stage = p.stage /\ q.id = p.id /\ q.page = p.page /\ q.tx = p.tx
               /\ \A s : s = Seen(e) => RunOk(q, s)'
    <2>1. PICK k : k = n
      OBVIOUS
    <2>2. PICK h : h = LeftTo(p, k)
      OBVIOUS
    <2>3. p \in RunRow
      BY <1>9, At1
    <2>4. k \in SUBSET Snapshot /\ k \subseteq p.start /\ \A x \in k : x[1] # r
      BY <1>9, <2>1, <2>3, RunFacts
    <2>5. /\ h \in RunRow /\ h.stage = p.stage /\ h.id = p.id /\ h.page = p.page /\ h.tx = p.tx
          /\ h.got = p.got /\ h.total = p.total /\ h.payload = p.payload /\ h.known = p.known
          /\ h.start = k /\ h.shifted = p.shifted
      BY <2>2, <2>3, <2>4, LeftFacts
    <2>6. h = q
      BY <1>9, <2>1, <2>2
    <2>7. q = run'[e]
      BY <1>1, <1>9 DEF LeftTo
    <2>8. ASSUME NEW s, s = Seen(e)
          PROVE  RunOk(h, s)'
      <3>1. RunOk(p, s)
        BY <1>9, <2>8, At1
      <3>2. ASSUME h.stage \in {"ask", "write", "upsert", "turn"}, ~h.shifted, NEW x \in h.start
            PROVE  Covered(h, s, x)'
        <4>1. Covered(p, s, x) /\ x[1] # r
          BY <2>4, <2>5, <3>1, <3>2 DEF RunOk, CoverOk
        <4>2. ASSUME NEW m \in Int, Ahead(x[1], m)
              PROVE  Ahead(x[1], m)'
          <5>1. PICK j \in DOMAIN list : list[j] = x[1] /\ j > m
            BY <4>2 DEF Ahead
          <5>2. PICK i \in DOMAIN list' : list'[i] = list[j] /\ i >= j
            BY <1>6, <4>1, <5>1
          <5>3. i > m
            BY <1>8, <5>1, <5>2
          <5>. QED
            BY <5>1, <5>2, <5>3 DEF Ahead
        <4>3. Before(p) \in Int /\ Behind(p) \in Int
          <5>1. setting.served \in Int /\ p.page \in Int
            BY <1>2, <2>3, SettingFacts, RunFacts DEF Types
          <5>. QED
            BY <5>1 DEF Before, Behind
        <4>4. /\ Before(h)' = Before(p) /\ Behind(h)' = Behind(p) /\ Length(h)' = Length(p)
          BY <1>3, <2>5 DEF Before, Behind, Length
        <4>5. CASE s.raw[x[1]] >= x[2]
          BY <4>5 DEF Covered
        <4>6. CASE p.stage = "ask" /\ Ahead(x[1], Before(p))
          <5>1. Ahead(x[1], Before(p))'
            <6>1. PICK m : m = Before(p)
              OBVIOUS
            <6>2. Ahead(x[1], m)'
              BY <4>2, <4>3, <4>6, <6>1
            <6>3. Before(p)' = m
              BY <1>3, <6>1 DEF Before
            <6>. QED
              BY <6>2, <6>3 DEF Ahead
          <5>2. Before(p)' = Before(h)'
            BY <2>5 DEF Before
          <5>. QED
            BY <2>5, <4>6, <5>1, <5>2 DEF Covered, Ahead
        <4>7. CASE /\ p.stage \in {"write", "upsert"}
                   /\ \E y \in p.payload : y[1] = x[1] /\ x[2] <= y[2]
          BY <2>5, <4>7 DEF Covered
        <4>8. CASE /\ p.stage \in {"write", "upsert", "turn"} /\ setting.paging # "none"
                   /\ Behind(p) < Length(p) /\ Ahead(x[1], Behind(p))
          <5>1. PICK m : m = Behind(p)
            OBVIOUS
          <5>2. Ahead(x[1], m)'
            BY <4>2, <4>3, <4>8, <5>1
          <5>3. Behind(h)' = m /\ Behind(h)' < Length(h)'
            BY <4>4, <4>8, <5>1
          <5>4. h.stage \in {"write", "upsert", "turn"} /\ setting'.paging # "none"
            BY <1>3, <2>5, <4>8
          <5>. QED
            BY <5>2, <5>3, <5>4 DEF Covered, Ahead
        <4>. QED
          BY <4>1, <4>5, <4>6, <4>7, <4>8 DEF Covered
      <3>. QED
        BY <1>3, <1>4, <2>3, <2>4, <2>5, <3>1, <3>2, ChangedOk
    <2>. QED
      BY <2>5, <2>6, <2>7, <2>8
  <1>10. ASSUME NEW e \in Engine
         PROVE  /\ run'[e] \in RunRow
                /\ run'[e].stage = run[e].stage /\ run'[e].tx = run[e].tx
                /\ run'[e].id = run[e].id /\ run'[e].page = run[e].page
                /\ \A q, s : q = run'[e] /\ s = Seen(e) => RunOk(q, s)'
    <2>1. PICK p : p = run[e]
      OBVIOUS
    <2>2. PICK n : n = {x \in p.start : x[1] # r}
      OBVIOUS
    <2>3. PICK q : q = LeftTo(p, n)
      OBVIOUS
    <2>4. /\ q = run'[e] /\ q \in RunRow
          /\ q.stage = p.stage /\ q.id = p.id /\ q.page = p.page /\ q.tx = p.tx
          /\ \A s : s = Seen(e) => RunOk(q, s)'
      BY <1>9, <2>1, <2>2, <2>3
    <2>5. ASSUME NEW h, NEW s, h = run'[e], s = Seen(e)
          PROVE  RunOk(h, s)'
      BY <2>4, <2>5
    <2>. QED
      BY <2>1, <2>4, <2>5
  <1>11. run' \in [Engine -> RunRow]
    BY <1>1, <1>10
  <1>. QED
    BY <1>1, <1>4, <1>6, <1>7, <1>10, <1>11, ChangeStep

LEMMA VanishStep ==
  ASSUME Bounds, IInv, NEW r \in Rec, Vanish(r)
  PROVE  IInv'
  <1>1. /\ Change /\ version' = version /\ list' = Without(r)
        /\ run' = [e \in Engine |-> IF At(e, "idle") THEN Idle
                                    ELSE [run[e] EXCEPT !.shifted = TRUE]]
    BY DEF Vanish
  <1>2. Types /\ ListInv
    BY DEF IInv
  <1>3. setting' = setting
    BY <1>1 DEF Change
  <1>4. version \in [Rec -> Nat] /\ list \in Seq(Rec) /\ Distinct(list)
    BY <1>2 DEF Types, ListInv
  <1>5. /\ version' \in [Rec -> Nat] /\ \A x \in Rec : version[x] <= version'[x]
    BY <1>1, <1>4
  <1>6. /\ list' \in Seq(Rec) /\ Distinct(list')
        /\ \A i \in DOMAIN list' : \E j \in DOMAIN list : list'[i] = list[j]
    <2>1. /\ Without(r) \in Seq(Rec) /\ Distinct(Without(r))
          /\ \A i \in DOMAIN Without(r) :
               \E j \in DOMAIN list : Without(r)[i] = list[j] /\ list[j] # r
      BY <1>4, TakenOut
    <2>2. Distinct(list') = Distinct(Without(r))
      BY <1>1
    <2>. QED
      BY <1>1, <2>1, <2>2
  <1>7. \A i \in DOMAIN list' : version'[list'[i]] > 0
    BY <1>1, <1>2, <1>6 DEF ListInv
  <1>8. ASSUME NEW e \in Engine
        PROVE  /\ run'[e] \in RunRow
               /\ run'[e].stage = run[e].stage /\ run'[e].tx = run[e].tx
               /\ run[e].stage # "idle" => run'[e].id = run[e].id /\ run'[e].page = run[e].page
               /\ \A q, s : q = run'[e] /\ s = Seen(e) => RunOk(q, s)'
    <2>1. PICK p : p = run[e]
      OBVIOUS
    <2>2. PICK s : s = Seen(e)
      OBVIOUS
    <2>3. p \in RunRow /\ RunOk(p, s) /\ StoreOk(s)
      BY <2>1, <2>2, At1 DEF RunOk
    <2>4. ASSUME NEW q \in RunRow, q = run'[e], q.stage = p.stage, q.tx = p.tx,
                 p.stage # "idle" => q.id = p.id /\ q.page = p.page, RunOk(q, s)'
          PROVE  /\ run'[e] \in RunRow
                 /\ run'[e].stage = run[e].stage /\ run'[e].tx = run[e].tx
                 /\ run[e].stage # "idle" => run'[e].id = run[e].id /\ run'[e].page = run[e].page
                 /\ \A h, b : h = run'[e] /\ b = Seen(e) => RunOk(h, b)'
      <3>1. ASSUME NEW h, NEW b, h = run'[e], b = Seen(e)
            PROVE  RunOk(h, b)'
        <4>1. h = q /\ b = s
          BY <2>2, <2>4, <3>1
        <4>. QED
          BY <2>4, <4>1
      <3>. QED
        BY <2>1, <2>4, <3>1
    <2>5. CASE p.stage = "idle"
      <3>1. PICK q : q = Idle
        OBVIOUS
      <3>2. q \in RunRow /\ q.stage = "idle" /\ q.tx = << >> /\ q.payload = {} /\ q.start = {}
        BY <2>3, <3>1, IdleOk DEF Idle
      <3>3. q = run'[e]
        BY <1>1, <2>1, <2>5, <3>1 DEF At
      <3>4. p.tx = << >>
        BY <2>3, <2>5 DEF RunOk, OpenOk, Busy
      <3>5. RunOk(q, s)'
        <4>1. StoreOk(s)'
          BY <1>1, <1>3, <2>3 DEF StoreOk
        <4>2. OpenOk(q)'
          BY <3>2 DEF OpenOk
        <4>3. WriteOk(q, s)'
          <5>1. PageOf({})'
            BY FS_EmptySet DEF PageOf
          <5>. QED
            BY <3>2, <5>1 DEF WriteOk
        <4>4. WalkOk(q)'
          BY <3>2 DEF WalkOk
        <4>5. CoverOk(q, s)'
          BY <3>2 DEF CoverOk
        <4>. QED
          BY <4>1, <4>2, <4>3, <4>4, <4>5 DEF RunOk
      <3>. QED
        BY <2>4, <2>5, <3>2, <3>3, <3>4, <3>5
    <2>6. CASE p.stage # "idle"
      <3>1. PICK q : q = MovedTo(p)
        OBVIOUS
      <3>2. /\ q \in RunRow /\ q.stage = p.stage /\ q.id = p.id /\ q.page = p.page /\ q.tx = p.tx
            /\ q.got = p.got /\ q.total = p.total /\ q.payload = p.payload /\ q.known = p.known
            /\ q.start = p.start /\ q.shifted
        BY <2>3, <3>1, MovedFacts
      <3>3. q = run'[e]
        BY <1>1, <2>1, <2>6, <3>1 DEF At, MovedTo
      <3>4. RunOk(q, s)'
        BY <1>3, <1>4, <1>5, <2>3, <3>2, ChangedOk
      <3>. QED
        BY <2>4, <3>2, <3>3, <3>4
    <2>. QED
      BY <2>5, <2>6
  <1>9. run' \in [Engine -> RunRow]
    BY <1>1, <1>8
  <1>. QED
    BY <1>1, <1>5, <1>6, <1>7, <1>8, <1>9, ChangeStep

-----------------------------------------------------------------------------
(* The theorems.                                                            *)

LEMMA InitOk ==
  ASSUME Bounds, Init
  PROVE  IInv
  <1>1. /\ setting \in Setting /\ list = First
        /\ version = [r \in Rec |-> IF \E i \in DOMAIN First : First[i] = r THEN 1 ELSE 0]
        /\ raw = [r \in Rec |-> 0] /\ history = {} /\ count = 0
        /\ batches = << >> /\ logs = << >> /\ point = 0 /\ vouched = {}
        /\ run = [e \in Engine |-> Idle]
    BY DEF Init
  <1>2. list \in Seq(Rec) /\ Distinct(list)
    BY <1>1 DEF Bounds, Distinct
  <1>3. version \in [Rec -> Nat]
    BY <1>1
  <1>4. Committed \in StoreRow /\ Committed.raw = raw /\ Committed.history = {}
        /\ Committed.count = 0
    BY <1>1 DEF Committed, StoreRow
  <1>5. StoreOk(Committed)
    <2>1. \A r \in Rec : Committed.raw[r] = 0
      BY <1>1, <1>4
    <2>2. Stored(Committed) = {}
      BY <2>1 DEF Stored
    <2>3. Committed.count = Cardinality(Stored(Committed))
      BY <1>4, <2>2, FS_EmptySet
    <2>4. \A r \in Rec : Committed.raw[r] <= version[r]
      BY <1>3, <2>1
    <2>. QED
      BY <1>4, <2>1, <2>3, <2>4 DEF StoreOk
  <1>6. /\ Idle \in RunRow /\ Idle.stage = "idle" /\ Idle.tx = << >> /\ RunOk(Idle, Committed)
    <2>1. PICK c : c = Committed
      OBVIOUS
    <2>2. Idle \in RunRow /\ Idle.stage = "idle" /\ Idle.tx = << >> /\ RunOk(Idle, c)
      BY <1>5, <2>1, IdleOk
    <2>. QED
      BY <2>1, <2>2
  <1>7. Types
    <2>1. batches \in Seq(Statuses) /\ logs \in Seq(SUBSET {"success", "failed", "paused"})
          /\ Len(logs) = Len(batches) /\ Len(batches) = 0
      BY <1>1
    <2>2. ReportOk
      BY <1>1, <2>1 DEF ReportOk
    <2>3. run \in [Engine -> RunRow] /\ \A e \in Engine : run[e].stage = "idle"
      BY <1>1, <1>6
    <2>. QED
      BY <1>1, <1>2, <1>3, <1>4, <2>2, <2>3 DEF Types, At
  <1>8. ListInv
    <2>1. \A i \in DOMAIN list : list[i] \in Rec
      BY <1>2, LenProperties
    <2>2. \A i \in DOMAIN list : version[list[i]] = 1
      BY <1>1, <2>1
    <2>. QED
      BY <1>2, <2>2 DEF ListInv
  <1>9. OneAtATime
    BY <1>1, <1>6 DEF OneAtATime, At
  <1>10. ASSUME NEW e \in Engine
         PROVE  RunOk(run[e], Seen(e)) /\ \A r \in Rec : raw[r] <= Seen(e).raw[r]
    <2>1. run[e] = Idle
      BY <1>1
    <2>2. Seen(e) = Committed
      BY <1>6, <2>1 DEF Seen
    <2>3. \A r \in Rec : raw[r] <= raw[r]
      BY <1>1
    <2>. QED
      BY <1>4, <1>6, <2>1, <2>2, <2>3
  <1>11. VouchedIsStored
    BY <1>1 DEF VouchedIsStored
  <1>. QED
    BY <1>5, <1>7, <1>8, <1>9, <1>10, <1>11 DEF IInv

LEMMA StepOk ==
  ASSUME Bounds, IInv, [Next]_vars
  PROVE  IInv'
  <1>1. CASE UNCHANGED vars
    <2>1. UNCHANGED <<upstream, store, report, run>>
      BY <1>1 DEF vars
    <2>2. /\ setting' = setting /\ list' = list /\ version' = version /\ raw' = raw
          /\ history' = history /\ count' = count /\ batches' = batches /\ logs' = logs
          /\ point' = point /\ vouched' = vouched /\ run' = run
      BY <2>1 DEF upstream, store, report
    <2>3. Committed' = Committed /\ \A e \in Engine : Seen(e)' = Seen(e)
      BY <2>2 DEF Committed, Seen
    <2>4. Types' /\ ListInv' /\ OneAtATime' /\ VouchedIsStored'
      BY <2>2, <2>3 DEF IInv, Types, ReportOk, At, ListInv, Distinct, OneAtATime, VouchedIsStored
    <2>5. StoreOk(Committed)'
      BY <2>2, <2>3 DEF IInv, StoreOk, Stored
    <2>6. ASSUME NEW e \in Engine
          PROVE  (RunOk(run[e], Seen(e)) /\ \A r \in Rec : raw[r] <= Seen(e).raw[r])'
      <3>1. PICK q : q = run[e]
        OBVIOUS
      <3>2. PICK s : s = Seen(e)
        OBVIOUS
      <3>3. RunOk(q, s)
        BY <3>1, <3>2 DEF IInv
      <3>4. RunOk(q, s)'
        BY <2>1, <3>3, Upstream
      <3>5. RunOk(run[e], Seen(e))'
        BY <2>2, <2>3, <3>1, <3>2, <3>4 DEF RunOk, OpenOk, StoreOk, WriteOk, WalkOk, CoverOk,
                                            Paged, Before, Behind, Length, Covered
      <3>. QED
        BY <2>2, <2>3, <3>5 DEF IInv
    <2>. QED
      BY <2>4, <2>5, <2>6 DEF IInv
  <1>2. ASSUME NEW e \in Engine,
               \/ Begin(e) \/ Answer(e) \/ RequestFails(e) \/ LookUp(e) \/ Write(e)
               \/ LoseConnection(e) \/ WriteFails(e) \/ LoseTransaction(e) \/ NextPage(e)
               \/ Pause(e) \/ Succeed(e) \/ SucceedUnheard(e) \/ Truncated(e) \/ LogFailure(e)
               \/ Close(e) \/ Die(e)
        PROVE  IInv'
    <2>1. CASE RequestFails(e) \/ WriteFails(e) \/ Truncated(e)
      <3>1. /\ ~At(e, "idle") /\ Become(e, Failed(run[e]))
            /\ UNCHANGED <<upstream, store, report>>
        BY <2>1 DEF RequestFails, WriteFails, Truncated, At
      <3>. QED
        BY <3>1, FailStep
    <2>. QED
      BY <1>2, <2>1, BeginStep, AnswerStep, LookUpStep, WriteStep, LoseConnectionStep,
         LoseTransactionStep, NextPageStep, PauseStep, SuccessSteps, LogFailureStep, CloseStep,
         DieStep
  <1>3. ASSUME NEW r \in Rec, Appear(r) \/ Touch(r) \/ Vanish(r)
        PROVE  IInv'
    BY <1>3, AppearStep, TouchStep, VanishStep
  <1>. QED
    BY <1>1, <1>2, <1>3 DEF Next

\* What the invariant says of what can be seen from outside.
LEMMA Promises ==
  ASSUME IInv
  PROVE  TypeOK /\ VouchedIsStored /\ StoreAgrees
  <1>1. VouchedIsStored /\ Types /\ StoreOk(Committed)
    BY DEF IInv
  <1>2. Committed.raw = raw /\ Committed.count = count /\ Committed.history = history
    BY DEF Committed
  <1>3. StoreAgrees
    BY <1>2 DEF IInv, StoreOk, Stored, StoreAgrees
  <1>4. TypeOK
    <2>1. raw \in [Rec -> Nat] /\ count \in Nat /\ \A r \in Rec : raw[r] <= version[r]
      BY <1>1, <1>2, StoreFacts DEF StoreOk
    <2>2. \A i \in DOMAIN logs : logs[i] \subseteq {"success", "failed", "paused"}
      BY <1>1, LenProperties DEF Types, ReportOk
    <2>. QED
      BY <1>1, <2>1, <2>2 DEF TypeOK, Types, ReportOk
  <1>. QED
    BY <1>1, <1>3, <1>4

\* What a run of an API relies on holds before and after each of its steps, and of each change
\* of the upstream list: _paged_payloads, _insert_raw_items, _sync_one_api.
THEOREM Inductive ==
  ASSUME Bounds
  PROVE  Spec => []IInv
  <1>1. Init => IInv
    BY InitOk
  <1>2. IInv /\ [Next]_vars => IInv'
    BY StepOk
  <1>. QED
    BY <1>1, <1>2, PTL DEF Spec

\* The tables, the batches and the logs stay what they are, and no snapshot is newer than its
\* record ever was.
THEOREM TypeCorrect ==
  ASSUME Bounds
  PROVE  Spec => []TypeOK
  <1>1. IInv => TypeOK
    BY Promises
  <1>. QED
    BY <1>1, Inductive, PTL

\* A success and its checkpoint stand for every record that was in the list when the run
\* began (_sync_one_api writes the checkpoint last), whatever failed, was retried or changed
\* meanwhile, if no record vanished from the list under the run.
THEOREM VouchedStored ==
  ASSUME Bounds
  PROVE  Spec => []VouchedIsStored
  <1>1. IInv => VouchedIsStored
    BY Promises
  <1>. QED
    BY <1>1, Inductive, PTL

\* The record count counts the stored records while one run follows the other, and the history
\* holds each snapshot (_insert_raw_items).
THEOREM StoreRight ==
  ASSUME Bounds
  PROVE  Spec => []StoreAgrees
  <1>1. IInv => StoreAgrees
    BY Promises
  <1>. QED
    BY <1>1, Inductive, PTL

=============================================================================
