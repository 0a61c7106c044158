---------------------------- MODULE ParamSource ----------------------------
(***************************************************************************)
(* An API whose parameters come from the stored rows of another one          *)
(* (_sync_api_from_param_source_in_batch, raw_json_param_source.py): a run   *)
(* asks for at most Limit keys.  Which ones come next is kept as an offset   *)
(* into the sorted keys ("offset"), or follows from the rows that are        *)
(* missing ("missing") or oldest ("refresh") in the target.                  *)
(*                                                                          *)
(* A run is one transaction; keys are numbers in the order of the query.     *)
(***************************************************************************)
EXTENDS Integers, FiniteSets

CONSTANTS
  Key,       \* values a source row may give
  Mode,      \* "offset", "missing", "refresh"
  Limit,     \* param_source.limit
  Fresh,     \* runs after which a target row is asked for again ("refresh")
  MaxRuns    \* bound: runs that succeed

VARIABLES
  mode,
  hollow,    \* keys the upstream has nothing for
  source,    \* keys of the stored source rows
  target,    \* when the target row of each key was written, 0 for never
  offset,    \* checkpoint: next_param_offset
  late,      \* keys that arrived in front of the offset, or of a key being asked for
  asked,     \* keys that were ever asked for
  waits,     \* runs that succeeded after a key arrived and before it was first asked for
  done,      \* runs that succeeded
  run        \* the run under way: keys still to ask, and what its transaction wrote

vars == <<mode, hollow, source, target, offset, late, asked, waits, done, run>>

Idle == [stage |-> "idle", keys |-> {}, left |-> {}, wrote |-> {}]

\* Fewer keys than the limit have no answer: as many would block all the others.
Init ==
  /\ mode \in Mode
  /\ hollow \in {H \in SUBSET Key : Cardinality(H) < Limit}
  /\ source = {} /\ late = {} /\ asked = {}
  /\ target = [k \in Key |-> 0]
  /\ offset = 0 /\ done = 0
  /\ waits = [k \in Key |-> 0]
  /\ run = Idle

\* _param_source_offset: a scan for missing rows is its own progress.
Offset == IF mode = "offset" THEN offset ELSE 0

\* The WHERE clause: the rows whose target is missing, or was written too long ago.
Wanted ==
  {k \in source : \/ mode = "offset"
                  \/ target[k] = 0
                  \/ mode = "refresh" /\ target[k] + Fresh <= done}

\* The ORDER BY clause: keys without a target first, then the oldest, then by key.
Before(a, b) ==
  IF mode = "refresh" /\ target[a] # target[b] THEN target[a] < target[b] ELSE a < b

\* _source_param_sets: at most Limit keys from the offset on.
Selected ==
  {k \in Wanted : Cardinality({j \in Wanted : Before(j, k)}) \in Offset .. Offset + Limit - 1}

Select ==
  /\ run.stage = "idle" /\ done < MaxRuns
  /\ run' = [Idle EXCEPT !.stage = "asking", !.keys = Selected, !.left = Selected]
  /\ UNCHANGED <<mode, hollow, source, target, offset, late, asked, waits, done>>

\* The keys are asked for in order; what comes back is stored.
Ask(k) ==
  /\ run.stage = "asking" /\ k \in run.left
  /\ \A j \in run.left : ~Before(j, k)
  /\ run' = [run EXCEPT !.left = @ \ {k}, !.wrote = IF k \in hollow THEN @ ELSE @ \cup {k}]
  /\ asked' = asked \cup {k}
  /\ UNCHANGED <<mode, hollow, source, target, offset, late, waits, done>>

\* A slip: the offset moves by a whole window, however few keys there were.
NextOffsetByLimit == Offset + Limit

\* next_param_offset: the offset moves by the keys that were asked for.
NextOffset == Offset + Cardinality(run.keys)

\* All keys were asked for: rows, checkpoint and success are one commit.
Succeed ==
  /\ run.stage = "asking" /\ run.left = {}
  /\ done' = done + 1
  /\ target' = [k \in Key |-> IF k \in run.wrote THEN done + 1 ELSE target[k]]
  /\ offset' = NextOffset
  /\ waits' = [k \in Key |-> IF k \in source \ asked THEN waits[k] + 1 ELSE waits[k]]
  /\ run' = Idle
  /\ UNCHANGED <<mode, hollow, source, late, asked>>

\* A request fails, or its answer cannot be stored: the run ends there, and the rows
\* so far are committed with the failure.
Fail ==
  /\ run.stage = "asking" /\ run.left # {}
  /\ target' = [k \in Key |-> IF k \in run.wrote THEN done + 1 ELSE target[k]]
  /\ run' = Idle
  /\ UNCHANGED <<mode, hollow, source, offset, late, asked, waits, done>>

\* The connection or the process is lost, and the transaction with it.
Lose ==
  /\ run.stage = "asking"
  /\ run' = Idle
  /\ UNCHANGED <<mode, hollow, source, target, offset, late, asked, waits, done>>

\* The source API stores a row with a new key.
Arrive(k) ==
  /\ k \notin source
  /\ source' = source \cup {k}
  /\ late' = IF \/ Cardinality({j \in source : j < k}) < offset
                \/ \E j \in run.keys : k < j
             THEN late \cup {k} ELSE late
  /\ UNCHANGED <<mode, hollow, target, offset, asked, waits, done, run>>

Next ==
  \/ Select \/ Succeed \/ Fail \/ Lose
  \/ \E k \in Key : Ask(k) \/ Arrive(k)

Spec == Init /\ [][Next]_vars

-----------------------------------------------------------------------------
(* Properties.                                                              *)

TypeOK ==
  /\ source \subseteq Key /\ late \subseteq source /\ asked \subseteq source
  /\ target \in [Key -> 0 .. MaxRuns + 1]
  /\ waits \in [Key -> Nat]
  /\ run.keys \subseteq source /\ run.left \subseteq run.keys /\ run.wrote \subseteq run.keys

\* Every key gets its turn: after as many successful runs as there are keys it has
\* been asked for, whatever failed or was lost in between, and whichever keys the
\* upstream has nothing for.  An offset steps over a key that arrives in front of it.
EveryKeyGetsItsTurn ==
  \A k \in source : waits[k] < Cardinality(Key) \/ (mode = "offset" /\ k \in late)

=============================================================================
