---------------------------- MODULE RateLimiter ----------------------------
(***************************************************************************)
(* The request slots of the upstream APIs, shared by all workers through    *)
(* one row per API (api_rate_limiter.py), and the calls that compete for    *)
(* them (api_client.py, auth.py, retry.py): a call takes a slot, sends,     *)
(* spreads a cooldown when it is told to slow down, renews its token once,  *)
(* and is tried again.                                                      *)
(*                                                                          *)
(* The row lock makes a transaction one step from the moment it has the row *)
(* on, but the transaction reads the time before it waits for the row: the  *)
(* time it works with may be old.  Times are integers on the database clock.*)
(***************************************************************************)
EXTENDS Integers

CONSTANTS
  Caller,     \* threads that call the API
  Interval,   \* seconds between two slots of the API and of the token endpoint
  Cooldown,   \* what a 429 may ask for: Retry-After, or the period of the API
  Retries,    \* attempts of one call
  MaxClock    \* bound: the last instant of the model

Key == {"api", "token"}

ASSUME PaceAssumption ==
  /\ Interval \in [Key -> Nat] /\ Cooldown \subseteq Nat
  /\ Retries \in Nat \ {0} /\ MaxClock \in Nat

VARIABLES
  clock,
  next,       \* next_allowed_at of each row, Absent before the first use
  call,       \* what each caller is doing
  slot,       \* per row, the end of the interval of the last slot given
  cool        \* per row, the end of the longest cooldown noted

vars == <<clock, next, call, slot, cool>>

Absent == -1
Idle == [stage |-> "idle", key |-> "api", now |-> 0, wait |-> 0, attempt |-> 0,
         renewed |-> FALSE]

Init ==
  /\ clock = 0
  /\ next = [k \in Key |-> Absent]
  /\ call = [c \in Caller |-> Idle]
  /\ slot = [k \in Key |-> Absent]
  /\ cool = [k \in Key |-> Absent]

At(c, stage) == call[c].stage = stage
Become(c, state) == call' = [call EXCEPT ![c] = state]
Go(c, stage) == Become(c, [call[c] EXCEPT !.stage = stage, !.now = 0, !.wait = 0])
Later(a, b) == IF a > b THEN a ELSE b

\* retry_call: the next attempt starts over; the token of a call has no second one.
AfterFailure(c) ==
  IF call[c].attempt \in 1 .. Retries - 1
  THEN [Idle EXCEPT !.stage = "ask", !.attempt = call[c].attempt + 1]
  ELSE Idle

\* _ensure_state: a row used for the first time allows a request at once.
Row(k, now) == IF next[k] = Absent THEN now ELSE next[k]

\* A call begins with a token: the cached one of the command line, or a new one.
Begin(c) ==
  /\ At(c, "idle")
  /\ \/ Become(c, [Idle EXCEPT !.stage = "ask", !.key = "token"])
     \/ Become(c, [Idle EXCEPT !.stage = "ask", !.attempt = 1])
  /\ UNCHANGED <<clock, next, slot, cool>>

\* acquire and defer: the transaction reads the time, then waits for the row.
ReadNow(c) ==
  /\ \/ /\ At(c, "ask") /\ clock >= call[c].wait
        /\ Become(c, [call[c] EXCEPT !.stage = "take", !.now = clock, !.wait = 0])
     \/ At(c, "told") /\ Become(c, [call[c] EXCEPT !.stage = "defer", !.now = clock])
  /\ UNCHANGED <<clock, next, slot, cool>>

\* acquire: the row is due, and the caller takes the slot.
Take(c) ==
  LET k == call[c].key
      until == call[c].now + Interval[k]
  IN
  /\ At(c, "take")
  /\ Row(k, call[c].now) <= call[c].now
  /\ next' = [next EXCEPT ![k] = until]
  /\ slot' = [slot EXCEPT ![k] = until]
  /\ Go(c, "sent")
  /\ UNCHANGED <<clock, cool>>

\* acquire: the row is not due; the caller sleeps outside the transaction.
Wait(c) ==
  LET k == call[c].key IN
  /\ At(c, "take")
  /\ Row(k, call[c].now) > call[c].now
  /\ Become(c, [call[c] EXCEPT !.stage = "ask", !.now = 0,
                               !.wait = clock + Row(k, call[c].now) - call[c].now])
  /\ UNCHANGED <<clock, next, slot, cool>>

\* A slip: the newest cooldown replaces what the row says.
DeferShortens(c) ==
  LET k == call[c].key
      until == call[c].now + call[c].wait
  IN
  /\ At(c, "defer")
  /\ next' = [next EXCEPT ![k] = until]
  /\ cool' = [cool EXCEPT ![k] = Later(@, until)]
  /\ Become(c, AfterFailure(c))
  /\ UNCHANGED <<clock, slot>>

\* defer: the cooldown is spread to all callers; it never shortens a longer one.
Defer(c) ==
  LET k == call[c].key
      until == call[c].now + call[c].wait
  IN
  /\ At(c, "defer")
  /\ next' = [next EXCEPT ![k] = Later(Row(k, call[c].now), until)]
  /\ cool' = [cool EXCEPT ![k] = Later(@, until)]
  /\ Become(c, AfterFailure(c))
  /\ UNCHANGED <<clock, slot>>

\* JijiaApiClient.request and get_access_token: the answer to what was sent.
Succeed(c) ==
  /\ At(c, "sent")
  /\ \/ call[c].key = "api" /\ Become(c, Idle)
     \/ /\ call[c].key = "token"
        /\ Become(c, [call[c] EXCEPT !.stage = "ask", !.key = "api",
                        !.attempt = IF @ = 0 THEN 1 ELSE @,
                        !.renewed = call[c].attempt # 0])
  /\ UNCHANGED <<clock, next, slot, cool>>

\* retry_after_seconds: a number or a date in the header, else the cooldown of the API.
RetryAfter == Cooldown

\* _defer_rate_limit, of a 429 or 509.
TellToSlowDown(c) ==
  /\ At(c, "sent")
  /\ \E s \in RetryAfter : Become(c, [call[c] EXCEPT !.stage = "told", !.wait = s])
  /\ UNCHANGED <<clock, next, slot, cool>>

\* 401: the token is renewed once, then the request is sent again.
Unauthorized(c) ==
  /\ At(c, "sent") /\ call[c].key = "api" /\ ~call[c].renewed
  /\ Become(c, [call[c] EXCEPT !.stage = "ask", !.key = "token"])
  /\ UNCHANGED <<clock, next, slot, cool>>

\* A timeout, another status, a business error, a refused token.
Break(c) ==
  /\ At(c, "sent")
  /\ Become(c, AfterFailure(c))
  /\ UNCHANGED <<clock, next, slot, cool>>

\* The process of a caller dies; its transaction is rolled back.
Die(c) ==
  /\ ~At(c, "idle")
  /\ Become(c, Idle)
  /\ UNCHANGED <<clock, next, slot, cool>>

Tick ==
  /\ clock < MaxClock
  /\ clock' = clock + 1
  /\ UNCHANGED <<next, call, slot, cool>>

Next ==
  \/ \E c \in Caller :
       \/ Begin(c) \/ ReadNow(c) \/ Take(c) \/ Wait(c) \/ Defer(c)
       \/ Succeed(c) \/ TellToSlowDown(c) \/ Unauthorized(c) \/ Break(c)
       \/ Die(c)
  \/ Tick

Spec == Init /\ [][Next]_vars

-----------------------------------------------------------------------------
(* Properties.                                                              *)

TypeOK ==
  /\ clock \in 0 .. MaxClock
  /\ next \in [Key -> Int]
  /\ \A c \in Caller : call[c].now <= clock /\ call[c].attempt \in 0 .. Retries
  /\ {slot, cool} \subseteq [Key -> Int]

\* Whoever else takes slots, and however late a transaction gets the row after it
\* read the time, a slot is never given within the interval of an earlier one nor
\* before a cooldown that was noted has passed.
SlotsAreSpaced ==
  [][\A c \in Caller :
       At(c, "take") /\ call'[c].stage = "sent" =>
         LET k == call[c].key IN
         call[c].now >= slot[k] /\ call[c].now >= cool[k]]_vars

=============================================================================
