----------------------------- MODULE MCServices -----------------------------
(***************************************************************************)
(* Small instances of the modules that share no state with each other, in   *)
(* one run: a behaviour has its focus on one of them from the start, and    *)
(* the variables of the others keep the value 0.                            *)
(*                                                                          *)
(* Two of them are followed as long as they stay inside a story: what a     *)
(* story bounds grows, or is opened and undone by steps of its own, so what *)
(* a story can do is reached through states inside it.                      *)
(***************************************************************************)
EXTENDS RateLimiter, Sequences, FiniteSets, TLC

CONSTANTS
  Actor,                  \* what is interchangeable: callers, requests, engines, jobs, runs
  a1, a2, u1, u2, i1, i2, n1, b2,
  LastDay, Floor, ScanDays, JobDays, Scanner, MaxChanges,  \* of BackfillStart
  Batch, Version,                                          \* of LegacyAttribution
  Endpoint, MaxCredentials, MaxVersions, MaxJobs,          \* of JobInputs
  ParamKey, Limit, RefreshAfter, MaxParamRuns              \* of ParamSource

ASSUME ScanAssumption ==
  /\ LastDay \in Nat /\ Floor \in Int
  /\ ScanDays \in Nat \ {0} /\ JobDays \in Nat \ {0}

ASSUME InputsAssumption ==
  {MaxCredentials, MaxVersions, MaxJobs} \subseteq Nat /\ MaxVersions > 0

ASSUME ParamsAssumption ==
  /\ ParamKey \subseteq Int /\ IsFiniteSet(ParamKey)
  /\ {Limit, RefreshAfter, MaxParamRuns} \subseteq Nat

\* The batch of the sync is new, the other values stand for nothing.
ASSUME BatchesAssumption ==
  /\ b2 \notin Batch /\ "none" \notin Batch /\ b2 # "none"
  /\ "free" \notin Actor

VARIABLES
  focus,
  user, token, issued, pending, session, opened, now,
  setting, list, version, raw, history, count, batches, logs, vouched,
  mode, hollow, source, target, offset, late, asked, waits, done,
  data, scan, stable, fetched,
  account, proven, config, jobs,
  row, silent, exec, threads,
  db, lock, seen, answer, moved,
  pc,        \* of WorkerRuntime and LegacyAttribution
  request,   \* of Access and JobInputs
  run,       \* of ApiSync and ParamSource
  changes,   \* of ApiSync and BackfillStart
  point,     \* of ApiSync and BackfillStart
  job        \* of BackfillStart and WorkerRuntime

Limiter == <<clock, next, call, slot, cool>>
OfUsers == <<user, token, issued, pending, session, opened, now>>
OfSync == <<setting, list, version, raw, history, count, batches, logs, vouched>>
OfParams == <<mode, hollow, source, target, offset, late, asked, waits, done>>
OfBackfill == <<data, scan, stable, fetched>>
OfInputs == <<account, proven, config, jobs>>
OfRegistry == <<row, silent, exec, threads>>
OfLegacy == <<db, lock, seen, answer, moved>>

MCvars == <<focus, Limiter, OfUsers, OfSync, OfParams, OfBackfill, OfInputs, OfRegistry,
            OfLegacy, pc, request, run, changes, point, job>>

-----------------------------------------------------------------------------
(* The instances.                                                           *)

\* The token endpoint allows a request each second, the API every other second.
Pace == [k \in Key |-> IF k = "api" THEN 2 ELSE 1]

Users == INSTANCE AccessProofs WITH
  Request <- Actor, User <- {u1, u2}, FirstAdmin <- u1, MaxTokens <- 3, MaxSessions <- 2,
  MaxPasswords <- 2, MaxNow <- 3, MaxFailures <- 1, TouchEvery <- 1, IdleFor <- 2,
  AbsoluteFor <- 3

\* An API with a history over overlapping runs, snapshots with pages in transactions of
\* their own, and whole APIs in one: paged with a limit, or not paged at all.
Api(commit, storage, paging, served, maxPages, overlap) ==
  [commit |-> commit, storage |-> storage, paging |-> paging, served |-> served,
   maxPages |-> maxPages, overlap |-> overlap, advance |-> paging # "none"]

Unlimited == -1

Sync == INSTANCE ApiSyncProofs WITH
  Rec <- {1, 2, 3}, Engine <- Actor, First <- <<1, 2, 3>>, PageSize <- 2,
  MaxChanges <- 1, MaxRuns <- 2,
  Setting <- {Api("pages", "history", "total", 2, Unlimited, TRUE),
              Api("pages", "latest", "total", 1, Unlimited, FALSE),
              Api("whole", "latest", "total", 2, 1, FALSE),
              Api("whole", "latest", "total", 2, 2, FALSE),
              Api("whole", "history", "short", 2, 2, FALSE),
              Api("whole", "latest", "none", 2, Unlimited, FALSE)}

Params == INSTANCE ParamSource WITH
  Key <- ParamKey, Mode <- {"offset", "missing", "refresh"}, Fresh <- RefreshAfter,
  MaxRuns <- MaxParamRuns

Backfill == INSTANCE BackfillStart WITH
  BesideJobs <- FALSE

Inputs == INSTANCE JobInputs WITH
  Request <- Actor, Overlap <- FALSE

Registry == INSTANCE WorkerRuntimeProofs WITH
  Job <- Actor, Instance <- {i1, i2}, Name <- {n1}, NameOf <- [i \in {i1, i2} |-> n1],
  MaxAttempts <- 2

Move == INSTANCE LegacyAttribution WITH
  Run <- Actor, NewBatch <- b2

-----------------------------------------------------------------------------
(* The values of what a behaviour does not follow.                          *)

NoUsers ==
  /\ user = 0 /\ token = 0 /\ issued = 0 /\ pending = 0
  /\ session = 0 /\ opened = 0 /\ now = 0
NoSync ==
  /\ setting = 0 /\ list = 0 /\ version = 0 /\ raw = 0 /\ history = 0
  /\ count = 0 /\ batches = 0 /\ logs = 0 /\ vouched = 0
NoParams ==
  /\ mode = 0 /\ hollow = 0 /\ source = 0 /\ target = 0 /\ offset = 0
  /\ late = 0 /\ asked = 0 /\ waits = 0 /\ done = 0
NoBackfill == data = 0 /\ scan = 0 /\ stable = 0 /\ fetched = 0
NoInputs == account = 0 /\ proven = 0 /\ config = 0 /\ jobs = 0
NoRegistry == row = 0 /\ silent = 0 /\ exec = 0 /\ threads = 0
NoLegacy == db = 0 /\ lock = 0 /\ seen = 0 /\ answer = 0 /\ moved = 0

MCInit ==
  /\ Init
  /\ \/ /\ focus = "limiter"
        /\ NoUsers /\ NoSync /\ NoParams /\ NoBackfill
        /\ NoInputs /\ NoRegistry /\ NoLegacy
        /\ pc = 0 /\ request = 0 /\ run = 0 /\ changes = 0 /\ point = 0 /\ job = 0
     \/ /\ focus = "users" /\ Users!Init
        /\ NoSync /\ NoParams /\ NoBackfill /\ NoInputs /\ NoRegistry /\ NoLegacy
        /\ pc = 0 /\ run = 0 /\ changes = 0 /\ point = 0 /\ job = 0
     \/ /\ focus = "sync" /\ Sync!Init
        /\ NoUsers /\ NoParams /\ NoBackfill /\ NoInputs /\ NoRegistry /\ NoLegacy
        /\ pc = 0 /\ request = 0 /\ job = 0
     \/ /\ focus = "params" /\ Params!Init
        /\ NoUsers /\ NoSync /\ NoBackfill /\ NoInputs /\ NoRegistry /\ NoLegacy
        /\ pc = 0 /\ request = 0 /\ changes = 0 /\ point = 0 /\ job = 0
     \/ /\ focus = "backfill" /\ Backfill!Init
        /\ NoUsers /\ NoSync /\ NoParams /\ NoInputs /\ NoRegistry /\ NoLegacy
        /\ pc = 0 /\ request = 0 /\ run = 0
     \/ /\ focus = "inputs" /\ Inputs!Init
        /\ NoUsers /\ NoSync /\ NoParams /\ NoBackfill /\ NoRegistry /\ NoLegacy
        /\ pc = 0 /\ run = 0 /\ changes = 0 /\ point = 0 /\ job = 0
     \/ /\ focus = "registry" /\ Registry!Init
        /\ NoUsers /\ NoSync /\ NoParams /\ NoBackfill /\ NoInputs /\ NoLegacy
        /\ request = 0 /\ run = 0 /\ changes = 0 /\ point = 0
     \/ /\ focus = "legacy" /\ Move!Init
        /\ NoUsers /\ NoSync /\ NoParams /\ NoBackfill /\ NoInputs /\ NoRegistry
        /\ request = 0 /\ run = 0 /\ changes = 0 /\ point = 0 /\ job = 0

MCNext ==
  \/ /\ focus = "limiter" /\ Next
     /\ UNCHANGED <<focus, OfUsers, OfSync, OfParams, OfBackfill, OfInputs, OfRegistry,
                    OfLegacy, pc, request, run, changes, point, job>>
  \/ /\ focus = "users" /\ Users!Next
     /\ UNCHANGED <<focus, Limiter, OfSync, OfParams, OfBackfill, OfInputs, OfRegistry,
                    OfLegacy, pc, run, changes, point, job>>
  \/ /\ focus = "sync" /\ Sync!Next
     /\ UNCHANGED <<focus, Limiter, OfUsers, OfParams, OfBackfill, OfInputs,
                    OfRegistry, OfLegacy, pc, request, job>>
  \/ /\ focus = "params" /\ Params!Next
     /\ UNCHANGED <<focus, Limiter, OfUsers, OfSync, OfBackfill, OfInputs, OfRegistry,
                    OfLegacy, pc, request, changes, point, job>>
  \/ /\ focus = "backfill" /\ Backfill!Next
     /\ UNCHANGED <<focus, Limiter, OfUsers, OfSync, OfParams, OfInputs, OfRegistry,
                    OfLegacy, pc, request, run>>
  \/ /\ focus = "inputs" /\ Inputs!Next
     /\ UNCHANGED <<focus, Limiter, OfUsers, OfSync, OfParams, OfBackfill, OfRegistry,
                    OfLegacy, pc, run, changes, point, job>>
  \/ /\ focus = "registry" /\ Registry!Next
     /\ UNCHANGED <<focus, Limiter, OfUsers, OfSync, OfParams, OfBackfill, OfInputs,
                    OfLegacy, request, run, changes, point>>
  \/ /\ focus = "legacy" /\ Move!Next
     /\ UNCHANGED <<focus, Limiter, OfUsers, OfSync, OfParams, OfBackfill, OfInputs,
                    OfRegistry, request, run, changes, point, job>>

MCSpec == MCInit /\ [][MCNext]_MCvars

Symmetry == Permutations(Actor)

-----------------------------------------------------------------------------
(* The stories of Access and JobInputs.                                     *)

\* One request at a time.
Alone(none) == \A r, q \in Actor : r = q \/ request[r] = none \/ request[q] = none

NoFailures == \A u \in DOMAIN user : user[u].fails = 0

\* Invitations and resets that are resent, revoked, used and lost.
TokenStory ==
  now = 0 /\ NoFailures /\ opened <= 1 /\ opened + issued <= 3 /\ Alone(Users!NoContext)

\* Two administrators, logins, password changes and disabled users.
AdminStory == now = 0 /\ NoFailures /\ issued <= 1

\* Failed logins and locks around registration and reset.
LockStory ==
  now = 0 /\ issued <= 1 /\ opened <= 1 /\ \A r \in Actor : request[r] = Users!NoContext

\* The clock, over one session of the first administrator.
ClockStory == NoFailures /\ issued = 0 /\ opened <= 1

\* Operators who change, verify and deactivate the account at the same time.
AccountStory == jobs = << >> /\ config.version = 1

\* Jobs, publications, and one operator at a time.
JobStory == Alone(Inputs!NoRequest)

InStory ==
  /\ focus = "users" => TokenStory \/ AdminStory \/ LockStory \/ ClockStory
  /\ focus = "inputs" => AccountStory \/ JobStory

-----------------------------------------------------------------------------
(* The properties; SlotsAreSpaced is that of RateLimiter.                   *)

\* The type invariants of the modules.
TypesOK ==
  /\ TypeOK
  /\ focus = "users" => Users!TypeOK
  /\ focus = "sync" => Sync!TypeOK
  /\ focus = "params" => Params!TypeOK
  /\ focus = "backfill" => Backfill!TypeOK
  /\ focus = "inputs" => Inputs!TypeOK
  /\ focus = "registry" => Registry!TypeOK
  /\ focus = "legacy" => Move!TypeOK

\* Access: of a user's invitations, and of the resets, only the newest delivered one can
\* be live.
LiveIsNewest == focus = "users" => Users!LiveIsNewest

\* Access: a session lives only under the password it was opened with and while its user
\* is not disabled.
LiveSessionsAreCurrent == focus = "users" => Users!LiveSessionsAreCurrent

\* Access: once somebody can administer, somebody always can.
AdminRemains == [][focus = "users" => Users!KeepsAnAdmin]_MCvars

\* Access: no registration or reset on a token whose successor was already delivered by a
\* mailing that has not committed.
UsedBeforeSuccessor == [][focus = "users" => Users!NoSuccessorSent]_MCvars

\* Access: requests that end out of order never take back the activity of a later one.
ActivityAdvances == [][focus = "users" => Users!TakesNothingBack]_MCvars

\* ApiSync: a success and its checkpoint stand for every record that was in the list when
\* the run began.
VouchedIsStored == focus = "sync" => Sync!VouchedIsStored

\* ApiSync: the record count and the history agree with the stored snapshots.
StoreAgrees == focus = "sync" => Sync!StoreAgrees

\* ParamSource: every key is asked for after as many successful runs as there are keys.
EveryKeyGetsItsTurn == focus = "params" => Params!EveryKeyGetsItsTurn

\* BackfillStart: while no job runs beside a scan that is saved, a backfill skips no day
\* the scan was to find.
NothingSkipped == focus = "backfill" => Backfill!NothingSkipped

\* JobInputs: while operators do not write what they read before each other's commits, an
\* account is active only with credentials that were verified.
ActiveIsVerified == focus = "inputs" => Inputs!ActiveIsVerified

\* JobInputs: a job runs with verified credentials, and what continues it with the same
\* configuration.
RunsAgree == focus = "inputs" => Inputs!RunsAgree

\* WorkerRuntime: the registry shows what the registered instance of a name does.
RowsTellTheTruth == focus = "registry" => Registry!RowsTellTheTruth

\* LegacyAttribution: the rows of account 0 move as a whole, and the answer says so.
MovedWhole == focus = "legacy" => Move!MovedWhole

=============================================================================
