------------------------------- MODULE Access -------------------------------
(***************************************************************************)
(* Users of the console, their one-time tokens and their sessions:         *)
(* backend/app/services/auth_service.py, api/deps.py and the handlers of   *)
(* api/v1/{auth,users,invitations}.py.                                     *)
(*                                                                         *)
(* A password is a version number, 0 for none; a token is its id, ids grow *)
(* in the order the mails leave.  Expiry of a token and of a login lock is *)
(* a step that may come at any time; only sessions are measured by a clock,*)
(* since what matters there is which of two requests is the later one.     *)
(*                                                                         *)
(* A handler that locks the user row first is one step, because that lock  *)
(* is held to its commit.  Two things break handlers up: mail is sent      *)
(* before the commit with the lock held (pending), and a request that      *)
(* carries a session reads it, and the user, in advance (request).         *)
(***************************************************************************)
EXTENDS Naturals

CONSTANTS
  User,          \* email addresses
  FirstAdmin,    \* the administrator that has registered already
  Request,       \* requests in flight that carry a session
  MaxTokens,     \* bound: tokens ever generated
  MaxSessions,   \* bound: sessions ever opened
  MaxPasswords,  \* bound: password versions of a user
  MaxNow,        \* bound: the last reading of the clock
  MaxFailures,   \* login_max_failures
  TouchEvery,    \* SESSION_TOUCH_INTERVAL
  IdleFor,       \* session_idle_minutes
  AbsoluteFor    \* session_absolute_hours

TokenId == 1 .. MaxTokens
SessionId == 1 .. MaxSessions
Role == {"admin", "operator"}
Purpose == {"invitation", "password_reset"}

VARIABLES
  user,      \* the app_user rows
  token,     \* the auth_action_token rows
  issued,    \* how many tokens were generated
  pending,   \* the mailing transaction that holds a user's row lock
  session,   \* the user_session rows
  opened,    \* how many sessions were inserted
  request,   \* authenticated requests that have not written yet
  now

vars == <<user, token, issued, pending, session, opened, request, now>>

UserRow == [status : {"absent", "invited", "active", "disabled"}, role : Role,
            password : 0 .. MaxPasswords, fails : 0 .. MaxFailures + 1,
            locked : BOOLEAN]

TokenRow == [user : User, purpose : Purpose, exists : BOOLEAN, used : BOOLEAN,
             revoked : BOOLEAN, expired : BOOLEAN]

Mailing == [kind : {"none", "create", "resend", "reset"}, token : 0 .. MaxTokens,
            role : Role]

SessionRow == [user : User, password : 0 .. MaxPasswords, revoked : BOOLEAN,
               expires : 0 .. MaxNow + AbsoluteFor,
               idle : 0 .. MaxNow + AbsoluteFor, seen : 0 .. MaxNow]

Kind == {"update", "password", "logout", "invite"}

Context == [phase : {"none", "read", "ready"}, kind : Kind, session : SessionId,
            row : SessionRow, active : BOOLEAN, target : User, copy : UserRow,
            at : 0 .. MaxNow]

NoMailing == [kind |-> "none", token |-> 0, role |-> "operator"]
AbsentUser == [status |-> "absent", role |-> "operator", password |-> 0,
               fails |-> 0, locked |-> FALSE]
NoToken == [user |-> FirstAdmin, purpose |-> "invitation", exists |-> FALSE,
            used |-> FALSE, revoked |-> FALSE, expired |-> FALSE]
NoSession == [user |-> FirstAdmin, password |-> 0, revoked |-> TRUE,
              expires |-> 0, idle |-> 0, seen |-> 0]
NoContext == [phase |-> "none", kind |-> "logout", session |-> 1, row |-> NoSession,
              active |-> FALSE, target |-> FirstAdmin, copy |-> AbsentUser, at |-> 0]

FirstActive == [AbsentUser EXCEPT !.status = "active", !.role = "admin", !.password = 1]

\* An empty table, or the first administrator invited from the command line has
\* registered and logged out.
Init ==
  /\ \/ user = [u \in User |-> AbsentUser]
     \/ user = [u \in User |-> IF u = FirstAdmin THEN FirstActive ELSE AbsentUser]
  /\ token = [x \in TokenId |-> NoToken]
  /\ issued = 0
  /\ pending = [u \in User |-> NoMailing]
  /\ session = [s \in SessionId |-> NoSession]
  /\ opened = 0
  /\ request = [r \in Request |-> NoContext]
  /\ now = 0

-----------------------------------------------------------------------------
(* Helpers.                                                                *)

Unlocked(u) == pending[u].kind = "none"

Outstanding(x) == token[x].exists /\ ~token[x].used /\ ~token[x].revoked

Live(x) == Outstanding(x) /\ ~token[x].expired

SameKind(x, y) == token[x].user = token[y].user /\ token[x].purpose = token[y].purpose

ActiveAdmins == {u \in User : user[u].status = "active" /\ user[u].role = "admin"}

\* The other outstanding tokens of u for this purpose are revoked.
RevokeTokens(u, purpose) ==
  [x \in TokenId |->
     IF Outstanding(x) /\ token[x].user = u /\ token[x].purpose = purpose
     THEN [token[x] EXCEPT !.revoked = TRUE] ELSE token[x]]

\* register_user and complete_password_reset: this one used, the others revoked.
Consume(x) ==
  [RevokeTokens(token[x].user, token[x].purpose) EXCEPT
     ![x] = [token[x] EXCEPT !.used = TRUE]]

\* A slip: the newest session stays.
RevokeOtherSessions(u) ==
  [s \in SessionId |-> IF session[s].user = u /\ s # opened
                       THEN [session[s] EXCEPT !.revoked = TRUE] ELSE session[s]]

RevokeSessions(u) ==
  [s \in SessionId |-> IF session[s].user = u
                       THEN [session[s] EXCEPT !.revoked = TRUE] ELSE session[s]]

LeastOf(a, b) == IF a < b THEN a ELSE b

\* create_user_session, for the password given.
OpenSession(u, password) ==
  /\ opened < MaxSessions
  /\ opened' = opened + 1
  /\ session' = [session EXCEPT ![opened + 1] =
       [user |-> u, password |-> password, revoked |-> FALSE,
        expires |-> now + AbsoluteFor,
        idle |-> LeastOf(now + IdleFor, now + AbsoluteFor), seen |-> now]]

-----------------------------------------------------------------------------
(* Requests that carry a session: get_auth_context and what follows it.     *)

\* The session and its user are read, which fixes the snapshot that a later
\* plain read of the target sees, and then the clock.
Authenticate(r, s, kind, target) ==
  /\ request[r].phase = "none"
  /\ s <= opened /\ ~session[s].revoked
  /\ target = session[s].user \/ kind \in {"update", "invite"}
  /\ request' = [request EXCEPT ![r] =
       [phase |-> "read", kind |-> kind, session |-> s, row |-> session[s],
        active |-> user[session[s].user].status = "active",
        target |-> target, at |-> now,
        copy |-> IF kind \in {"update", "password"} THEN user[target] ELSE AbsentUser]]
  /\ UNCHANGED <<user, token, issued, pending, session, opened, now>>

Refused(r) ==
  LET c == request[r] IN
  \/ c.row.expires <= c.at \/ c.row.idle <= c.at
  \/ ~c.active

\* The session had run out, or its user was not active, when they were read: it is
\* revoked.
Reject(r) ==
  /\ request[r].phase = "read"
  /\ Refused(r)
  /\ session' = [session EXCEPT ![request[r].session].revoked = TRUE]
  /\ request' = [request EXCEPT ![r] = NoContext]
  /\ UNCHANGED <<user, token, issued, pending, opened, now>>

\* Touching commits: the snapshot is given up, and another user is read anew.
Refreshed(r, touched) ==
  LET c == request[r] IN
  IF touched /\ c.kind = "update" /\ c.target # c.row.user THEN user[c.target] ELSE c.copy

\* What the request keeps of the session once it is accepted.
Settle(r, touched) ==
  request' = [request EXCEPT
    ![r].phase = "ready", ![r].at = 0, ![r].active = FALSE,
    ![r].row = [NoSession EXCEPT !.user = request[r].row.user],
    ![r].copy = Refreshed(r, touched)]

\* A slip: an older request overwrites the time of a newer one.
AcceptAnyway(r) ==
  LET c == request[r]
      touched == c.row.seen + TouchEvery <= c.at
  IN
  /\ c.phase = "read"
  /\ ~Refused(r)
  /\ session' = IF touched
                THEN [session EXCEPT
                        ![c.session].seen = c.at,
                        ![c.session].idle = LeastOf(c.at + IdleFor, c.row.expires)]
                ELSE session
  /\ Settle(r, touched)
  /\ UNCHANGED <<user, token, issued, pending, opened, now>>

\* The session is good; when it was last seen long enough ago it is touched, by
\* an update that asks the row for its present value.
Accept(r) ==
  LET c == request[r]
      touched == c.row.seen + TouchEvery <= c.at
  IN
  /\ c.phase = "read"
  /\ ~Refused(r)
  /\ session' = IF touched /\ session[c.session].seen + TouchEvery <= c.at
                THEN [session EXCEPT
                        ![c.session].seen = c.at,
                        ![c.session].idle = LeastOf(c.at + IdleFor, c.row.expires)]
                ELSE session
  /\ Settle(r, touched)
  /\ UNCHANGED <<user, token, issued, pending, opened, now>>

Ready(r, kind) == request[r].phase = "ready" /\ request[r].kind = kind

Done(r) == request' = [request EXCEPT ![r] = NoContext]

\* What the handler knows of the target: the locked row of an active
\* administrator, or else the row as it was read.
Known(r) ==
  LET u == request[r].target IN IF u \in ActiveAdmins THEN user[u] ELSE request[r].copy

Demotes(r, role, status) ==
  /\ Known(r).role = "admin" /\ Known(r).status = "active"
  /\ role = "operator" \/ status = "disabled"

\* A slip: whoever changes somebody else is an administrator and remains one.
RemovesLastTrusting(r, role, status) ==
  /\ Demotes(r, role, status)
  /\ ActiveAdmins = {request[r].row.user}
  /\ request[r].target = request[r].row.user

\* The active administrators are counted under their row locks.
RemovesLast(r, role, status) ==
  /\ Demotes(r, role, status)
  /\ \A u, v \in ActiveAdmins : u = v

\* A slip: what the request leaves out is written too.
UpdateUserLiterally(r, role, status) ==
  LET u == request[r].target IN
  /\ Ready(r, "update")
  /\ Unlocked(u)
  /\ Known(r).status # "absent"
  /\ ~RemovesLast(r, role, status)
  /\ user' = [user EXCEPT ![u].role = role,
                          ![u].status = IF status = "keep" THEN @ ELSE status]
  /\ session' = IF status = "disabled" THEN RevokeSessions(u) ELSE session
  /\ Done(r)
  /\ UNCHANGED <<token, issued, pending, opened, now>>

\* update_user.  The columns written are those that differ from the row the
\* handler knows; disabling revokes the sessions in any case.
UpdateUser(r, role, status) ==
  LET u == request[r].target
      known == Known(r)
  IN
  /\ Ready(r, "update")
  /\ Unlocked(u)
  /\ known.status # "absent"
  /\ ~RemovesLast(r, role, status)
  /\ user' = [user EXCEPT
       ![u].role = IF role \in {"keep", known.role} THEN @ ELSE role,
       ![u].status = IF status \in {"keep", known.status} THEN @ ELSE status]
  /\ session' = IF status = "disabled" THEN RevokeSessions(u) ELSE session
  /\ Done(r)
  /\ UNCHANGED <<token, issued, pending, opened, now>>

\* change_password.  The row is locked, but the session's own copy of it, read
\* in advance, is what the old password is compared with.
ChangePassword(r) ==
  LET u == request[r].row.user IN
  /\ Ready(r, "password")
  /\ Unlocked(u)
  /\ request[r].copy.password # 0
  /\ user[u].password < MaxPasswords
  /\ user' = [user EXCEPT ![u].password = @ + 1]
  /\ session' = RevokeSessions(u)
  /\ Done(r)
  /\ UNCHANGED <<token, issued, pending, opened, now>>

Logout(r) ==
  /\ Ready(r, "logout")
  /\ session' = [session EXCEPT ![request[r].session].revoked = TRUE]
  /\ Done(r)
  /\ UNCHANGED <<user, token, issued, pending, opened, now>>

\* The handler refuses, or its connection ends.
GiveUp(r) ==
  /\ request[r].phase = "ready"
  /\ Done(r)
  /\ UNCHANGED <<user, token, issued, pending, session, opened, now>>

-----------------------------------------------------------------------------
(* One-time tokens.  Mail leaves while the user row is locked and nothing   *)
(* is committed; afterwards the transaction commits or is lost.             *)

Mail(u, kind, role) ==
  /\ Unlocked(u)
  /\ issued < MaxTokens
  /\ issued' = issued + 1
  /\ pending' = [pending EXCEPT ![u] = [kind |-> kind, token |-> issued + 1, role |-> role]]
  /\ UNCHANGED <<user, token, session, opened, now>>

\* create_invitation: the unique email makes a second one wait, then fail.
Invite(r, role) ==
  LET u == request[r].target IN
  /\ Ready(r, "invite")
  /\ user[u].status = "absent"
  /\ Mail(u, "create", role)
  /\ Done(r)

\* bootstrap_admin of the command line, while no administrator is known.
Bootstrap(u) ==
  /\ user[u].status = "absent"
  /\ \A v \in User : user[v].role = "admin" => user[v].status \notin {"invited", "active"}
  /\ Mail(u, "create", "admin")
  /\ UNCHANGED request

\* resend_invitation, up to the mail.
Resend(r) ==
  LET u == request[r].target IN
  /\ Ready(r, "invite")
  /\ user[u].status = "invited"
  /\ Mail(u, "resend", user[u].role)
  /\ Done(r)

\* request_password_reset, up to the mail; it needs no session.
RequestReset(u) ==
  /\ user[u].status = "active"
  /\ Mail(u, "reset", user[u].role)
  /\ UNCHANGED request

\* A slip: the tokens sent before are left alone.
CommitMailKeepsOld(u) ==
  LET p == pending[u]
      purpose == IF p.kind = "reset" THEN "password_reset" ELSE "invitation"
  IN
  /\ ~Unlocked(u)
  /\ token' = [token EXCEPT ![p.token] =
       [NoToken EXCEPT !.user = u, !.purpose = purpose, !.exists = TRUE]]
  /\ user' = IF p.kind = "create"
             THEN [user EXCEPT ![u].status = "invited", ![u].role = p.role]
             ELSE user
  /\ pending' = [pending EXCEPT ![u] = NoMailing]
  /\ UNCHANGED <<issued, session, opened, request, now>>

\* The new token exists, the ones sent before are revoked.
CommitMail(u) ==
  LET p == pending[u]
      purpose == IF p.kind = "reset" THEN "password_reset" ELSE "invitation"
  IN
  /\ ~Unlocked(u)
  /\ token' = [RevokeTokens(u, purpose) EXCEPT ![p.token] =
       [NoToken EXCEPT !.user = u, !.purpose = purpose, !.exists = TRUE]]
  /\ user' = IF p.kind = "create"
             THEN [user EXCEPT ![u].status = "invited", ![u].role = p.role]
             ELSE user
  /\ pending' = [pending EXCEPT ![u] = NoMailing]
  /\ UNCHANGED <<issued, session, opened, request, now>>

\* The mail server refuses, or the process dies after the mail left.
LoseMail(u) ==
  /\ ~Unlocked(u)
  /\ pending' = [pending EXCEPT ![u] = NoMailing]
  /\ UNCHANGED <<user, token, issued, session, opened, request, now>>

\* revoke_invitation; an invitation that was revoked already is left so.
RevokeInvitation(r, x) ==
  /\ Ready(r, "invite")
  /\ token[x].exists /\ token[x].purpose = "invitation" /\ ~token[x].used
  /\ request[r].target = token[x].user
  /\ Unlocked(token[x].user)
  /\ token' = [token EXCEPT ![x].revoked = TRUE]
  /\ Done(r)
  /\ UNCHANGED <<user, issued, pending, session, opened, now>>

\* validate_invitation, and what register_user asks again under the lock.
InvitationValid(x) ==
  /\ token[x].purpose = "invitation" /\ Live(x)
  /\ user[token[x].user].status = "invited"

\* _password_reset_is_valid.
ResetValid(x) ==
  /\ token[x].purpose = "password_reset" /\ Live(x)
  /\ user[token[x].user].status = "active" /\ user[token[x].user].password # 0

\* A slip: the user row is not locked.
RegisterUnlocked(x) ==
  LET u == token[x].user IN
  /\ InvitationValid(x)
  /\ user' = [user EXCEPT ![u].status = "active", ![u].password = 1, ![u].fails = 0]
  /\ token' = Consume(x)
  /\ OpenSession(u, 1)
  /\ UNCHANGED <<issued, pending, request, now>>

\* register_user: the invitation is used, the user becomes active and has a session.
Register(x) ==
  LET u == token[x].user IN
  /\ InvitationValid(x)
  /\ Unlocked(u)
  /\ user' = [user EXCEPT ![u].status = "active", ![u].password = 1, ![u].fails = 0]
  /\ token' = Consume(x)
  /\ OpenSession(u, 1)
  /\ UNCHANGED <<issued, pending, request, now>>

\* complete_password_reset: new password, no lock, no session survives.
CompleteReset(x) ==
  LET u == token[x].user IN
  /\ ResetValid(x)
  /\ Unlocked(u)
  /\ user[u].password < MaxPasswords
  /\ user' = [user EXCEPT ![u].password = @ + 1, ![u].fails = 0, ![u].locked = FALSE]
  /\ token' = Consume(x)
  /\ session' = RevokeSessions(u)
  /\ UNCHANGED <<issued, pending, opened, request, now>>

-----------------------------------------------------------------------------
(* Logging in.                                                             *)

\* authenticate_user with the right password.
Login(u) ==
  /\ Unlocked(u)
  /\ user[u].status = "active" /\ user[u].password # 0 /\ ~user[u].locked
  /\ OpenSession(u, user[u].password)
  /\ user' = [user EXCEPT ![u].fails = 0]
  /\ UNCHANGED <<token, issued, pending, request, now>>

\* A wrong password, or any password of a user who is not active.
FailLogin(u) ==
  /\ Unlocked(u)
  /\ user[u].status # "absent" /\ ~user[u].locked
  /\ user[u].fails <= MaxFailures
  /\ user' = [user EXCEPT ![u].fails = @ + 1, ![u].locked = (@ \/ user[u].fails + 1 >= MaxFailures)]
  /\ UNCHANGED <<token, issued, pending, session, opened, request, now>>

\* locked_until has passed; the count of failures stays.
LockRunsOut(u) ==
  /\ user[u].locked
  /\ user' = [user EXCEPT ![u].locked = FALSE]
  /\ UNCHANGED <<token, issued, pending, session, opened, request, now>>

TokenRunsOut(x) ==
  /\ Live(x)
  /\ token' = [token EXCEPT ![x].expired = TRUE]
  /\ UNCHANGED <<user, issued, pending, session, opened, request, now>>

Tick ==
  /\ now < MaxNow
  /\ now' = now + 1
  /\ UNCHANGED <<user, token, issued, pending, session, opened, request>>

-----------------------------------------------------------------------------
\* Only administrators reach the handlers of users and invitations.
Arrive(r) ==
  \E s \in SessionId, kind \in Kind, target \in User :
    /\ kind \in {"update", "invite"} => session[s].user \in ActiveAdmins
    /\ Authenticate(r, s, kind, target)

\* The handlers of api/v1/invitations.py.
InvitationCall(r) ==
  \/ \E role \in Role : Invite(r, role)
  \/ Resend(r)
  \/ \E x \in TokenId : RevokeInvitation(r, x)

UserCall(r) ==
  \E role \in Role \cup {"keep"}, status \in {"keep", "active", "disabled"} :
    UpdateUser(r, role, status)

\* The handlers of api/v1/auth.py that need no session.
PublicCall ==
  \/ \E u \in User : Login(u) \/ FailLogin(u) \/ RequestReset(u)
  \/ \E x \in TokenId : Register(x) \/ CompleteReset(x)

Next ==
  \/ \E r \in Request :
       \/ Arrive(r) \/ Reject(r) \/ Accept(r) \/ GiveUp(r)
       \/ InvitationCall(r) \/ UserCall(r) \/ ChangePassword(r) \/ Logout(r)
  \/ PublicCall
  \/ \E u \in User : Bootstrap(u) \/ CommitMail(u) \/ LoseMail(u) \/ LockRunsOut(u)
  \/ \E x \in TokenId : TokenRunsOut(x)
  \/ Tick

Spec == Init /\ [][Next]_vars

-----------------------------------------------------------------------------
(* Properties.                                                             *)

\* Rows, mailings and requests hold values of their tables.
TypeOK ==
  /\ user \in [User -> UserRow]
  /\ token \in [TokenId -> TokenRow]
  /\ issued \in 0 .. MaxTokens
  /\ pending \in [User -> Mailing]
  /\ session \in [SessionId -> SessionRow]
  /\ opened \in 0 .. MaxSessions
  /\ request \in [Request -> Context]
  /\ now \in 0 .. MaxNow

\* The last token delivered is the one that works: of a user's invitations, and
\* of the resets, only the newest can be live (the lock is held over the mail).
LiveIsNewest ==
  \A x, y \in TokenId :
    Live(x) /\ token[y].exists /\ SameKind(x, y) => y <= x

\* A session lives only under the password it was opened with, and only while its
\* user is not disabled: whatever races with a change, a reset or a switch, nobody who
\* logged in before stays logged in, and being enabled again revives no session.
LiveSessionsAreCurrent ==
  \A s \in 1 .. opened :
    ~session[s].revoked =>
      /\ session[s].password = user[session[s].user].password
      /\ user[session[s].user].status # "disabled"

\* Once somebody can administer, somebody always can ("至少保留 1 名可用管理员"), though two
\* administrators demote each other at the same time.
KeepsAnAdmin == ActiveAdmins # {} => ActiveAdmins' # {}
AdminRemains == [][KeepsAnAdmin]_vars

\* A registration or reset never happens on a token whose successor was already
\* delivered by a mailing that has not committed.
NoSuccessorSent ==
  \A x \in TokenId :
    token'[x].used /\ ~token[x].used =>
      \A u \in User : token[x].user = u => pending[u].kind = "none"
UsedBeforeSuccessor == [][NoSuccessorSent]_vars

\* Requests that end out of order never take back the activity of a later one,
\* and no activity outlives the absolute end of the session.
TakesNothingBack ==
  \A s \in 1 .. opened :
    /\ session'[s].seen >= session[s].seen
    /\ session'[s].idle >= session[s].idle
    /\ session'[s].idle <= session'[s].expires
ActivityAdvances == [][TakesNothingBack]_vars

=============================================================================
