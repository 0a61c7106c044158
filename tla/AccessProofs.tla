---------------------------- MODULE AccessProofs ----------------------------
(***************************************************************************)
(* Theorems about Access for every set of users, tokens, sessions and       *)
(* requests, and any session times.                                        *)
(***************************************************************************)
EXTENDS Access, TLAPS

\* What the constants have to be.
Bounds ==
  /\ FirstAdmin \in User
  /\ {MaxTokens, MaxSessions, MaxPasswords, MaxNow, MaxFailures} \subseteq Nat
  /\ {TouchEvery, IdleFor, AbsoluteFor} \subseteq Nat
  /\ MaxSessions > 0 /\ MaxPasswords > 0

-----------------------------------------------------------------------------
(* Types.                                                                   *)

LEMMA InitType ==
  ASSUME Bounds, Init
  PROVE  TypeOK
  <1>1. AbsentUser \in UserRow /\ FirstActive \in UserRow
    <2>1. AbsentUser \in UserRow
      BY DEF Bounds, AbsentUser, UserRow, Role
    <2>2. 1 \in 0 .. MaxPasswords
      BY DEF Bounds
    <2>. QED
      BY <2>1, <2>2 DEF FirstActive, UserRow, Role
  <1>2. user \in [User -> UserRow]
    BY <1>1 DEF Init
  <1>3. token \in [TokenId -> TokenRow]
    BY DEF Init, Bounds, NoToken, TokenRow, Purpose
  <1>4. pending \in [User -> Mailing]
    BY DEF Init, Bounds, NoMailing, Mailing, Role
  <1>5. NoSession \in SessionRow
    BY DEF Bounds, NoSession, SessionRow
  <1>6. session \in [SessionId -> SessionRow]
    BY <1>5 DEF Init
  <1>7. NoContext \in Context
    BY <1>1, <1>5 DEF Bounds, NoContext, Context, Kind, SessionId
  <1>. QED
    BY <1>2, <1>3, <1>4, <1>6, <1>7 DEF Init, TypeOK, Bounds

\* The changes of a user's row.
LEMMA UserType ==
  ASSUME Bounds, TypeOK, NEW u \in User
  PROVE  /\ \A role \in Role, status \in {"absent", "invited", "active", "disabled"} :
              [user EXCEPT ![u].role = role, ![u].status = status] \in [User -> UserRow]
         /\ \A n \in 0 .. MaxPasswords :
              /\ [user EXCEPT ![u].password = n] \in [User -> UserRow]
              /\ [user EXCEPT ![u].status = "active", ![u].password = n, ![u].fails = 0]
                   \in [User -> UserRow]
              /\ [user EXCEPT ![u].password = n, ![u].fails = 0, ![u].locked = FALSE]
                   \in [User -> UserRow]
         /\ [user EXCEPT ![u].fails = 0] \in [User -> UserRow]
         /\ [user EXCEPT ![u].locked = FALSE] \in [User -> UserRow]
         /\ \A n \in 0 .. MaxFailures + 1, b \in BOOLEAN :
              [user EXCEPT ![u].fails = n, ![u].locked = b] \in [User -> UserRow]
  <1>1. user \in [User -> UserRow] /\ user[u] \in UserRow /\ 0 \in 0 .. MaxFailures + 1
    BY DEF TypeOK, Bounds
  <1>2. \A role \in Role, status \in {"absent", "invited", "active", "disabled"} :
          [user EXCEPT ![u].role = role, ![u].status = status] \in [User -> UserRow]
    BY <1>1 DEF UserRow
  <1>3. \A n \in 0 .. MaxPasswords :
          /\ [user EXCEPT ![u].password = n] \in [User -> UserRow]
          /\ [user EXCEPT ![u].status = "active", ![u].password = n, ![u].fails = 0]
               \in [User -> UserRow]
    BY <1>1 DEF UserRow
  <1>4. \A n \in 0 .. MaxPasswords :
          [user EXCEPT ![u].password = n, ![u].fails = 0, ![u].locked = FALSE]
            \in [User -> UserRow]
    BY <1>1 DEF UserRow
  <1>5. /\ [user EXCEPT ![u].fails = 0] \in [User -> UserRow]
        /\ [user EXCEPT ![u].locked = FALSE] \in [User -> UserRow]
    BY <1>1 DEF UserRow
  <1>6. \A n \in 0 .. MaxFailures + 1, b \in BOOLEAN :
          [user EXCEPT ![u].fails = n, ![u].locked = b] \in [User -> UserRow]
    BY <1>1 DEF UserRow
  <1>. QED
    BY <1>2, <1>3, <1>4, <1>5, <1>6

LEMMA SessionsType ==
  ASSUME Bounds, TypeOK
  PROVE  \A u : RevokeSessions(u) \in [SessionId -> SessionRow]
  BY DEF TypeOK, RevokeSessions, SessionRow

LEMMA TokensType ==
  ASSUME Bounds, TypeOK
  PROVE  /\ \A u, purpose : RevokeTokens(u, purpose) \in [TokenId -> TokenRow]
         /\ \A x \in TokenId :
              /\ Consume(x) \in [TokenId -> TokenRow]
              /\ [token EXCEPT ![x].expired = TRUE] \in [TokenId -> TokenRow]
  <1>1. token \in [TokenId -> TokenRow]
    BY DEF TypeOK
  <1>2. \A x \in TokenId : /\ token[x] \in TokenRow
                           /\ [token[x] EXCEPT !.revoked = TRUE] \in TokenRow
                           /\ [token[x] EXCEPT !.used = TRUE] \in TokenRow
    BY <1>1 DEF TokenRow
  <1>3. \A u, purpose : RevokeTokens(u, purpose) \in [TokenId -> TokenRow]
    BY <1>2 DEF RevokeTokens
  <1>4. \A x \in TokenId : Consume(x) \in [TokenId -> TokenRow]
    BY <1>2, <1>3 DEF Consume
  <1>5. \A x \in TokenId : [token EXCEPT ![x].expired = TRUE] \in [TokenId -> TokenRow]
    BY <1>1 DEF TokenRow
  <1>. QED
    BY <1>3, <1>4, <1>5

LEMMA OpenType ==
  ASSUME Bounds, TypeOK, NEW u \in User, NEW n \in 0 .. MaxPasswords, OpenSession(u, n)
  PROVE  /\ session' \in [SessionId -> SessionRow] /\ opened' \in 0 .. MaxSessions
         /\ opened' = opened + 1 /\ opened' \in SessionId
         /\ session'[opened'].user = u /\ session'[opened'].password = n
         /\ session'[opened'].expires = now + AbsoluteFor
         /\ session'[opened'].idle = LeastOf(now + IdleFor, now + AbsoluteFor)
         /\ session'[opened'].seen = now
         /\ \A s \in SessionId : s # opened' => session'[s] = session[s]
  <1>. DEFINE row == [user |-> u, password |-> n, revoked |-> FALSE,
                      expires |-> now + AbsoluteFor,
                      idle |-> LeastOf(now + IdleFor, now + AbsoluteFor), seen |-> now]
  <1>1. session \in [SessionId -> SessionRow] /\ opened \in Nat /\ now \in 0 .. MaxNow
    BY DEF TypeOK, Bounds
  <1>2. row \in SessionRow
    BY <1>1 DEF Bounds, SessionRow, LeastOf
  <1>3. opened + 1 \in SessionId /\ opened' = opened + 1 /\ opened' \in 0 .. MaxSessions
    BY <1>1 DEF OpenSession, SessionId, Bounds
  <1>4. session' = [session EXCEPT ![opened + 1] = row]
    BY DEF OpenSession
  <1>5. /\ row.user = u /\ row.password = n /\ row.expires = now + AbsoluteFor
        /\ row.idle = LeastOf(now + IdleFor, now + AbsoluteFor) /\ row.seen = now
    OBVIOUS
  <1>. HIDE DEF row
  <1>6. session' \in [SessionId -> SessionRow]
    BY <1>1, <1>2, <1>3, <1>4
  <1>7. session'[opened'] = row
    BY <1>1, <1>3, <1>4
  <1>8. \A s \in SessionId : s # opened' => session'[s] = session[s]
    BY <1>1, <1>3, <1>4
  <1>. QED
    BY <1>3, <1>5, <1>6, <1>7, <1>8

\* A request that authenticates, that is accepted, and that ends.
LEMMA RequestType ==
  ASSUME Bounds, TypeOK, NEW r \in Request
  PROVE  /\ \A s, kind, target :
              s \in SessionId /\ kind \in Kind /\ target \in User /\ Authenticate(r, s, kind, target)
              => request' \in [Request -> Context]
         /\ \A touched \in BOOLEAN : Settle(r, touched) => request' \in [Request -> Context]
         /\ Done(r) => request' \in [Request -> Context]
  <1>1. NoContext \in Context /\ NoSession \in SessionRow /\ AbsentUser \in UserRow
    <2>1. AbsentUser \in UserRow
      BY DEF Bounds, AbsentUser, UserRow, Role
    <2>2. NoSession \in SessionRow
      BY DEF Bounds, NoSession, SessionRow
    <2>. QED
      BY <2>1, <2>2 DEF Bounds, NoContext, Context, Kind, SessionId
  <1>2. request \in [Request -> Context] /\ request[r] \in Context
    BY DEF TypeOK
  <1>3. ASSUME NEW s \in SessionId, NEW kind \in Kind, NEW target \in User,
               Authenticate(r, s, kind, target)
        PROVE  request' \in [Request -> Context]
    <2>1. user[target] \in UserRow /\ session[s] \in SessionRow /\ now \in 0 .. MaxNow
      BY DEF TypeOK
    <2>2. [phase |-> "read", kind |-> kind, session |-> s, row |-> session[s],
           active |-> user[session[s].user].status = "active", target |-> target, at |-> now,
           copy |-> IF kind \in {"update", "password"} THEN user[target] ELSE AbsentUser] \in Context
      BY <1>1, <2>1 DEF Context
    <2>. QED
      BY <1>2, <1>3, <2>2 DEF Authenticate
  <1>4. ASSUME NEW touched \in BOOLEAN, Settle(r, touched)
        PROVE  request' \in [Request -> Context]
    <2>. DEFINE row == [NoSession EXCEPT !.user = request[r].row.user]
                copy == Refreshed(r, touched)
    <2>1. row \in SessionRow
      BY <1>1, <1>2 DEF Context, SessionRow
    <2>2. copy \in UserRow
      BY <1>2 DEF Refreshed, Context, TypeOK
    <2>3. 0 \in 0 .. MaxNow
      BY DEF Bounds
    <2>4. request' = [request EXCEPT ![r].phase = "ready", ![r].at = 0, ![r].active = FALSE, ![r].row = row, ![r].copy = copy]
      BY <1>4 DEF Settle
    <2>. HIDE DEF row, copy
    <2>. QED
      BY <1>2, <2>1, <2>2, <2>3, <2>4 DEF Context
  <1>5. Done(r) => request' \in [Request -> Context]
    BY <1>1, <1>2 DEF Done
  <1>. QED
    BY <1>3, <1>4, <1>5

LEMMA MailType ==
  ASSUME Bounds, TypeOK, NEW u \in User, NEW kind \in {"create", "resend", "reset"},
         NEW role \in Role, Mail(u, kind, role)
  PROVE  /\ pending' \in [User -> Mailing] /\ issued' \in 0 .. MaxTokens
         /\ issued' = issued + 1 /\ issued' \in TokenId
         /\ pending'[u].kind = kind /\ pending'[u].token = issued'
         /\ \A v \in User : v # u => pending'[v] = pending[v]
  <1>1. issued \in Nat /\ issued + 1 \in 0 .. MaxTokens /\ issued + 1 \in TokenId
    BY DEF Mail, TypeOK, Bounds, TokenId
  <1>2. [kind |-> kind, token |-> issued + 1, role |-> role] \in Mailing
    BY <1>1 DEF Mailing
  <1>. QED
    BY <1>1, <1>2 DEF Mail, TypeOK

\* What committing a mailing leaves behind.
Purposes(kind) == IF kind = "reset" THEN "password_reset" ELSE "invitation"

Delivered(u) ==
  [NoToken EXCEPT !.user = u, !.purpose = Purposes(pending[u].kind), !.exists = TRUE]

LEMMA CommitType ==
  ASSUME Bounds, TypeOK, NEW u \in User, CommitMail(u)
  PROVE  /\ user' \in [User -> UserRow] /\ token' \in [TokenId -> TokenRow]
         /\ pending' \in [User -> Mailing]
  <1>1. pending[u] \in Mailing /\ pending \in [User -> Mailing] /\ user \in [User -> UserRow]
    BY DEF TypeOK
  <1>2. Delivered(u) \in TokenRow
    BY DEF Delivered, Purposes, NoToken, TokenRow, Purpose
  <1>3. RevokeTokens(u, Purposes(pending[u].kind)) \in [TokenId -> TokenRow]
    BY TokensType
  <1>4. token' = [RevokeTokens(u, Purposes(pending[u].kind)) EXCEPT ![pending[u].token] = Delivered(u)]
    BY DEF CommitMail, Delivered, Purposes
  <1>5. token' \in [TokenId -> TokenRow]
    BY <1>2, <1>3, <1>4
  <1>6. pending' \in [User -> Mailing]
    <2>1. NoMailing \in Mailing
      BY DEF Bounds, NoMailing, Mailing, Role
    <2>. QED
      BY <1>1, <2>1 DEF CommitMail
  <1>7. user' \in [User -> UserRow]
    <2>1. pending[u].role \in Role
      BY <1>1 DEF Mailing
    <2>2. [user EXCEPT ![u].status = "invited", ![u].role = pending[u].role] \in [User -> UserRow]
      BY <1>1, <2>1 DEF UserRow
    <2>. QED
      BY <1>1, <2>2 DEF CommitMail
  <1>. QED
    BY <1>5, <1>6, <1>7

LEMMA AcceptType ==
  ASSUME Bounds, TypeOK, NEW r \in Request, Accept(r)
  PROVE  session' \in [SessionId -> SessionRow] /\ request' \in [Request -> Context]
  <1>. DEFINE c == request[r]
              touched == c.row.seen + TouchEvery <= c.at
              idle == LeastOf(c.at + IdleFor, c.row.expires)
  <1>1. c \in Context /\ session \in [SessionId -> SessionRow]
    BY DEF TypeOK
  <1>2. c.session \in SessionId /\ c.at \in 0 .. MaxNow /\ idle \in 0 .. MaxNow + AbsoluteFor
    BY <1>1 DEF Context, SessionRow, Bounds, LeastOf
  <1>3. \/ session' = session
        \/ session' = [session EXCEPT ![c.session].seen = c.at, ![c.session].idle = idle]
    BY DEF Accept
  <1>4. Settle(r, touched) /\ touched \in BOOLEAN
    BY DEF Accept
  <1>. HIDE DEF touched, idle, c
  <1>5. session' \in [SessionId -> SessionRow]
    BY <1>1, <1>2, <1>3 DEF SessionRow
  <1>6. request' \in [Request -> Context]
    BY <1>4, RequestType
  <1>. QED
    BY <1>5, <1>6

LEMMA UpdateUserType ==
  ASSUME Bounds, TypeOK, NEW r \in Request, NEW role \in Role \cup {"keep"},
         NEW status \in {"keep", "active", "disabled"}, UpdateUser(r, role, status)
  PROVE  /\ user' \in [User -> UserRow] /\ session' \in [SessionId -> SessionRow]
         /\ request' \in [Request -> Context]
  <1>. DEFINE u == request[r].target
              newRole == IF role \in {"keep", Known(r).role} THEN user[u].role ELSE role
              newStatus == IF status \in {"keep", Known(r).status} THEN user[u].status ELSE status
  <1>1. u \in User
    BY DEF TypeOK, Context
  <1>2. user[u] \in UserRow
    BY <1>1 DEF TypeOK
  <1>3. newRole \in Role /\ newStatus \in {"absent", "invited", "active", "disabled"}
    BY <1>2 DEF UserRow
  <1>4. user' = [user EXCEPT ![u].role = newRole, ![u].status = newStatus]
    BY DEF UpdateUser
  <1>5. session' = IF status = "disabled" THEN RevokeSessions(u) ELSE session
    BY DEF UpdateUser
  <1>6. Done(r)
    BY DEF UpdateUser
  <1>7. user' \in [User -> UserRow]
    <2>. HIDE DEF u, newRole, newStatus
    <2>. QED
      BY <1>1, <1>3, <1>4, UserType
  <1>8. session' \in [SessionId -> SessionRow]
    BY <1>5, SessionsType DEF TypeOK
  <1>. QED
    BY <1>6, <1>7, <1>8, RequestType

LEMMA PlainType ==
  ASSUME Bounds, TypeOK, NEW r \in Request,
         Reject(r) \/ ChangePassword(r) \/ Logout(r) \/ GiveUp(r)
         \/ (\E x \in TokenId : RevokeInvitation(r, x))
  PROVE  TypeOK'
  <1>. USE DEF TypeOK
  <1>1. request[r] \in Context /\ (Done(r) => request' \in [Request -> Context])
    BY RequestType
  <1>2. request[r].session \in SessionId /\ request[r].row.user \in User
    BY <1>1 DEF Context, SessionRow
  <1>3. \A s \in SessionId : [session EXCEPT ![s].revoked = TRUE] \in [SessionId -> SessionRow]
    BY DEF SessionRow
  <1>4. CASE Reject(r)
    BY <1>1, <1>2, <1>3, <1>4 DEF Reject, Done
  <1>5. CASE ChangePassword(r)
    <2>. DEFINE u == request[r].row.user
                n == user[u].password + 1
    <2>1. user[u] \in UserRow /\ u \in User
      BY <1>2
    <2>2. n \in 0 .. MaxPasswords
      BY <1>5, <2>1 DEF ChangePassword, UserRow, Bounds
    <2>3. user' = [user EXCEPT ![u].password = n]
      BY <1>5 DEF ChangePassword
    <2>4. session' = RevokeSessions(u) /\ Done(r)
      BY <1>5 DEF ChangePassword
    <2>5. UNCHANGED <<token, issued, pending, opened, now>>
      BY <1>5 DEF ChangePassword
    <2>6. user' \in [User -> UserRow]
      <3>. HIDE DEF u, n
      <3>. QED
        BY <2>1, <2>2, <2>3, UserType
    <2>7. session' \in [SessionId -> SessionRow]
      BY <2>4, SessionsType
    <2>. QED
      BY <1>1, <2>4, <2>5, <2>6, <2>7
  <1>6. CASE Logout(r)
    BY <1>1, <1>2, <1>3, <1>6 DEF Logout
  <1>7. CASE GiveUp(r)
    BY <1>1, <1>7 DEF GiveUp
  <1>8. CASE \E x \in TokenId : RevokeInvitation(r, x)
    <2>1. \A x \in TokenId : [token EXCEPT ![x].revoked = TRUE] \in [TokenId -> TokenRow]
      BY DEF TokenRow
    <2>. QED
      BY <1>1, <1>8, <2>1 DEF RevokeInvitation
  <1>. QED
    BY <1>4, <1>5, <1>6, <1>7, <1>8

LEMMA MailingType ==
  ASSUME Bounds, TypeOK,
         \/ \E r \in Request : Resend(r) \/ \E role \in Role : Invite(r, role)
         \/ \E u \in User : RequestReset(u) \/ Bootstrap(u)
  PROVE  TypeOK'
  <1>. USE DEF TypeOK
  <1>1. \A r \in Request : request[r].target \in User
    BY DEF Context
  <1>2. \A u \in User : user[u].role \in Role
    BY DEF UserRow
  <1>3. ASSUME NEW u \in User, NEW kind \in {"create", "resend", "reset"}, NEW role \in Role,
               Mail(u, kind, role), request' \in [Request -> Context]
        PROVE  TypeOK'
    <2>1. pending' \in [User -> Mailing] /\ issued' \in 0 .. MaxTokens
      BY <1>3, MailType
    <2>. QED
      BY <1>3, <2>1 DEF Mail
  <1>4. CASE \E r \in Request : Resend(r) \/ \E role \in Role : Invite(r, role)
    BY <1>1, <1>2, <1>3, <1>4, RequestType DEF Resend, Invite
  <1>5. CASE \E u \in User : RequestReset(u) \/ Bootstrap(u)
    BY <1>2, <1>3, <1>5 DEF RequestReset, Bootstrap, Role
  <1>. QED
    BY <1>4, <1>5

LEMMA PublicType ==
  ASSUME Bounds, TypeOK,
         \/ \E u \in User : Login(u) \/ FailLogin(u) \/ LockRunsOut(u)
         \/ \E x \in TokenId : Register(x) \/ CompleteReset(x) \/ TokenRunsOut(x)
  PROVE  TypeOK'
  <1>. USE DEF TypeOK
  <1>1. ASSUME NEW u \in User, Login(u)
        PROVE  TypeOK'
    <2>1. user[u].password \in 0 .. MaxPasswords
      BY DEF UserRow
    <2>2. OpenSession(u, user[u].password) /\ user' = [user EXCEPT ![u].fails = 0]
      BY <1>1 DEF Login
    <2>3. session' \in [SessionId -> SessionRow] /\ opened' \in 0 .. MaxSessions
      BY <2>1, <2>2, OpenType
    <2>4. user' \in [User -> UserRow]
      BY <2>2, UserType
    <2>. QED
      BY <1>1, <2>3, <2>4 DEF Login
  <1>2. ASSUME NEW u \in User, FailLogin(u)
        PROVE  TypeOK'
    <2>. DEFINE n == user[u].fails + 1
                b == (user[u].locked \/ user[u].fails + 1 >= MaxFailures)
    <2>1. n \in 0 .. MaxFailures + 1 /\ b \in BOOLEAN
      BY <1>2 DEF FailLogin, UserRow, Bounds
    <2>2. user' = [user EXCEPT ![u].fails = n, ![u].locked = b]
      BY <1>2 DEF FailLogin
    <2>. HIDE DEF n, b
    <2>3. user' \in [User -> UserRow]
      BY <2>1, <2>2, UserType
    <2>. QED
      BY <1>2, <2>3 DEF FailLogin
  <1>3. ASSUME NEW u \in User, LockRunsOut(u)
        PROVE  TypeOK'
    BY <1>3, UserType DEF LockRunsOut
  <1>4. ASSUME NEW x \in TokenId, Register(x)
        PROVE  TypeOK'
    <2>. DEFINE u == token[x].user
    <2>1. u \in User /\ 1 \in 0 .. MaxPasswords
      BY DEF TokenRow, Bounds
    <2>2. /\ OpenSession(u, 1) /\ token' = Consume(x)
          /\ user' = [user EXCEPT ![u].status = "active", ![u].password = 1, ![u].fails = 0]
          /\ UNCHANGED <<issued, pending, request, now>>
      BY <1>4 DEF Register
    <2>. HIDE DEF u
    <2>3. session' \in [SessionId -> SessionRow] /\ opened' \in 0 .. MaxSessions
      BY <2>1, <2>2, OpenType
    <2>4. user' \in [User -> UserRow]
      BY <2>1, <2>2, UserType
    <2>5. token' \in [TokenId -> TokenRow]
      BY <2>2, TokensType
    <2>. QED
      BY <2>2, <2>3, <2>4, <2>5
  <1>5. ASSUME NEW x \in TokenId, CompleteReset(x)
        PROVE  TypeOK'
    <2>. DEFINE u == token[x].user
                n == user[u].password + 1
    <2>1. u \in User
      BY DEF TokenRow
    <2>2. n \in 0 .. MaxPasswords
      <3>1. user[u].password \in 0 .. MaxPasswords
        BY <2>1 DEF UserRow
      <3>2. user[u].password < MaxPasswords
        BY <1>5 DEF CompleteReset
      <3>. QED
        BY <3>1, <3>2 DEF Bounds
    <2>3. /\ session' = RevokeSessions(u) /\ token' = Consume(x)
          /\ user' = [user EXCEPT ![u].password = n, ![u].fails = 0, ![u].locked = FALSE]
          /\ UNCHANGED <<issued, pending, opened, request, now>>
      BY <1>5 DEF CompleteReset
    <2>. HIDE DEF u, n
    <2>4. user' \in [User -> UserRow]
      BY <2>1, <2>2, <2>3, UserType
    <2>5. token' \in [TokenId -> TokenRow] /\ session' \in [SessionId -> SessionRow]
      BY <2>3, TokensType, SessionsType
    <2>. QED
      BY <2>3, <2>4, <2>5
  <1>6. ASSUME NEW x \in TokenId, TokenRunsOut(x)
        PROVE  TypeOK'
    <2>1. token' \in [TokenId -> TokenRow]
      BY <1>6, TokensType DEF TokenRunsOut
    <2>. QED
      BY <1>6, <2>1 DEF TokenRunsOut
  <1>. QED
    BY <1>1, <1>2, <1>3, <1>4, <1>5, <1>6

LEMMA TypeStep ==
  ASSUME Bounds, TypeOK, [Next]_vars
  PROVE  TypeOK'
  <1>1. ASSUME NEW r \in Request, Arrive(r)
        PROVE  TypeOK'
    BY <1>1, RequestType DEF Arrive, Authenticate, TypeOK
  <1>2. ASSUME NEW r \in Request, Accept(r)
        PROVE  TypeOK'
    BY <1>2, AcceptType DEF Accept, TypeOK
  <1>3. ASSUME NEW r \in Request, UserCall(r)
        PROVE  TypeOK'
    <2>1. PICK role \in Role \cup {"keep"}, status \in {"keep", "active", "disabled"} :
            UpdateUser(r, role, status)
      BY <1>3 DEF UserCall
    <2>2. UNCHANGED <<token, issued, pending, opened, now>>
      BY <2>1 DEF UpdateUser
    <2>3. /\ user' \in [User -> UserRow] /\ session' \in [SessionId -> SessionRow]
          /\ request' \in [Request -> Context]
      BY <2>1, UpdateUserType
    <2>. QED
      BY <2>2, <2>3 DEF TypeOK
  <1>4. ASSUME NEW u \in User, CommitMail(u)
        PROVE  TypeOK'
    BY <1>4, CommitType DEF CommitMail, TypeOK
  <1>5. ASSUME NEW u \in User, LoseMail(u)
        PROVE  TypeOK'
    <2>1. NoMailing \in Mailing
      BY DEF Bounds, NoMailing, Mailing, Role
    <2>. QED
      BY <1>5, <2>1 DEF LoseMail, TypeOK
  <1>6. CASE Tick
    BY <1>6 DEF Tick, TypeOK, Bounds
  <1>7. CASE UNCHANGED vars
    BY <1>7 DEF vars, TypeOK
  <1>. QED
    BY <1>1, <1>2, <1>3, <1>4, <1>5, <1>6, <1>7, PlainType, MailingType, PublicType
       DEF Next, InvitationCall, PublicCall

\* Rows, mailings and requests hold values of their tables.
THEOREM TypeCorrect ==
  ASSUME Bounds
  PROVE  Spec => []TypeOK
  BY InitType, TypeStep, PTL DEF Spec

-----------------------------------------------------------------------------
(* The newest token, and the sessions of a user.                            *)

\* Tokens were issued before they are stored, and what is being mailed is newer than
\* whatever the user has.
IssuedFirst ==
  /\ \A x \in TokenId : token[x].exists => x <= issued
  /\ \A u \in User : ~Unlocked(u) =>
       /\ pending[u].token \in 1 .. issued
       /\ \A x \in TokenId : token[x].exists /\ token[x].user = u => x < pending[u].token

\* What can still be used, expired or not, is the newest of its kind.
OutstandingIsNewest ==
  \A x, y \in TokenId : Outstanding(x) /\ token[y].exists /\ SameKind(x, y) => y <= x

TokenInv == IssuedFirst /\ OutstandingIsNewest

\* Nobody else enters a user whose invitation is being mailed.
CreatedOnce ==
  \A u \in User : pending[u].kind = "create" => user[u].status = "absent"

\* A session belongs to somebody who registered.
SessionsCurrent ==
  \A s \in 1 .. opened :
    /\ user[session[s].user].status \in {"active", "disabled"}
    /\ ~session[s].revoked =>
         /\ session[s].password = user[session[s].user].password
         /\ user[session[s].user].status = "active"

SessionInv == CreatedOnce /\ SessionsCurrent

\* A session goes idle when its last activity says, and requests know when it ends.
ClockInv ==
  /\ \A s \in 1 .. opened :
       session[s].idle = LeastOf(session[s].seen + IdleFor, session[s].expires)
  /\ \A r \in Request : request[r].phase = "read" =>
       /\ request[r].session <= opened
       /\ request[r].row.expires = session[request[r].session].expires

IInv == TypeOK /\ TokenInv /\ SessionInv /\ ClockInv

-----------------------------------------------------------------------------

\* Revoking takes tokens out of use and changes nothing else of them.
LEMMA RevokeKeeps ==
  ASSUME TypeOK, NEW u, NEW purpose, NEW x \in TokenId
  PROVE  LET t == RevokeTokens(u, purpose)[x] IN
         /\ t.exists = token[x].exists /\ t.user = token[x].user
         /\ t.purpose = token[x].purpose /\ t.used = token[x].used
         /\ ~t.revoked => ~token[x].revoked
         /\ t.exists /\ ~t.used /\ ~t.revoked => ~(t.user = u /\ t.purpose = purpose)
  BY DEF TypeOK, TokenRow, RevokeTokens, Outstanding

\* Nothing is stored anew, and nothing comes back into use.
Fewer ==
  \A x \in TokenId :
    /\ token'[x].exists = token[x].exists /\ token'[x].user = token[x].user
    /\ token'[x].purpose = token[x].purpose
    /\ Outstanding(x)' => Outstanding(x)

LEMMA FewerKeeps ==
  ASSUME TokenInv, Fewer, UNCHANGED <<issued, pending>>
  PROVE  TokenInv'
  <1>1. IssuedFirst'
    BY DEF TokenInv, IssuedFirst, Fewer, Unlocked
  <1>2. OutstandingIsNewest'
    <2>. SUFFICES ASSUME NEW x \in TokenId, NEW y \in TokenId,
                         Outstanding(x)', token'[y].exists, SameKind(x, y)'
                  PROVE  y <= x
      BY DEF OutstandingIsNewest
    <2>1. Outstanding(x) /\ token[y].exists
      BY DEF Fewer
    <2>2. SameKind(x, y)
      BY DEF Fewer, SameKind
    <2>. QED
      BY <2>1, <2>2 DEF TokenInv, OutstandingIsNewest
  <1>. QED
    BY <1>1, <1>2 DEF TokenInv

LEMMA FewerSteps ==
  ASSUME Bounds, TypeOK,
         \/ \E r \in Request, x \in TokenId : RevokeInvitation(r, x)
         \/ \E x \in TokenId : Register(x) \/ CompleteReset(x) \/ TokenRunsOut(x)
  PROVE  Fewer /\ UNCHANGED <<issued, pending>>
  <1>. USE DEF Fewer, Outstanding
  <1>1. token \in [TokenId -> TokenRow]
    BY DEF TypeOK
  <1>2. CASE \E r \in Request, x \in TokenId : RevokeInvitation(r, x)
    <2>1. PICK x \in TokenId : token' = [token EXCEPT ![x].revoked = TRUE]
      BY <1>2 DEF RevokeInvitation
    <2>2. UNCHANGED <<issued, pending>>
      BY <1>2 DEF RevokeInvitation
    <2>. QED
      BY <1>1, <2>1, <2>2 DEF TokenRow
  <1>3. CASE \E x \in TokenId : TokenRunsOut(x)
    <2>1. PICK x \in TokenId : token' = [token EXCEPT ![x].expired = TRUE]
      BY <1>3 DEF TokenRunsOut
    <2>2. UNCHANGED <<issued, pending>>
      BY <1>3 DEF TokenRunsOut
    <2>. QED
      BY <1>1, <2>1, <2>2 DEF TokenRow
  <1>4. CASE \E x \in TokenId : Register(x) \/ CompleteReset(x)
    <2>1. PICK x \in TokenId : Register(x) \/ CompleteReset(x)
      BY <1>4
    <2>2. token' = Consume(x) /\ UNCHANGED <<issued, pending>>
      BY <2>1 DEF Register, CompleteReset
    <2>. DEFINE R == RevokeTokens(token[x].user, token[x].purpose)
    <2>3. token' = [R EXCEPT ![x] = [token[x] EXCEPT !.used = TRUE]]
      BY <2>2 DEF Consume
    <2>4. R \in [TokenId -> TokenRow]
      BY TokensType
    <2>5. ASSUME NEW y \in TokenId
          PROVE  /\ token'[y].exists = token[y].exists /\ token'[y].user = token[y].user
                 /\ token'[y].purpose = token[y].purpose
                 /\ Outstanding(y)' => Outstanding(y)
      <3>1. CASE y = x
        <4>1. token'[y] = [token[y] EXCEPT !.used = TRUE]
          BY <2>3, <2>4, <3>1
        <4>. QED
          BY <1>1, <4>1 DEF TokenRow
      <3>2. CASE y # x
        <4>1. token'[y] = R[y]
          BY <2>3, <2>4, <3>2
        <4>2. /\ R[y].exists = token[y].exists /\ R[y].user = token[y].user
              /\ R[y].purpose = token[y].purpose /\ R[y].used = token[y].used
              /\ ~R[y].revoked => ~token[y].revoked
          BY RevokeKeeps
        <4>. QED
          BY <4>1, <4>2
      <3>. QED
        BY <3>1, <3>2
    <2>. QED
      BY <2>2, <2>5
  <1>. QED
    BY <1>2, <1>3, <1>4

LEMMA MailTokens ==
  ASSUME Bounds, TypeOK, TokenInv, NEW u \in User, NEW kind \in {"create", "resend", "reset"},
         NEW role \in Role, Mail(u, kind, role)
  PROVE  TokenInv'
  <1>1. /\ issued' = issued + 1 /\ issued \in Nat /\ token' = token
        /\ pending'[u].token = issued' /\ \A v \in User : v # u => pending'[v] = pending[v]
    BY MailType DEF Mail, TypeOK
  <1>2. \A x \in TokenId : token[x].exists => x <= issued /\ x < issued'
    BY <1>1 DEF TokenInv, IssuedFirst, TokenId
  <1>3. ASSUME NEW v \in User, ~Unlocked(v)'
        PROVE  /\ pending'[v].token \in 1 .. issued'
               /\ \A x \in TokenId : token'[x].exists /\ token'[x].user = v => x < pending'[v].token
    <2>1. CASE v = u
      BY <1>1, <1>2, <2>1
    <2>2. CASE v # u
      <3>1. pending'[v] = pending[v]
        BY <1>1, <2>2
      <3>2. ~Unlocked(v)
        BY <1>3, <3>1 DEF Unlocked
      <3>3. /\ pending[v].token \in 1 .. issued
            /\ \A x \in TokenId : token[x].exists /\ token[x].user = v => x < pending[v].token
        BY <3>2 DEF TokenInv, IssuedFirst
      <3>. QED
        BY <1>1, <3>1, <3>3
    <2>. QED
      BY <2>1, <2>2
  <1>4. IssuedFirst'
    BY <1>1, <1>2, <1>3 DEF IssuedFirst, TokenId
  <1>5. OutstandingIsNewest'
    BY <1>1 DEF TokenInv, OutstandingIsNewest, Outstanding, SameKind
  <1>. QED
    BY <1>4, <1>5 DEF TokenInv

LEMMA CommitTokens ==
  ASSUME Bounds, TypeOK, TokenInv, NEW u \in User, CommitMail(u)
  PROVE  TokenInv'
  <1>. DEFINE n == pending[u].token
              purpose == Purposes(pending[u].kind)
              R == RevokeTokens(u, purpose)
  <1>1. /\ ~Unlocked(u) /\ issued' = issued /\ token' = [R EXCEPT ![n] = Delivered(u)]
        /\ pending' = [pending EXCEPT ![u] = NoMailing]
    BY DEF CommitMail, Delivered, Purposes
  <1>2. /\ n \in 1 .. issued /\ issued \in 0 .. MaxTokens
        /\ \A x \in TokenId : token[x].exists /\ token[x].user = u => x < n
    BY <1>1 DEF TokenInv, IssuedFirst, TypeOK
  <1>3. n \in TokenId
    BY <1>2 DEF TokenId, Bounds
  <1>4. R \in [TokenId -> TokenRow]
    BY TokensType
  <1>5. token'[n] = Delivered(u)
    BY <1>1, <1>3, <1>4
  <1>6. Delivered(u).user = u /\ Delivered(u).purpose = purpose
    BY DEF Delivered, NoToken
  <1>7. ASSUME NEW x \in TokenId, x # n
        PROVE  /\ token'[x].exists = token[x].exists /\ token'[x].user = token[x].user
               /\ token'[x].purpose = token[x].purpose
               /\ Outstanding(x)' => Outstanding(x) /\ ~(token[x].user = u /\ token[x].purpose = purpose)
    <2>1. token'[x] = R[x]
      BY <1>1, <1>4, <1>7
    <2>2. /\ R[x].exists = token[x].exists /\ R[x].user = token[x].user
          /\ R[x].purpose = token[x].purpose /\ R[x].used = token[x].used
          /\ ~R[x].revoked => ~token[x].revoked
          /\ R[x].exists /\ ~R[x].used /\ ~R[x].revoked
               => ~(R[x].user = u /\ R[x].purpose = purpose)
      BY RevokeKeeps
    <2>. QED
      BY <2>1, <2>2 DEF Outstanding
  <1>. HIDE DEF n, purpose, R
  <1>8. IssuedFirst'
    <2>1. \A x \in TokenId : token'[x].exists => x <= issued'
      BY <1>1, <1>2, <1>7 DEF TokenInv, IssuedFirst
    <2>2. ASSUME NEW v \in User, ~Unlocked(v)'
          PROVE  /\ pending'[v].token \in 1 .. issued'
                 /\ \A x \in TokenId : token'[x].exists /\ token'[x].user = v => x < pending'[v].token
      <3>1. v # u /\ pending'[v] = pending[v]
        BY <1>1, <2>2 DEF Unlocked, TypeOK, NoMailing
      <3>2. ~Unlocked(v)
        BY <2>2, <3>1 DEF Unlocked
      <3>3. /\ pending[v].token \in 1 .. issued
            /\ \A x \in TokenId : token[x].exists /\ token[x].user = v => x < pending[v].token
        BY <3>2 DEF TokenInv, IssuedFirst
      <3>. QED
        BY <1>1, <1>5, <1>6, <1>7, <3>1, <3>3
    <2>. QED
      BY <2>1, <2>2 DEF IssuedFirst
  <1>9. OutstandingIsNewest'
    <2>. SUFFICES ASSUME NEW x \in TokenId, NEW y \in TokenId,
                         Outstanding(x)', token'[y].exists, SameKind(x, y)'
                  PROVE  y <= x
      BY DEF OutstandingIsNewest
    <2>1. token'[x].user = token'[y].user /\ token'[x].purpose = token'[y].purpose
      BY DEF SameKind
    <2>2. CASE x = n /\ y = n
      BY <1>2, <2>2
    <2>3. CASE x = n /\ y # n
      <3>1. token[y].exists /\ token[y].user = u
        BY <1>5, <1>6, <1>7, <2>1, <2>3
      <3>. QED
        BY <1>2, <2>3, <3>1 DEF TokenId
    <2>4. CASE x # n /\ y = n
      BY <1>5, <1>6, <1>7, <2>1, <2>4
    <2>5. CASE x # n /\ y # n
      <3>1. Outstanding(x) /\ token[y].exists /\ SameKind(x, y)
        BY <1>7, <2>1, <2>5 DEF SameKind
      <3>. QED
        BY <3>1 DEF TokenInv, OutstandingIsNewest
    <2>. QED
      BY <2>2, <2>3, <2>4, <2>5
  <1>. QED
    BY <1>8, <1>9 DEF TokenInv

LEMMA LoseTokens ==
  ASSUME TypeOK, TokenInv, NEW u \in User, LoseMail(u)
  PROVE  TokenInv'
  <1>1. \A v \in User : ~Unlocked(v)' => pending'[v] = pending[v] /\ ~Unlocked(v)
    BY DEF LoseMail, TypeOK, Unlocked, NoMailing
  <1>2. UNCHANGED <<token, issued>>
    BY DEF LoseMail
  <1>3. IssuedFirst'
    BY <1>1, <1>2 DEF TokenInv, IssuedFirst
  <1>4. OutstandingIsNewest'
    BY <1>2 DEF TokenInv, OutstandingIsNewest, Outstanding, SameKind
  <1>. QED
    BY <1>3, <1>4 DEF TokenInv

\* The steps that mail, in one form.
LEMMA MailSteps ==
  ASSUME Bounds, TypeOK,
         \/ \E r \in Request : Resend(r) \/ \E role \in Role : Invite(r, role)
         \/ \E u \in User : RequestReset(u) \/ Bootstrap(u)
  PROVE  \E u \in User, kind \in {"create", "resend", "reset"}, role \in Role :
           /\ Mail(u, kind, role)
           /\ kind = "create" => user[u].status = "absent"
           /\ \/ request' = request
              \/ \E r \in Request : Done(r)
  <1>1. \A r \in Request : request[r].target \in User
    BY DEF TypeOK, Context
  <1>2. \A u \in User : user[u].role \in Role
    BY DEF TypeOK, UserRow
  <1>3. CASE \E r \in Request : Resend(r) \/ \E role \in Role : Invite(r, role)
    BY <1>1, <1>2, <1>3 DEF Resend, Invite
  <1>4. CASE \E u \in User : RequestReset(u) \/ Bootstrap(u)
    BY <1>2, <1>4 DEF RequestReset, Bootstrap, Role
  <1>. QED
    BY <1>3, <1>4

\* The other steps leave tokens and mailings alone.
\* Authenticated requests and the users' own calls, the mail apart, leave the tokens alone.
LEMMA RequestsLeaveTokens ==
  ASSUME NEW r \in Request,
         \/ Arrive(r) \/ Reject(r) \/ Accept(r) \/ GiveUp(r)
         \/ UserCall(r) \/ ChangePassword(r) \/ Logout(r)
  PROVE  UNCHANGED <<token, issued, pending>>
  <1>1. CASE Arrive(r)
    BY <1>1 DEF Arrive, Authenticate
  <1>2. CASE Reject(r) \/ GiveUp(r)
    BY <1>2 DEF Reject, GiveUp
  <1>3. CASE Accept(r)
    BY <1>3 DEF Accept
  <1>4. CASE UserCall(r)
    BY <1>4 DEF UserCall, UpdateUser
  <1>5. CASE ChangePassword(r)
    BY <1>5 DEF ChangePassword
  <1>6. CASE Logout(r)
    BY <1>6 DEF Logout
  <1>. QED
    BY <1>1, <1>2, <1>3, <1>4, <1>5, <1>6

LEMMA LoginsLeaveTokens ==
  ASSUME \/ \E u \in User : Login(u) \/ FailLogin(u) \/ LockRunsOut(u)
         \/ Tick \/ UNCHANGED vars
  PROVE  UNCHANGED <<token, issued, pending>>
  <1>1. CASE \E u \in User : Login(u)
    BY <1>1 DEF Login
  <1>2. CASE \E u \in User : FailLogin(u) \/ LockRunsOut(u)
    BY <1>2 DEF FailLogin, LockRunsOut
  <1>3. CASE Tick \/ UNCHANGED vars
    BY <1>3 DEF Tick, vars
  <1>. QED
    BY <1>1, <1>2, <1>3

LEMMA TokenStep ==
  ASSUME Bounds, TypeOK, TokenInv, [Next]_vars
  PROVE  TokenInv'
  <1>1. CASE UNCHANGED <<token, issued, pending>>
    BY <1>1 DEF TokenInv, IssuedFirst, OutstandingIsNewest, Outstanding, SameKind, Unlocked
  <1>2. CASE \/ \E r \in Request, x \in TokenId : RevokeInvitation(r, x)
             \/ \E x \in TokenId : Register(x) \/ CompleteReset(x) \/ TokenRunsOut(x)
    BY <1>2, FewerSteps, FewerKeeps
  <1>3. CASE \/ \E r \in Request : Resend(r) \/ \E role \in Role : Invite(r, role)
             \/ \E u \in User : RequestReset(u) \/ Bootstrap(u)
    BY <1>3, MailSteps, MailTokens
  <1>4. CASE \E u \in User : CommitMail(u)
    BY <1>4, CommitTokens
  <1>5. CASE \E u \in User : LoseMail(u)
    BY <1>5, LoseTokens
  <1>6. CASE \E r \in Request : Arrive(r) \/ Reject(r) \/ Accept(r) \/ GiveUp(r)
                                \/ UserCall(r) \/ ChangePassword(r) \/ Logout(r)
    BY <1>1, <1>6, RequestsLeaveTokens
  <1>7. CASE \/ \E u \in User : Login(u) \/ FailLogin(u) \/ LockRunsOut(u)
             \/ Tick \/ UNCHANGED vars
    BY <1>1, <1>7, LoginsLeaveTokens
  <1>. QED
    BY <1>2, <1>3, <1>4, <1>5, <1>6, <1>7 DEF Next, InvitationCall, PublicCall

-----------------------------------------------------------------------------

LEMMA SessionOwners ==
  ASSUME Bounds, TypeOK
  PROVE  \A s \in 1 .. opened : s \in SessionId /\ session[s].user \in User
  <1>1. 1 .. opened \subseteq SessionId
    BY DEF Bounds, TypeOK, SessionId
  <1>2. \A s \in SessionId : session[s].user \in User
    BY DEF TypeOK, SessionRow
  <1>. QED
    BY <1>1, <1>2

\* Sessions may be revoked, statuses and passwords stay.
LEMMA QuietSessions ==
  ASSUME Bounds, TypeOK, SessionInv, opened' = opened,
         \A s \in 1 .. opened :
           /\ session'[s].user = session[s].user /\ session'[s].password = session[s].password
           /\ ~session'[s].revoked => ~session[s].revoked,
         \A u \in User : user'[u].status = user[u].status /\ user'[u].password = user[u].password,
         \A u \in User : pending'[u].kind = "create" =>
           pending[u].kind = "create" \/ user[u].status = "absent"
  PROVE  SessionInv'
  <1>1. \A s \in 1 .. opened : session[s].user \in User
    BY SessionOwners
  <1>2. CreatedOnce'
    BY DEF SessionInv, CreatedOnce
  <1>3. ASSUME NEW s \in 1 .. opened
        PROVE  /\ user'[session'[s].user].status \in {"active", "disabled"}
               /\ ~session'[s].revoked =>
                    /\ session'[s].password = user'[session'[s].user].password
                    /\ user'[session'[s].user].status = "active"
    <2>1. /\ session'[s].user = session[s].user /\ session'[s].password = session[s].password
          /\ ~session'[s].revoked => ~session[s].revoked
      OBVIOUS
    <2>2. /\ user[session[s].user].status \in {"active", "disabled"}
          /\ ~session[s].revoked =>
               /\ session[s].password = user[session[s].user].password
               /\ user[session[s].user].status = "active"
      BY DEF SessionInv, SessionsCurrent
    <2>3. /\ user'[session[s].user].status = user[session[s].user].status
          /\ user'[session[s].user].password = user[session[s].user].password
      BY <1>1
    <2>. QED
      BY <2>1, <2>2, <2>3
  <1>4. SessionsCurrent'
    BY <1>3 DEF SessionsCurrent
  <1>. QED
    BY <1>2, <1>4 DEF SessionInv

\* The locked row of one user changes: its sessions end, or its password stays and it is
\* not disabled.
LEMMA ChangedSessions ==
  ASSUME Bounds, TypeOK, SessionInv, NEW u \in User, Unlocked(u), UNCHANGED <<pending, opened>>,
         \A v \in User : v # u => user'[v] = user[v],
         user'[u].status \in {user[u].status, "active", "disabled"},
         \/ session' = RevokeSessions(u)
         \/ /\ session' = session /\ user'[u].password = user[u].password
            /\ user'[u].status \in {user[u].status, "active"}
  PROVE  SessionInv'
  <1>1. CreatedOnce'
    BY DEF SessionInv, CreatedOnce, Unlocked
  <1>2. SessionsCurrent'
    <2>. SUFFICES ASSUME NEW s \in 1 .. opened
                  PROVE  /\ user'[session'[s].user].status \in {"active", "disabled"}
                         /\ ~session'[s].revoked =>
                              /\ session'[s].password = user'[session'[s].user].password
                              /\ user'[session'[s].user].status = "active"
      BY DEF SessionsCurrent
    <2>1. s \in SessionId /\ session[s].user \in User
      BY SessionOwners
    <2>2. /\ user[session[s].user].status \in {"active", "disabled"}
          /\ ~session[s].revoked =>
               /\ session[s].password = user[session[s].user].password
               /\ user[session[s].user].status = "active"
      BY DEF SessionInv, SessionsCurrent
    <2>3. CASE session[s].user = u
      <3>1. CASE session' = RevokeSessions(u)
        <4>1. session'[s].user = u /\ session'[s].revoked
          BY <2>1, <2>3, <3>1 DEF RevokeSessions, TypeOK, SessionRow
        <4>. QED
          BY <2>2, <2>3, <4>1
      <3>2. CASE session' = session /\ user'[u].password = user[u].password
                 /\ user'[u].status \in {user[u].status, "active"}
        BY <2>2, <2>3, <3>2
      <3>. QED
        BY <3>1, <3>2
    <2>4. CASE session[s].user # u
      <3>1. session'[s] = session[s]
        BY <2>1, <2>4 DEF RevokeSessions
      <3>. QED
        BY <2>1, <2>2, <2>4, <3>1
    <2>. QED
      BY <2>3, <2>4
  <1>. QED
    BY <1>1, <1>2 DEF SessionInv

\* Somebody logs in or registers.
LEMMA OpenedSessions ==
  ASSUME Bounds, TypeOK, SessionInv, NEW u \in User, NEW n \in 0 .. MaxPasswords,
         Unlocked(u), OpenSession(u, n), pending' = pending,
         \A v \in User : v # u => user'[v] = user[v],
         user'[u].status = "active" /\ user'[u].password = n,
         user[u].status = "invited" \/ n = user[u].password
  PROVE  SessionInv'
  <1>1. CreatedOnce'
    BY DEF SessionInv, CreatedOnce, Unlocked
  <1>2. /\ opened' = opened + 1 /\ opened' \in SessionId /\ opened \in Nat
        /\ session'[opened'].user = u /\ session'[opened'].password = n
        /\ \A s \in SessionId : s # opened' => session'[s] = session[s]
    BY OpenType DEF TypeOK
  <1>3. SessionsCurrent'
    <2>. SUFFICES ASSUME NEW s \in 1 .. opened'
                  PROVE  /\ user'[session'[s].user].status \in {"active", "disabled"}
                         /\ ~session'[s].revoked =>
                              /\ session'[s].password = user'[session'[s].user].password
                              /\ user'[session'[s].user].status = "active"
      BY DEF SessionsCurrent
    <2>1. CASE s = opened'
      BY <1>2, <2>1
    <2>2. CASE s # opened'
      <3>1. s \in 1 .. opened /\ s \in SessionId
        BY <1>2, <2>2 DEF Bounds, SessionId, TypeOK
      <3>3. session'[s] = session[s] /\ session[s].user \in User
        BY <1>2, <2>2, <3>1 DEF TypeOK, SessionRow
      <3>2. /\ user[session[s].user].status \in {"active", "disabled"}
            /\ ~session[s].revoked =>
                 /\ session[s].password = user[session[s].user].password
                 /\ user[session[s].user].status = "active"
        BY <3>1 DEF SessionInv, SessionsCurrent
      <3>. QED
        BY <3>2, <3>3
    <2>. QED
      BY <2>1, <2>2
  <1>. QED
    BY <1>1, <1>3 DEF SessionInv

LEMMA CommitSessions ==
  ASSUME Bounds, TypeOK, SessionInv, NEW u \in User, CommitMail(u)
  PROVE  SessionInv'
  <1>1. /\ UNCHANGED <<session, opened>> /\ user \in [User -> UserRow]
        /\ \A v \in User : v # u => pending'[v] = pending[v]
        /\ pending'[u].kind = "none"
    BY DEF CommitMail, TypeOK, NoMailing
  <1>2. \A v \in User : v # u => user'[v] = user[v]
    BY <1>1 DEF CommitMail
  <1>3. user'[u] = user[u] \/ user[u].status = "absent"
    BY <1>1 DEF CommitMail, SessionInv, CreatedOnce
  <1>4. CreatedOnce'
    BY <1>1, <1>2 DEF SessionInv, CreatedOnce
  <1>5. \A s \in 1 .. opened : session[s].user \in User
    BY SessionOwners
  <1>6. SessionsCurrent'
    BY <1>1, <1>2, <1>3, <1>5 DEF SessionInv, SessionsCurrent
  <1>. QED
    BY <1>4, <1>6 DEF SessionInv

\* The requests that revoke a session at most, and what does not concern sessions.
LEMMA RevokedSessions ==
  ASSUME Bounds, TypeOK, SessionInv, UNCHANGED <<user, pending, opened>>,
         \/ session' = session
         \/ \E s \in SessionId : session' = [session EXCEPT ![s].revoked = TRUE]
         \/ \E s \in SessionId, n \in Nat, i \in Nat :
              session' = [session EXCEPT ![s].seen = n, ![s].idle = i]
  PROVE  SessionInv'
  <1>. DEFINE Kept(s) == /\ session'[s].user = session[s].user
                         /\ session'[s].password = session[s].password
                         /\ ~session'[s].revoked => ~session[s].revoked
  <1>1. session \in [SessionId -> SessionRow]
    BY DEF TypeOK
  <1>2. CASE session' = session
    <2>1. \A s \in 1 .. opened : Kept(s)
      BY <1>2
    <2>. QED
      BY <2>1, QuietSessions
  <1>3. CASE \E s \in SessionId : session' = [session EXCEPT ![s].revoked = TRUE]
    <2>3. PICK k \in SessionId : session' = [session EXCEPT ![k].revoked = TRUE]
      BY <1>3
    <2>1. \A s \in SessionId :
            session'[s] \in {session[s], [session[s] EXCEPT !.revoked = TRUE]}
      BY <1>1, <2>3
    <2>4. \A s \in SessionId : Kept(s)
      BY <1>1, <2>1 DEF SessionRow
    <2>2. \A s \in 1 .. opened : Kept(s)
      BY <2>4, SessionOwners
    <2>. QED
      BY <2>2, QuietSessions
  <1>4. CASE \E s \in SessionId, n \in Nat, i \in Nat :
               session' = [session EXCEPT ![s].seen = n, ![s].idle = i]
    <2>3. PICK k \in SessionId, n \in Nat, i \in Nat :
            session' = [session EXCEPT ![k].seen = n, ![k].idle = i]
      BY <1>4
    <2>1. \A s \in SessionId : s # k => session'[s] = session[s]
      BY <1>1, <2>3
    <2>5. session'[k] = [[session[k] EXCEPT !.seen = n] EXCEPT !.idle = i]
      BY <1>1, <2>3
    <2>6. Kept(k)
      BY <1>1, <2>5 DEF SessionRow
    <2>4. \A s \in SessionId : Kept(s)
      BY <2>1, <2>6
    <2>2. \A s \in 1 .. opened : Kept(s)
      BY <2>4, SessionOwners
    <2>. QED
      BY <2>2, QuietSessions
  <1>. QED
    BY <1>2, <1>3, <1>4

LEMMA RequestSessions ==
  ASSUME Bounds, TypeOK, SessionInv, NEW r \in Request,
         \/ Arrive(r) \/ Reject(r) \/ Accept(r) \/ GiveUp(r) \/ Logout(r)
         \/ \E x \in TokenId : RevokeInvitation(r, x)
  PROVE  SessionInv'
  <1>1. request[r] \in Context
    BY DEF TypeOK
  <1>2. request[r].session \in SessionId
    BY <1>1 DEF Context
  <1>3. CASE Arrive(r) \/ GiveUp(r) \/ \E x \in TokenId : RevokeInvitation(r, x)
    <2>1. UNCHANGED <<user, pending, session, opened>>
      <3>1. CASE Arrive(r)
        BY <3>1 DEF Arrive, Authenticate
      <3>2. CASE GiveUp(r)
        BY <3>2 DEF GiveUp
      <3>3. CASE \E x \in TokenId : RevokeInvitation(r, x)
        BY <3>3 DEF RevokeInvitation
      <3>. QED
        BY <1>3, <3>1, <3>2, <3>3
    <2>. QED
      BY <2>1, RevokedSessions
  <1>4. CASE Reject(r)
    BY <1>2, <1>4, RevokedSessions DEF Reject
  <1>5. CASE Logout(r)
    BY <1>2, <1>5, RevokedSessions DEF Logout
  <1>6. CASE Accept(r)
    <2>. DEFINE at == request[r].at
                idle == LeastOf(request[r].at + IdleFor, request[r].row.expires)
    <2>1. at \in Nat /\ idle \in Nat
      BY <1>1 DEF Context, SessionRow, Bounds, LeastOf
    <2>2. \/ session' = session
          \/ session' = [session EXCEPT ![request[r].session].seen = at,
                                        ![request[r].session].idle = idle]
      BY <1>6 DEF Accept
    <2>3. UNCHANGED <<user, pending, opened>>
      BY <1>6 DEF Accept
    <2>. HIDE DEF at, idle
    <2>. QED
      BY <1>2, <2>1, <2>2, <2>3, RevokedSessions
  <1>. QED
    BY <1>3, <1>4, <1>5, <1>6

LEMMA UpdateSessions ==
  ASSUME Bounds, TypeOK, SessionInv, NEW r \in Request, UserCall(r) \/ ChangePassword(r)
  PROVE  SessionInv'
  <1>1. request[r].target \in User /\ request[r].row.user \in User
    BY DEF TypeOK, Context, SessionRow
  <1>2. user \in [User -> UserRow] /\ \A v \in User : user[v] \in UserRow
    BY DEF TypeOK
  <1>3. CASE ChangePassword(r)
    <2>. DEFINE u == request[r].row.user
    <2>1. /\ Unlocked(u) /\ user' = [user EXCEPT ![u].password = @ + 1]
          /\ session' = RevokeSessions(u) /\ UNCHANGED <<pending, opened>>
      BY <1>3 DEF ChangePassword
    <2>. HIDE DEF u
    <2>2. u \in User
      BY <1>1 DEF u
    <2>3. /\ \A v \in User : v # u => user'[v] = user[v]
          /\ user'[u].status = user[u].status
      BY <1>2, <2>1, <2>2 DEF UserRow
    <2>. QED
      BY <2>1, <2>2, <2>3, ChangedSessions
  <1>4. CASE UserCall(r)
    <2>1. PICK role \in Role \cup {"keep"}, status \in {"keep", "active", "disabled"} :
            UpdateUser(r, role, status)
      BY <1>4 DEF UserCall
    <2>. DEFINE u == request[r].target
                newRole == IF role \in {"keep", Known(r).role} THEN user[u].role ELSE role
                newStatus == IF status \in {"keep", Known(r).status} THEN user[u].status ELSE status
    <2>2. /\ Unlocked(u) /\ user' = [user EXCEPT ![u].role = newRole, ![u].status = newStatus]
          /\ session' = IF status = "disabled" THEN RevokeSessions(u) ELSE session
          /\ UNCHANGED <<pending, opened>>
      BY <2>1 DEF UpdateUser
    <2>3. newStatus \in {user[u].status, "active", "disabled"}
      OBVIOUS
    <2>4. status # "disabled" => newStatus \in {user[u].status, "active"}
      OBVIOUS
    <2>5. u \in User
      BY <1>1
    <2>. HIDE DEF u, newRole, newStatus
    <2>6. /\ \A v \in User : v # u => user'[v] = user[v]
          /\ user'[u].status = newStatus /\ user'[u].password = user[u].password
      BY <1>2, <2>2, <2>5 DEF UserRow
    <2>. QED
      BY <2>2, <2>3, <2>4, <2>5, <2>6, ChangedSessions
  <1>. QED
    BY <1>3, <1>4

LEMMA EnteringSessions ==
  ASSUME Bounds, TypeOK, SessionInv,
         \/ \E u \in User : Login(u)
         \/ \E x \in TokenId : Register(x) \/ CompleteReset(x)
  PROVE  SessionInv'
  <1>1. user \in [User -> UserRow] /\ \A v \in User : user[v] \in UserRow
    BY DEF TypeOK
  <1>2. ASSUME NEW u \in User, Login(u)
        PROVE  SessionInv'
    <2>. DEFINE n == user[u].password
    <2>1. n \in 0 .. MaxPasswords
      BY <1>1 DEF UserRow
    <2>2. /\ Unlocked(u) /\ OpenSession(u, n) /\ pending' = pending
          /\ user[u].status = "active" /\ user' = [user EXCEPT ![u].fails = 0]
      BY <1>2 DEF Login
    <2>3. /\ \A v \in User : v # u => user'[v] = user[v]
          /\ user'[u].status = "active" /\ user'[u].password = n
      BY <1>1, <2>2 DEF UserRow
    <2>. QED
      BY <2>1, <2>2, <2>3, OpenedSessions
  <1>3. ASSUME NEW x \in TokenId, Register(x)
        PROVE  SessionInv'
    <2>. DEFINE u == token[x].user
    <2>1. u \in User /\ 1 \in 0 .. MaxPasswords
      BY DEF TypeOK, TokenRow, Bounds
    <2>2. /\ Unlocked(u) /\ OpenSession(u, 1) /\ pending' = pending
          /\ user[u].status = "invited"
          /\ user' = [user EXCEPT ![u].status = "active", ![u].password = 1, ![u].fails = 0]
      BY <1>3 DEF Register, InvitationValid
    <2>. HIDE DEF u
    <2>3. /\ \A v \in User : v # u => user'[v] = user[v]
          /\ user'[u].status = "active" /\ user'[u].password = 1
      BY <1>1, <2>1, <2>2 DEF UserRow
    <2>. QED
      BY <2>1, <2>2, <2>3, OpenedSessions
  <1>4. ASSUME NEW x \in TokenId, CompleteReset(x)
        PROVE  SessionInv'
    <2>. DEFINE u == token[x].user
    <2>1. u \in User
      BY DEF TypeOK, TokenRow
    <2>2. /\ Unlocked(u) /\ session' = RevokeSessions(u) /\ UNCHANGED <<pending, opened>>
          /\ user' = [user EXCEPT ![u].password = @ + 1, ![u].fails = 0, ![u].locked = FALSE]
      BY <1>4 DEF CompleteReset
    <2>. HIDE DEF u
    <2>3. /\ \A v \in User : v # u => user'[v] = user[v]
          /\ user'[u].status = user[u].status
      BY <1>1, <2>1, <2>2 DEF UserRow
    <2>. QED
      BY <2>1, <2>2, <2>3, ChangedSessions
  <1>. QED
    BY <1>2, <1>3, <1>4

LEMMA SessionStep ==
  ASSUME Bounds, TypeOK, SessionInv, [Next]_vars
  PROVE  SessionInv'
  <1>1. CASE \E r \in Request :
               \/ Arrive(r) \/ Reject(r) \/ Accept(r) \/ GiveUp(r) \/ Logout(r)
               \/ \E x \in TokenId : RevokeInvitation(r, x)
    BY <1>1, RequestSessions
  <1>2. CASE \E r \in Request : UserCall(r) \/ ChangePassword(r)
    BY <1>2, UpdateSessions
  <1>3. CASE \/ \E u \in User : Login(u)
             \/ \E x \in TokenId : Register(x) \/ CompleteReset(x)
    BY <1>3, EnteringSessions
  <1>4. CASE \/ \E r \in Request : Resend(r) \/ \E role \in Role : Invite(r, role)
             \/ \E u \in User : RequestReset(u) \/ Bootstrap(u)
    <2>1. PICK u \in User, kind \in {"create", "resend", "reset"}, role \in Role :
            Mail(u, kind, role) /\ (kind = "create" => user[u].status = "absent")
      BY <1>4, MailSteps
    <2>2. \A v \in User : pending'[v].kind = "create" =>
            pending[v].kind = "create" \/ user[v].status = "absent"
      BY <2>1, MailType
    <2>. QED
      BY <2>1, <2>2, QuietSessions DEF Mail
  <1>5. CASE \E u \in User : CommitMail(u)
    BY <1>5, CommitSessions
  <1>6. CASE \E u \in User : LoseMail(u)
    <2>1. \A v \in User : pending'[v].kind = "create" => pending[v].kind = "create"
      BY <1>6 DEF LoseMail, TypeOK, NoMailing
    <2>. QED
      BY <1>6, <2>1, QuietSessions DEF LoseMail
  <1>7. CASE \E u \in User : FailLogin(u) \/ LockRunsOut(u)
    <2>1. /\ UNCHANGED <<session, opened, pending>>
          /\ \/ \E u \in User : user' = [user EXCEPT ![u].locked = FALSE]
             \/ \E u \in User : \E n, b : user' = [user EXCEPT ![u].fails = n, ![u].locked = b]
      BY <1>7 DEF FailLogin, LockRunsOut
    <2>2. \A u \in User : user'[u].status = user[u].status /\ user'[u].password = user[u].password
      <3>1. \A u \in User : user[u] \in UserRow
        BY DEF TypeOK
      <3>2. CASE \E u \in User : user' = [user EXCEPT ![u].locked = FALSE]
        BY <3>1, <3>2 DEF TypeOK, UserRow
      <3>3. ASSUME NEW u \in User, NEW n, NEW b,
                   user' = [user EXCEPT ![u].fails = n, ![u].locked = b]
            PROVE  \A v \in User :
                     user'[v].status = user[v].status /\ user'[v].password = user[v].password
        <4>1. \A v \in User : v # u => user'[v] = user[v]
          BY <3>3 DEF TypeOK
        <4>2. user'[u] = [[user[u] EXCEPT !.fails = n] EXCEPT !.locked = b]
          BY <3>3 DEF TypeOK
        <4>3. user'[u].status = user[u].status /\ user'[u].password = user[u].password
          BY <3>1, <4>2 DEF UserRow
        <4>. QED
          BY <4>1, <4>3
      <3>. QED
        BY <2>1, <3>2, <3>3
    <2>. QED
      BY <2>1, <2>2, QuietSessions
  <1>8. CASE (\E x \in TokenId : TokenRunsOut(x)) \/ Tick \/ UNCHANGED vars
    BY <1>8, QuietSessions DEF TokenRunsOut, Tick, vars
  <1>. QED
    BY <1>1, <1>2, <1>3, <1>4, <1>5, <1>6, <1>7, <1>8 DEF Next, InvitationCall, PublicCall

-----------------------------------------------------------------------------

\* No session changes its times, and no request learns of one.
LEMMA StillClock ==
  ASSUME Bounds, TypeOK, ClockInv, opened' = opened,
         \A s \in SessionId :
           /\ session'[s].idle = session[s].idle /\ session'[s].seen = session[s].seen
           /\ session'[s].expires = session[s].expires,
         \A r \in Request : request'[r].phase = "read" => request'[r] = request[r]
  PROVE  ClockInv'
  <1>1. 1 .. opened \subseteq SessionId
    BY SessionOwners
  <1>2. \A r \in Request : request[r].session \in SessionId
    BY DEF TypeOK, Context
  <1>. QED
    BY <1>1, <1>2 DEF ClockInv, LeastOf

\* What a step leaves of the times of the sessions.
LEMMA RevokedTimes ==
  ASSUME TypeOK,
         \/ session' = session
         \/ \E u : session' = RevokeSessions(u)
         \/ \E s \in SessionId : session' = [session EXCEPT ![s].revoked = TRUE]
  PROVE  \A s \in SessionId :
           /\ session'[s].idle = session[s].idle /\ session'[s].seen = session[s].seen
           /\ session'[s].expires = session[s].expires
  <1>1. session \in [SessionId -> SessionRow]
    BY DEF TypeOK
  <1>2. CASE session' = session
    BY <1>2
  <1>3. ASSUME NEW u, session' = RevokeSessions(u)
        PROVE  \A s \in SessionId :
                 session'[s] \in {session[s], [session[s] EXCEPT !.revoked = TRUE]}
    BY <1>3 DEF RevokeSessions
  <1>4. ASSUME NEW k \in SessionId, session' = [session EXCEPT ![k].revoked = TRUE]
        PROVE  \A s \in SessionId :
                 session'[s] \in {session[s], [session[s] EXCEPT !.revoked = TRUE]}
    BY <1>1, <1>4
  <1>5. \A s \in SessionId :
          session'[s] \in {session[s], [session[s] EXCEPT !.revoked = TRUE]}
    BY <1>2, <1>3, <1>4
  <1>. QED
    BY <1>1, <1>5 DEF SessionRow

\* A request that ends or settles is no longer one that has read.
LEMMA EndedRequests ==
  ASSUME TypeOK, NEW r \in Request, Done(r) \/ (\E touched : Settle(r, touched))
  PROVE  \A q \in Request : request'[q].phase = "read" => request'[q] = request[q]
  <1>1. request \in [Request -> Context]
    BY DEF TypeOK
  <1>2. \A q \in Request : q # r => request'[q] = request[q]
    BY <1>1 DEF Done, Settle
  <1>3. CASE Done(r)
    BY <1>1, <1>2, <1>3 DEF Done, NoContext
  <1>4. ASSUME NEW touched, Settle(r, touched)
        PROVE  request'[r].phase = "ready"
    <2>. DEFINE row == [NoSession EXCEPT !.user = request[r].row.user]
                copy == Refreshed(r, touched)
    <2>1. request' = [request EXCEPT ![r].phase = "ready", ![r].at = 0, ![r].active = FALSE, ![r].row = row, ![r].copy = copy]
      BY <1>4 DEF Settle
    <2>. HIDE DEF row, copy
    <2>. QED
      BY <1>1, <2>1 DEF Context
  <1>. QED
    BY <1>2, <1>3, <1>4

\* A session that keeps its times keeps within its absolute end.
LEMMA StillActive ==
  ASSUME Bounds, TypeOK, ClockInv,
         \A s \in SessionId :
           /\ session'[s].idle = session[s].idle /\ session'[s].seen = session[s].seen
           /\ session'[s].expires = session[s].expires
  PROVE  TakesNothingBack
  <1>. SUFFICES ASSUME NEW s \in 1 .. opened
                PROVE  /\ session'[s].seen >= session[s].seen
                       /\ session'[s].idle >= session[s].idle
                       /\ session'[s].idle <= session'[s].expires
    BY DEF TakesNothingBack
  <1>1. s \in SessionId
    BY SessionOwners
  <1>2. session[s] \in SessionRow
    BY <1>1 DEF TypeOK
  <1>3. session[s].seen \in Nat /\ session[s].idle \in Nat /\ session[s].expires \in Nat
    BY <1>2 DEF SessionRow, Bounds
  <1>4. session[s].idle <= session[s].expires
    BY <1>3 DEF ClockInv, LeastOf, Bounds
  <1>. QED
    BY <1>1, <1>3, <1>4

\* A session is opened beside the others.
LEMMA OpenClock ==
  ASSUME Bounds, TypeOK, ClockInv, NEW u \in User, NEW n \in 0 .. MaxPasswords,
         OpenSession(u, n), request' = request
  PROVE  ClockInv' /\ TakesNothingBack
  <1>1. /\ opened' = opened + 1 /\ opened' \in SessionId /\ opened \in Nat /\ now \in Nat
        /\ session'[opened'].expires = now + AbsoluteFor
        /\ session'[opened'].idle = LeastOf(now + IdleFor, now + AbsoluteFor)
        /\ session'[opened'].seen = now
        /\ \A s \in SessionId : s # opened' => session'[s] = session[s]
    BY OpenType DEF TypeOK, Bounds
  <1>2. 1 .. opened \subseteq SessionId
    BY SessionOwners
  <1>3. \A s \in 1 .. opened : session'[s] = session[s]
    BY <1>1, <1>2
  <1>4. \A s \in 1 .. opened' :
          session'[s].idle = LeastOf(session'[s].seen + IdleFor, session'[s].expires)
    <2>1. \A s \in 1 .. opened' : s = opened' \/ s \in 1 .. opened
      BY <1>1
    <2>. QED
      BY <1>1, <1>3, <2>1 DEF ClockInv
  <1>5. ASSUME NEW r \in Request, request[r].phase = "read"
        PROVE  /\ request[r].session <= opened'
               /\ request[r].row.expires = session'[request[r].session].expires
    <2>1. request[r].session \in SessionId /\ request[r].session <= opened
      BY <1>5 DEF ClockInv, TypeOK, Context
    <2>2. request[r].session \in 1 .. opened
      BY <1>1, <2>1 DEF SessionId
    <2>. QED
      BY <1>1, <1>3, <1>5, <2>1, <2>2 DEF ClockInv
  <1>6. ClockInv'
    BY <1>4, <1>5 DEF ClockInv
  <1>7. ASSUME NEW s \in 1 .. opened
        PROVE  /\ session'[s].seen >= session[s].seen
               /\ session'[s].idle >= session[s].idle
               /\ session'[s].idle <= session'[s].expires
    <2>1. session[s] \in SessionRow
      BY <1>2 DEF TypeOK
    <2>2. session[s].seen \in Nat /\ session[s].idle \in Nat /\ session[s].expires \in Nat
      BY <2>1 DEF SessionRow, Bounds
    <2>3. session[s].idle <= session[s].expires
      BY <2>2 DEF ClockInv, LeastOf, Bounds
    <2>. QED
      BY <1>3, <2>2, <2>3
  <1>. QED
    BY <1>6, <1>7 DEF TakesNothingBack

LEMMA ArriveClock ==
  ASSUME Bounds, TypeOK, ClockInv, NEW r \in Request, Arrive(r)
  PROVE  ClockInv' /\ TakesNothingBack
  <1>1. PICK s \in SessionId, kind \in Kind, target \in User : Authenticate(r, s, kind, target)
    BY DEF Arrive
  <1>2. UNCHANGED <<session, opened>> /\ s <= opened
    BY <1>1 DEF Authenticate
  <1>3. /\ \A q \in Request : q # r => request'[q] = request[q]
        /\ request'[r].session = s /\ request'[r].row = session[s]
    BY <1>1 DEF Authenticate, TypeOK
  <1>4. ClockInv'
    BY <1>2, <1>3 DEF ClockInv
  <1>. QED
    BY <1>2, <1>4, StillActive

\* The time of a session goes forward only, towards the end the request knows.
LEMMA AcceptClock ==
  ASSUME Bounds, TypeOK, ClockInv, NEW r \in Request, Accept(r)
  PROVE  ClockInv' /\ TakesNothingBack
  <1>. DEFINE k == request[r].session
              at == request[r].at
              idle == LeastOf(request[r].at + IdleFor, request[r].row.expires)
  <1>1. /\ k \in 1 .. opened /\ k \in SessionId /\ at \in Nat /\ request[r].row.expires \in Nat
        /\ request[r].row.expires = session[k].expires
    <2>1. request[r] \in Context /\ request[r].phase = "read"
      BY DEF Accept, TypeOK
    <2>2. k \in SessionId /\ at \in Nat /\ request[r].row.expires \in Nat
      BY <2>1 DEF Context, SessionRow, Bounds
    <2>3. k <= opened /\ request[r].row.expires = session[k].expires
      BY <2>1 DEF ClockInv
    <2>4. k \in 1 .. opened
      BY <2>2, <2>3 DEF SessionId, TypeOK
    <2>. QED
      BY <2>2, <2>3, <2>4
  <1>2. \A q \in Request : request'[q].phase = "read" => request'[q] = request[q]
    BY EndedRequests DEF Accept
  <1>3. opened' = opened
    BY DEF Accept
  <1>4. CASE session' = session
    BY <1>2, <1>3, <1>4, StillClock, StillActive
  <1>5. CASE /\ session' = [session EXCEPT ![k].seen = at, ![k].idle = idle]
             /\ session[k].seen + TouchEvery <= at
    <2>1. session \in [SessionId -> SessionRow] /\ session[k] \in SessionRow
      BY <1>1 DEF TypeOK
    <2>2. /\ session[k].seen \in Nat /\ session[k].idle \in Nat /\ session[k].expires \in Nat
          /\ IdleFor \in Nat /\ TouchEvery \in Nat
      BY <2>1 DEF SessionRow, Bounds
    <2>3. \A s \in SessionId : s # k => session'[s] = session[s]
      BY <1>5, <2>1
    <2>4. idle = LeastOf(at + IdleFor, session[k].expires)
      BY <1>1
    <2>. HIDE DEF k, at, idle
    <2>5. session'[k] = [[session[k] EXCEPT !.seen = at] EXCEPT !.idle = idle]
      BY <1>1, <1>5, <2>1
    <2>6. /\ session'[k].seen = at /\ session'[k].idle = idle
          /\ session'[k].expires = session[k].expires
      BY <2>1, <2>5 DEF SessionRow
    <2>7. session[k].idle = LeastOf(session[k].seen + IdleFor, session[k].expires)
      BY <1>1 DEF ClockInv
    <2>8. session'[k].seen >= session[k].seen
      BY <1>1, <1>5, <2>2, <2>6
    <2>9. session'[k].idle >= session[k].idle /\ session'[k].idle <= session'[k].expires
      BY <1>1, <1>5, <2>2, <2>4, <2>6, <2>7 DEF LeastOf
    <2>10. \A s \in 1 .. opened :
             /\ s \in SessionId
             /\ session[s].idle = LeastOf(session[s].seen + IdleFor, session[s].expires)
      BY SessionOwners DEF ClockInv
    <2>11. \A s \in 1 .. opened :
             session'[s].idle = LeastOf(session'[s].seen + IdleFor, session'[s].expires)
      BY <2>3, <2>4, <2>6, <2>10
    <2>12. \A s \in SessionId : session'[s].expires = session[s].expires
      BY <2>3, <2>6
    <2>13. \A q \in Request : request[q].session \in SessionId
      BY DEF TypeOK, Context
    <2>14. ClockInv'
      BY <1>2, <1>3, <2>11, <2>12, <2>13 DEF ClockInv
    <2>15. ASSUME NEW s \in 1 .. opened
           PROVE  /\ session'[s].seen >= session[s].seen
                  /\ session'[s].idle >= session[s].idle
                  /\ session'[s].idle <= session'[s].expires
      <3>1. CASE s = k
        BY <2>8, <2>9, <3>1
      <3>2. CASE s # k
        <4>1. session'[s] = session[s] /\ session[s] \in SessionRow
          BY <2>1, <2>3, <2>10, <3>2
        <4>2. session[s].seen \in Nat /\ session[s].idle \in Nat /\ session[s].expires \in Nat
          BY <4>1 DEF SessionRow, Bounds
        <4>3. session[s].idle <= session[s].expires
          BY <2>2, <2>10, <4>2 DEF LeastOf
        <4>. QED
          BY <4>1, <4>2, <4>3
      <3>. QED
        BY <3>1, <3>2
    <2>. QED
      BY <2>14, <2>15 DEF TakesNothingBack
  <1>. QED
    BY <1>4, <1>5 DEF Accept

\* A request that ends leaves the number of sessions, and only ever revokes them.
LEMMA RequestsEnd ==
  ASSUME TypeOK, NEW r \in Request,
         \/ Reject(r) \/ GiveUp(r) \/ Logout(r) \/ ChangePassword(r) \/ UserCall(r)
         \/ InvitationCall(r)
  PROVE  /\ Done(r) /\ opened' = opened
         /\ \/ session' = session
            \/ \E u : session' = RevokeSessions(u)
            \/ \E s \in SessionId : session' = [session EXCEPT ![s].revoked = TRUE]
  <1>1. request[r].session \in SessionId
    BY DEF TypeOK, Context
  <1>2. CASE Reject(r)
    BY <1>1, <1>2 DEF Reject, Done
  <1>3. CASE GiveUp(r)
    BY <1>3 DEF GiveUp, Done
  <1>4. CASE Logout(r)
    BY <1>1, <1>4 DEF Logout
  <1>5. CASE ChangePassword(r)
    BY <1>5 DEF ChangePassword
  <1>6. CASE UserCall(r)
    BY <1>6 DEF UserCall, UpdateUser
  <1>7. CASE InvitationCall(r)
    <2>1. CASE \E role \in Role : Invite(r, role)
      BY <2>1 DEF Invite, Mail
    <2>2. CASE Resend(r)
      BY <2>2 DEF Resend, Mail
    <2>3. CASE \E x \in TokenId : RevokeInvitation(r, x)
      BY <2>3 DEF RevokeInvitation
    <2>. QED
      BY <1>7, <2>1, <2>2, <2>3 DEF InvitationCall
  <1>. QED
    BY <1>2, <1>3, <1>4, <1>5, <1>6, <1>7

\* What is neither a request nor a login leaves the requests and the number of sessions.
LEMMA OthersRevoke ==
  ASSUME \/ \E x \in TokenId : CompleteReset(x) \/ TokenRunsOut(x)
         \/ \E u \in User : \/ FailLogin(u) \/ LockRunsOut(u) \/ RequestReset(u)
                            \/ Bootstrap(u) \/ CommitMail(u) \/ LoseMail(u)
         \/ Tick \/ UNCHANGED vars
  PROVE  /\ opened' = opened /\ request' = request
         /\ session' = session \/ \E u : session' = RevokeSessions(u)
  <1>1. CASE \E x \in TokenId : CompleteReset(x)
    BY <1>1 DEF CompleteReset
  <1>2. CASE \E x \in TokenId : TokenRunsOut(x)
    BY <1>2 DEF TokenRunsOut
  <1>3. CASE \E u \in User : FailLogin(u) \/ LockRunsOut(u)
    BY <1>3 DEF FailLogin, LockRunsOut
  <1>4. CASE \E u \in User : RequestReset(u) \/ Bootstrap(u)
    BY <1>4 DEF RequestReset, Bootstrap, Mail
  <1>5. CASE \E u \in User : CommitMail(u)
    BY <1>5 DEF CommitMail
  <1>6. CASE \E u \in User : LoseMail(u)
    BY <1>6 DEF LoseMail
  <1>7. CASE Tick \/ UNCHANGED vars
    BY <1>7 DEF Tick, vars
  <1>. QED
    BY <1>1, <1>2, <1>3, <1>4, <1>5, <1>6, <1>7

LEMMA ClockStep ==
  ASSUME Bounds, TypeOK, ClockInv, [Next]_vars
  PROVE  ClockInv' /\ TakesNothingBack
  <1>. DEFINE Same == \A s \in SessionId :
                /\ session'[s].idle = session[s].idle /\ session'[s].seen = session[s].seen
                /\ session'[s].expires = session[s].expires
              Ended == \A q \in Request : request'[q].phase = "read" => request'[q] = request[q]
  <1>1. ASSUME opened' = opened, Same, Ended
        PROVE  ClockInv' /\ TakesNothingBack
    BY <1>1, StillClock, StillActive
  <1>2. ASSUME opened' = opened, Ended,
               \/ session' = session
               \/ \E u : session' = RevokeSessions(u)
               \/ \E s \in SessionId : session' = [session EXCEPT ![s].revoked = TRUE]
        PROVE  ClockInv' /\ TakesNothingBack
    <2>1. Same
      BY <1>2, RevokedTimes
    <2>. QED
      BY <1>1, <1>2, <2>1
  <1>. HIDE DEF Same
  <1>3. CASE \E r \in Request : Arrive(r)
    BY <1>3, ArriveClock
  <1>4. CASE \E r \in Request : Accept(r)
    BY <1>4, AcceptClock
  <1>5. ASSUME NEW r \in Request,
               \/ Reject(r) \/ GiveUp(r) \/ Logout(r) \/ ChangePassword(r) \/ UserCall(r)
               \/ InvitationCall(r)
        PROVE  ClockInv' /\ TakesNothingBack
    BY <1>2, <1>5, RequestsEnd, EndedRequests
  <1>6. ASSUME NEW u \in User, Login(u)
        PROVE  ClockInv' /\ TakesNothingBack
    <2>1. user[u].password \in 0 .. MaxPasswords
      BY DEF TypeOK, UserRow
    <2>2. OpenSession(u, user[u].password) /\ request' = request
      BY <1>6 DEF Login
    <2>. QED
      BY <2>1, <2>2, OpenClock
  <1>7. ASSUME NEW x \in TokenId, Register(x)
        PROVE  ClockInv' /\ TakesNothingBack
    <2>1. token[x].user \in User /\ 1 \in 0 .. MaxPasswords
      BY DEF TypeOK, TokenRow, Bounds
    <2>2. OpenSession(token[x].user, 1) /\ request' = request
      BY <1>7 DEF Register
    <2>. QED
      BY <2>1, <2>2, OpenClock
  <1>8. CASE \/ \E x \in TokenId : CompleteReset(x) \/ TokenRunsOut(x)
             \/ \E u \in User : \/ FailLogin(u) \/ LockRunsOut(u) \/ RequestReset(u)
                                \/ Bootstrap(u) \/ CommitMail(u) \/ LoseMail(u)
             \/ Tick \/ UNCHANGED vars
    BY <1>2, <1>8, OthersRevoke
  <1>. QED
    BY <1>3, <1>4, <1>5, <1>6, <1>7, <1>8 DEF Next, PublicCall

-----------------------------------------------------------------------------
(* The last administrator, and the token that has a successor.              *)

LEMMA KeptAdmins ==
  ASSUME NEW u \in User, TypeOK, \A v \in User : v # u => user'[v] = user[v],
         u \in ActiveAdmins => user'[u].status = "active" /\ user'[u].role = "admin"
  PROVE  KeepsAnAdmin
  <1>1. ActiveAdmins \subseteq ActiveAdmins'
    BY DEF ActiveAdmins
  <1>. QED
    BY <1>1 DEF KeepsAnAdmin

LEMMA UpdateKeepsAdmin ==
  ASSUME TypeOK, NEW r \in Request, UserCall(r)
  PROVE  KeepsAnAdmin
  <1>. DEFINE u == request[r].target
  <1>1. PICK role \in Role \cup {"keep"}, status \in {"keep", "active", "disabled"} :
          UpdateUser(r, role, status)
    BY DEF UserCall
  <1>. DEFINE newRole == IF role \in {"keep", Known(r).role} THEN user[u].role ELSE role
              newStatus == IF status \in {"keep", Known(r).status} THEN user[u].status ELSE status
  <1>2. /\ ~RemovesLast(r, role, status)
        /\ user' = [user EXCEPT ![u].role = newRole, ![u].status = newStatus]
    BY <1>1 DEF UpdateUser
  <1>3. u \in User /\ user \in [User -> UserRow]
    BY DEF TypeOK, Context
  <1>4. u \in ActiveAdmins => Known(r) = user[u]
    BY DEF Known
  <1>5. /\ \A v \in User : v # u => user'[v] = user[v]
        /\ user'[u].role = newRole /\ user'[u].status = newStatus
    <2>. HIDE DEF u, newRole, newStatus
    <2>. QED
      BY <1>2, <1>3 DEF UserRow
  <1>6. CASE u \in ActiveAdmins /\ Demotes(r, role, status)
    <2>1. PICK v \in ActiveAdmins : v # u
      BY <1>2, <1>6 DEF RemovesLast
    <2>2. v \in User /\ user'[v] = user[v]
      BY <1>5, <2>1 DEF ActiveAdmins
    <2>3. v \in ActiveAdmins'
      BY <2>1, <2>2 DEF ActiveAdmins
    <2>. QED
      BY <2>3 DEF KeepsAnAdmin
  <1>7. CASE u \in ActiveAdmins /\ ~Demotes(r, role, status)
    <2>1. user[u].status = "active" /\ user[u].role = "admin"
      BY <1>7 DEF ActiveAdmins
    <2>2. role # "operator" /\ status # "disabled"
      BY <1>4, <1>7, <2>1 DEF Demotes
    <2>3. role \in {"keep", "admin"} /\ status \in {"keep", "active"}
      BY <2>2 DEF Role
    <2>4. newRole = "admin" /\ newStatus = "active"
      BY <2>1, <2>3
    <2>. QED
      BY <1>3, <1>5, <2>4, KeptAdmins
  <1>8. CASE u \notin ActiveAdmins
    BY <1>3, <1>5, <1>8, KeptAdmins
  <1>. QED
    BY <1>6, <1>7, <1>8

LEMMA AdminStep ==
  ASSUME Bounds, TypeOK, CreatedOnce, [Next]_vars
  PROVE  KeepsAnAdmin
  <1>1. user \in [User -> UserRow] /\ \A u \in User : user[u] \in UserRow
    BY DEF TypeOK
  <1>2. CASE UNCHANGED user
    BY <1>2 DEF KeepsAnAdmin, ActiveAdmins
  <1>3. ASSUME NEW r \in Request, ChangePassword(r)
        PROVE  KeepsAnAdmin
    <2>1. PICK u \in User : user' = [user EXCEPT ![u].password = @ + 1]
      BY <1>3 DEF ChangePassword, TypeOK, Context, SessionRow
    <2>. QED
      BY <1>1, <2>1, KeptAdmins DEF ActiveAdmins, UserRow
  <1>4. ASSUME NEW u \in User, CommitMail(u)
        PROVE  KeepsAnAdmin
    <2>1. \A v \in User : v # u => user'[v] = user[v]
      BY <1>1, <1>4 DEF CommitMail
    <2>2. u \in ActiveAdmins => user'[u] = user[u]
      BY <1>1, <1>4 DEF CommitMail, CreatedOnce, ActiveAdmins
    <2>. QED
      BY <2>1, <2>2, KeptAdmins DEF ActiveAdmins
  <1>5. ASSUME NEW u \in User, NEW n,
               \/ user' = [user EXCEPT ![u].status = "active", ![u].password = n, ![u].fails = 0]
               \/ user' = [user EXCEPT ![u].password = n, ![u].fails = 0, ![u].locked = FALSE]
        PROVE  KeepsAnAdmin
    <2>1. \A v \in User : v # u => user'[v] = user[v]
      BY <1>1, <1>5
    <2>2. /\ user'[u].role = user[u].role
          /\ user'[u].status \in {user[u].status, "active"}
      BY <1>1, <1>5 DEF UserRow
    <2>. QED
      BY <2>1, <2>2, KeptAdmins DEF ActiveAdmins
  <1>6. ASSUME NEW x \in TokenId, Register(x) \/ CompleteReset(x)
        PROVE  KeepsAnAdmin
    <2>1. token[x].user \in User
      BY DEF TypeOK, TokenRow
    <2>. QED
      BY <1>5, <1>6, <2>1 DEF Register, CompleteReset
  <1>7. ASSUME NEW u \in User, NEW n, NEW b,
               \/ user' = [user EXCEPT ![u].fails = n]
               \/ user' = [user EXCEPT ![u].locked = b]
               \/ user' = [user EXCEPT ![u].fails = n, ![u].locked = b]
        PROVE  KeepsAnAdmin
    <2>1. \A v \in User : v # u => user'[v] = user[v]
      BY <1>1, <1>7
    <2>2. user'[u].role = user[u].role /\ user'[u].status = user[u].status
      BY <1>1, <1>7 DEF UserRow
    <2>. QED
      BY <2>1, <2>2, KeptAdmins DEF ActiveAdmins
  <1>8. ASSUME NEW u \in User, Login(u) \/ FailLogin(u) \/ LockRunsOut(u)
        PROVE  KeepsAnAdmin
    BY <1>7, <1>8 DEF Login, FailLogin, LockRunsOut
  <1>9. CASE \E r \in Request : \/ Arrive(r) \/ Reject(r) \/ Accept(r) \/ GiveUp(r) \/ Logout(r)
    <2>1. CASE \E r \in Request : Arrive(r)
      BY <1>2, <2>1 DEF Arrive, Authenticate
    <2>2. CASE \E r \in Request : Reject(r) \/ GiveUp(r)
      BY <1>2, <2>2 DEF Reject, GiveUp
    <2>3. CASE \E r \in Request : Accept(r) \/ Logout(r)
      BY <1>2, <2>3 DEF Accept, Logout
    <2>. QED
      BY <1>9, <2>1, <2>2, <2>3
  <1>10. CASE \E r \in Request : InvitationCall(r)
    <2>1. CASE \E r \in Request : Resend(r) \/ \E role \in Role : Invite(r, role)
      BY <1>2, <2>1 DEF Resend, Invite, Mail
    <2>2. CASE \E r \in Request, x \in TokenId : RevokeInvitation(r, x)
      BY <1>2, <2>2 DEF RevokeInvitation
    <2>. QED
      BY <1>10, <2>1, <2>2 DEF InvitationCall
  <1>11. CASE \E u \in User : RequestReset(u) \/ Bootstrap(u)
    BY <1>2, <1>11 DEF RequestReset, Bootstrap, Mail
  <1>12. CASE \/ \E u \in User : LoseMail(u)
              \/ \E x \in TokenId : TokenRunsOut(x)
              \/ Tick \/ UNCHANGED vars
    BY <1>2, <1>12 DEF LoseMail, TokenRunsOut, Tick, vars
  <1>. QED
    BY <1>3, <1>4, <1>6, <1>8, <1>9, <1>10, <1>12, <1>11, UpdateKeepsAdmin DEF Next, PublicCall

LEMMA UsedStep ==
  ASSUME Bounds, TypeOK, [Next]_vars
  PROVE  NoSuccessorSent
  <1>1. token \in [TokenId -> TokenRow]
    BY DEF TypeOK
  <1>2. CASE \A x \in TokenId : token'[x].used => token[x].used
    BY <1>2 DEF NoSuccessorSent
  <1>3. ASSUME NEW x \in TokenId, Register(x) \/ CompleteReset(x)
        PROVE  NoSuccessorSent
    <2>. DEFINE R == RevokeTokens(token[x].user, token[x].purpose)
    <2>1. token' = [R EXCEPT ![x] = [token[x] EXCEPT !.used = TRUE]] /\ Unlocked(token[x].user)
      BY <1>3 DEF Register, CompleteReset, Consume
    <2>2. R \in [TokenId -> TokenRow] /\ \A y \in TokenId : R[y].used = token[y].used
      BY TokensType, RevokeKeeps
    <2>. HIDE DEF R
    <2>3. \A y \in TokenId : y # x => token'[y].used = token[y].used
      BY <2>1, <2>2
    <2>. QED
      BY <2>1, <2>3 DEF NoSuccessorSent, Unlocked
  <1>4. ASSUME NEW u \in User, CommitMail(u)
        PROVE  NoSuccessorSent
    <2>. DEFINE R == RevokeTokens(u, Purposes(pending[u].kind))
    <2>1. token' = [R EXCEPT ![pending[u].token] = Delivered(u)]
      BY <1>4 DEF CommitMail, Delivered, Purposes
    <2>2. R \in [TokenId -> TokenRow] /\ \A y \in TokenId : R[y].used = token[y].used
      BY TokensType, RevokeKeeps
    <2>3. ~Delivered(u).used
      BY DEF Delivered, NoToken
    <2>. HIDE DEF R
    <2>4. \A x \in TokenId : token'[x].used => token[x].used
      BY <2>1, <2>2, <2>3
    <2>. QED
      BY <1>2, <2>4
  <1>5. ASSUME NEW x \in TokenId,
               \/ token' = [token EXCEPT ![x].revoked = TRUE]
               \/ token' = [token EXCEPT ![x].expired = TRUE]
        PROVE  NoSuccessorSent
    <2>1. \A y \in TokenId : token'[y].used = token[y].used
      BY <1>1, <1>5 DEF TokenRow
    <2>. QED
      BY <1>2, <2>1
  <1>6. CASE \/ \E r \in Request, x \in TokenId : RevokeInvitation(r, x)
             \/ \E x \in TokenId : TokenRunsOut(x)
    BY <1>5, <1>6 DEF RevokeInvitation, TokenRunsOut
  <1>7. CASE \E r \in Request : \/ Arrive(r) \/ Reject(r) \/ Accept(r) \/ GiveUp(r)
                                \/ UserCall(r) \/ ChangePassword(r) \/ Logout(r)
    <2>1. token' = token
      BY <1>7, RequestsLeaveTokens
    <2>. QED
      BY <1>2, <2>1
  <1>8. CASE \/ \E r \in Request : Resend(r) \/ \E role \in Role : Invite(r, role)
             \/ \E u \in User : RequestReset(u) \/ Bootstrap(u)
    <2>1. token' = token
      BY <1>8 DEF Resend, Invite, RequestReset, Bootstrap, Mail
    <2>. QED
      BY <1>2, <2>1
  <1>9. CASE \/ \E u \in User : Login(u) \/ FailLogin(u) \/ LockRunsOut(u)
             \/ Tick \/ UNCHANGED vars
    <2>1. token' = token
      BY <1>9, LoginsLeaveTokens
    <2>. QED
      BY <1>2, <2>1
  <1>10. CASE \E u \in User : LoseMail(u)
    <2>1. token' = token
      BY <1>10 DEF LoseMail
    <2>. QED
      BY <1>2, <2>1
  <1>. QED
    BY <1>3, <1>4, <1>6, <1>7, <1>8, <1>9, <1>10 DEF Next, InvitationCall, PublicCall

-----------------------------------------------------------------------------
(* The theorems.                                                            *)

LEMMA InitHolds ==
  ASSUME Bounds, Init
  PROVE  IInv
  <1>1. TokenInv
    BY DEF Init, TokenInv, IssuedFirst, OutstandingIsNewest, Outstanding, Unlocked, NoToken,
           NoMailing
  <1>2. SessionInv
    BY DEF Init, SessionInv, CreatedOnce, SessionsCurrent, NoMailing
  <1>3. ClockInv
    BY DEF Init, ClockInv, NoContext
  <1>. QED
    BY <1>1, <1>2, <1>3, InitType DEF IInv

LEMMA StepHolds ==
  ASSUME Bounds, IInv, [Next]_vars
  PROVE  IInv' /\ KeepsAnAdmin /\ NoSuccessorSent /\ TakesNothingBack
  BY TypeStep, TokenStep, SessionStep, ClockStep, AdminStep, UsedStep DEF IInv, SessionInv

LEMMA Promises ==
  ASSUME IInv
  PROVE  TypeOK /\ LiveIsNewest /\ LiveSessionsAreCurrent
  BY DEF IInv, TokenInv, OutstandingIsNewest, Live, LiveIsNewest, SessionInv, SessionsCurrent,
         LiveSessionsAreCurrent

THEOREM Inductive ==
  ASSUME Bounds
  PROVE  Spec => []IInv
  BY InitHolds, StepHolds, PTL DEF Spec

\* The last token delivered is the one that works.
THEOREM NewestTokenWorks ==
  ASSUME Bounds
  PROVE  Spec => []LiveIsNewest
  BY Inductive, Promises, PTL

\* Nobody who logged in before a password change, a reset or a disabling stays logged in.
THEOREM OldSessionsEnd ==
  ASSUME Bounds
  PROVE  Spec => []LiveSessionsAreCurrent
  BY Inductive, Promises, PTL

\* Administrators who demote each other at the same time leave one.
THEOREM AdminStays ==
  ASSUME Bounds
  PROVE  Spec => AdminRemains
  <1>1. IInv /\ [Next]_vars => [KeepsAnAdmin]_vars
    BY StepHolds
  <1>. QED
    BY <1>1, Inductive, PTL DEF Spec, AdminRemains

\* A token is not used when its successor was delivered.
THEOREM SuccessorBars ==
  ASSUME Bounds
  PROVE  Spec => UsedBeforeSuccessor
  <1>1. IInv /\ [Next]_vars => [NoSuccessorSent]_vars
    BY StepHolds
  <1>. QED
    BY <1>1, Inductive, PTL DEF Spec, UsedBeforeSuccessor

\* The activity of a session goes forward, within its absolute end.
THEOREM ActivityForward ==
  ASSUME Bounds
  PROVE  Spec => ActivityAdvances
  <1>1. IInv /\ [Next]_vars => [TakesNothingBack]_vars
    BY StepHolds
  <1>. QED
    BY <1>1, Inductive, PTL DEF Spec, ActivityAdvances
=============================================================================
