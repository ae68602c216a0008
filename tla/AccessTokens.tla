---------------------------- MODULE AccessTokens ----------------------------
(***************************************************************************)
(* What IdentityService.issueTokens() puts into a pair of tokens, and      *)
(* those who trust them: JwtAuthGuard, in Auth Center and in the services  *)
(* that verify tokens with its public key, and RolesGuard, which asks the  *)
(* database again.  An access token carries the names of the roles its     *)
(* user had when it was made and is never looked up afterwards, so what    *)
(* it says ages while operators edit user_roles and users log out.  The    *)
(* guards look at no type: a refresh token is as good a bearer token, also *)
(* when no more pairs are given for it.                                    *)
(*                                                                         *)
(* A request stands for one run of issueTokens() and for the pair and the  *)
(* session that come of it; how it gets there is the matter of Identity.   *)
(*                                                                         *)
(* RolesOfAnybody, SignForLong, SignUnsaved and ExpiresInRefresh are       *)
(* mistakes no action uses.                                                *)
(***************************************************************************)
EXTENDS AccessModels

CONSTANTS
  Request,        \* runs of issueTokens()
  User,
  Row,            \* rows of user_roles operators may store
  AccessTtl,      \* auth.accessTtl
  RefreshTtl,     \* auth.refreshTtl
  MaxIssue,       \* bound on the ticks from reading the roles to the answer
  MaxTime,        \* bound on the clock
  MaxEdits,       \* bound on the changes to user_roles
  Nobody

ASSUME TokensAssumption ==
  /\ AccessTtl \in Nat \ {0} /\ RefreshTtl \in Nat
  /\ MaxIssue \in Nat /\ MaxTime \in Nat /\ MaxEdits \in Nat
  /\ Nobody \notin User
  /\ \A row \in Row :
       /\ row.user \in User
       /\ row = UserRole(row.user, Role(row.role.name, row.role.service))

VARIABLES
  now,            \* the clock
  db,             \* rows of user_roles
  edits,          \* number of edits so far
  pc,             \* of each request: the await it stands at
  sub,            \* of each request: its user
  claims,         \* of each request: the roles the query returned
  readAt,         \* of each request: when it did
  exp,            \* exp claim of the access token, 0 before it is signed
  refreshExp,     \* exp claim of the refresh token, likewise
  session,        \* row of sessions: "none", "active" or "revoked"
  expected,       \* when the client takes its access token to expire
  endedAt,        \* history: when the session was revoked
  seen            \* history: pairs <<t, rows>> of the recent past

requests == <<pc, sub, claims, readAt, exp, refreshExp, expected>>
sessions == <<session, endedAt>>
table    == <<db, edits, seen>>
vars     == <<now, table, requests, sessions>>

Window == AccessTtl + MaxIssue

Init ==
  /\ now = 1
  /\ db \in SUBSET Row /\ edits = 0 /\ seen = {<<1, db>>}
  /\ pc = [r \in Request |-> "idle"]
  /\ sub = [r \in Request |-> Nobody]
  /\ claims = [r \in Request |-> {}]
  /\ readAt = [r \in Request |-> 1]
  /\ exp = [r \in Request |-> 0]
  /\ refreshExp = [r \in Request |-> 0]
  /\ session = [r \in Request |-> "none"]
  /\ expected = [r \in Request |-> 0]
  /\ endedAt = [r \in Request |-> 0]

-----------------------------------------------------------------------------
(* issueTokens()                                                           *)
RolesOfAnybody(rows, user) == {row.role.name : row \in rows}
RoleNames(rows, user) == {row.role.name : row \in {row \in rows : row.user = user}}

\* PostgreSQL answers the query; the process takes up the answer later.
ReadRoles(r, user) ==
  /\ pc[r] = "idle"
  /\ pc' = [pc EXCEPT ![r] = "sign"]
  /\ sub' = [sub EXCEPT ![r] = user]
  /\ claims' = [claims EXCEPT ![r] = RoleNames(db, user)]
  /\ readAt' = [readAt EXCEPT ![r] = now]
  /\ UNCHANGED <<now, table, exp, refreshExp, expected, sessions>>

SignForLong(r) == exp' = [exp EXCEPT ![r] = now + RefreshTtl]
SignAccess(r)  == exp' = [exp EXCEPT ![r] = now + AccessTtl]

Sign(r) ==
  /\ pc[r] = "sign"
  /\ SignAccess(r)
  /\ pc' = [pc EXCEPT ![r] = "signRefresh"]
  /\ UNCHANGED <<now, table, sub, claims, readAt, refreshExp, expected, sessions>>

SignUnsaved(r) ==
  /\ pc[r] = "signRefresh"
  /\ refreshExp' = [refreshExp EXCEPT ![r] = now + RefreshTtl]
  /\ pc' = [pc EXCEPT ![r] = "answer"]
  /\ UNCHANGED <<now, table, sub, claims, readAt, exp, expected, sessions>>

SignRefresh(r) ==
  /\ pc[r] = "signRefresh"
  /\ refreshExp' = [refreshExp EXCEPT ![r] = now + RefreshTtl]
  /\ pc' = [pc EXCEPT ![r] = "save"]
  /\ UNCHANGED <<now, table, sub, claims, readAt, exp, expected, sessions>>

SaveSession(r) ==
  /\ pc[r] = "save"
  /\ session' = [session EXCEPT ![r] = "active"]
  /\ pc' = [pc EXCEPT ![r] = "answer"]
  /\ UNCHANGED <<now, table, sub, claims, readAt, exp, refreshExp,
                 expected, endedAt>>

ExpiresInRefresh == RefreshTtl
ExpiresIn == AccessTtl

\* The client has the pair, and counts expiresIn from this moment.
Answer(r) ==
  /\ pc[r] = "answer"
  /\ expected' = [expected EXCEPT ![r] = now + ExpiresIn]
  /\ pc' = [pc EXCEPT ![r] = "done"]
  /\ UNCHANGED <<now, table, sub, claims, readAt, exp, refreshExp, sessions>>

\* A call rejects, or the answer is lost: nobody has these tokens.
Fail(r) ==
  /\ pc[r] \in {"sign", "signRefresh", "save", "answer"}
  /\ pc' = [pc EXCEPT ![r] = "failed"]
  /\ UNCHANGED <<now, table, sub, claims, readAt, exp, refreshExp, expected,
                 sessions>>

\* logout(), or refreshToken() on its way to the next pair: see Identity.
Revoke(r) ==
  /\ pc[r] = "done" /\ session[r] = "active"
  /\ session' = [session EXCEPT ![r] = "revoked"]
  /\ endedAt' = [endedAt EXCEPT ![r] = now]
  /\ UNCHANGED <<now, table, requests>>

-----------------------------------------------------------------------------
\* An operator gives a user a role, or takes one away.
Edit ==
  /\ edits < MaxEdits /\ edits' = edits + 1
  /\ \/ \E row \in Row \ db : db' = db \cup {row}
     \/ \E row \in db : db' = db \ {row}
  /\ seen' = seen \cup {<<now, db'>>}
  /\ UNCHANGED <<now, requests, sessions>>

\* No run of issueTokens() takes longer than MaxIssue.
Tick ==
  /\ now < MaxTime
  /\ \A r \in Request :
       pc[r] \in {"sign", "signRefresh", "save", "answer"} => now < readAt[r] + MaxIssue
  /\ now' = now + 1
  /\ seen' = {past \in seen : now' < past[1] + Window} \cup {<<now', db>>}
  /\ UNCHANGED <<db, edits, requests, sessions>>

Issue(r) ==
  \/ \E user \in User : ReadRoles(r, user)
  \/ Sign(r) \/ SignRefresh(r) \/ SaveSession(r) \/ Answer(r) \/ Fail(r)

Next == Edit \/ Tick \/ \E r \in Request : Issue(r) \/ Revoke(r)

Spec == Init /\ [][Next]_vars
-----------------------------------------------------------------------------
(* Those who trust the token.                                              *)

\* JwtAuthGuard: the signature and the expiry of a bearer token, whichever
\* of the pair it is.
AcceptsAccess(r)  == pc[r] = "done" /\ now < exp[r]
AcceptsRefresh(r) == pc[r] = "done" /\ now < refreshExp[r]
Accepts(r)        == AcceptsAccess(r) \/ AcceptsRefresh(r)

\* A check of the claims, which the documentation proposes to services and
\* none in the repository makes; a refresh token has no roles claim.
LocalCheck(r, name) == AcceptsAccess(r) /\ name \in claims[r]

\* RolesGuard, for the service named by a header.
RolesGuard(r, name, service) == Accepts(r) /\ HasRole(db, sub[r], name, service)

-----------------------------------------------------------------------------
(* Properties.                                                             *)

\* Every variable holds a value of its kind, and what is answered has been
\* signed and has its session.
TypeOK ==
  /\ now \in Nat \ {0} /\ edits \in 0..MaxEdits
  /\ db \subseteq Row /\ seen \subseteq (1..now) \X SUBSET Row
  /\ pc \in [Request -> {"idle", "sign", "signRefresh", "save", "answer", "done",
                         "failed"}]
  /\ sub \in [Request -> User \cup {Nobody}]
  /\ claims \in [Request -> SUBSET {row.role.name : row \in Row}]
  /\ readAt \in [Request -> 1..now]
  /\ exp \in [Request -> Nat] /\ refreshExp \in [Request -> Nat]
  /\ session \in [Request -> {"none", "active", "revoked"}]
  /\ expected \in [Request -> Nat] /\ endedAt \in [Request -> 0..now]
  /\ \A r \in Request :
       pc[r] \in {"answer", "done"} => exp[r] # 0 /\ session[r] # "none"

\* The roles in an access token that is still accepted are, all together,
\* those its user had at one moment of the last AccessTtl + MaxIssue ticks: a
\* role that was taken away can be claimed for that long and no longer.
ClaimsOfOneMoment == \A r \in Request : AcceptsAccess(r) =>
  \E past \in seen : claims[r] = RoleNames(past[2], sub[r])

\* When user_roles has been left alone for that long, the local check of an
\* access token and RolesGuard agree, up to the service, which a token leaves
\* out.
LocalCheckAgrees == \A r \in Request :
  AcceptsAccess(r) /\ (\A past \in seen : past[2] = db) =>
    \A role \in {row.role : row \in Row} :
      LocalCheck(r, role.name) <=>
        \E row \in Row : /\ row.role.name = role.name
                        /\ RolesGuard(r, role.name, row.role.service)

\* No guard looks at sessions or at the blacklist, but no bearer token
\* outlives the revocation of its session by more than its time to live: the
\* access token by AccessTtl, and the refresh token, which logout() has just
\* spent, by RefreshTtl.
BearerEndsAfterLogout == \A r \in Request : session[r] = "revoked" =>
  /\ AcceptsAccess(r)  => now < endedAt[r] + AccessTtl
  /\ AcceptsRefresh(r) => now < endedAt[r] + RefreshTtl

\* A client that counts expiresIn from the moment it gets its answer takes a
\* token for valid until it expires, and for at most MaxIssue ticks longer.
ExpiresInIsClose == \A r \in Request :
  pc[r] = "done" => expected[r] \in exp[r]..(exp[r] + MaxIssue)
=============================================================================
