------------------------------ MODULE Identity ------------------------------
(***************************************************************************)
(* IdentityService: register, login, refresh, logout, password reset and   *)
(* e-mail verification, as the requests of one Node process that interleave *)
(* at every await.  A request's pc names the await it is about to perform; *)
(* each action is that call on PostgreSQL, Redis or RabbitMQ together with *)
(* the synchronous code that runs when it resolves.                        *)
(*                                                                         *)
(* A user stands for the row and for the e-mail address, a Jti for the id  *)
(* that ties a refresh token to its session row and, here, for the access  *)
(* token signed with it, which refresh and logout take as well.  Its roles *)
(* are the matter of AccessTokens; the columns no handler reads (names,    *)
(* IP, user agent) are left out.  Awaits that touch nothing modelled here   *)
(* (argon2, reading the roles, signing) are part of the await before them. *)
(*                                                                         *)
(* A few definitions state a mistake (UsableAnyway, ShortEntry, ...).  No  *)
(* action uses them: each stands before the definition it would replace,   *)
(* and PROJECT.json names the property that notices the replacement.       *)
(***************************************************************************)
EXTENDS CacheLayer, FiniteSets

CONSTANTS
  User,           \* e-mail addresses somebody may register
  MfaUser,        \* accounts whose mfa_enabled column an operator has set
  Jti,            \* ids randomUUID() can return
  Request,        \* HTTP requests; each is made at most once
  Ops,            \* the endpoints clients use
  Presented,      \* which token of a pair they send to refresh and logout
  AccessTtl,      \* auth.accessTtl
  RefreshTtl,     \* auth.refreshTtl
  BlacklistTtl,   \* 60 * 60 * 24 * 30
  Durable,        \* TRUE when Redis keeps every write it acknowledged
  MaxTime,        \* bound on the clock
  NoJti, NoRow

\* Rows of the sessions table, as far as a handler reads or writes them.
Row == [user : User, revoked : BOOLEAN, expiresAt : Nat]

ASSUME IdentityAssumption ==
  /\ MfaUser \subseteq User
  /\ Ops \subseteq {"register", "login", "refresh", "logout", "reset", "verify"}
  /\ Presented \subseteq {"refresh", "access"}
  /\ AccessTtl \in Nat /\ RefreshTtl \in Nat /\ BlacklistTtl \in Nat \ {0} /\ MaxTime \in Nat
  /\ Durable \in BOOLEAN
  /\ NoJti \notin Jti /\ NoRow \notin Row

VARIABLES
  now,            \* the clock PostgreSQL, Redis and Node share
  users,          \* rows of users
  verified,       \* users whose email_verified column is set
  sessions,       \* rows of sessions, by refresh_token_id
  signed,         \* exp claim of every refresh token signed, 0 before
  blacklist,      \* Redis keys blacklist:<jti>, and blacklist:undefined
  sessionKey,     \* Redis keys session:<user>:<jti>
  events,         \* messages the exchange has confirmed
  brokerUp,       \* whether the AMQP connection is established
  delivered,      \* refresh tokens a client has received
  pc, call, minted, reply   \* the requests: position, arguments, new jti, answer

db    == <<users, verified, sessions>>
redis == <<blacklist, sessionKey>>
mq    == <<events, brokerUp>>
http  == <<pc, call, minted, reply>>
vars  == <<now, db, signed, redis, mq, delivered, http>>

\* The jti a token carries: access tokens have none, and a template string
\* makes "undefined" of that.
TokenId == Jti \cup {NoJti}

\* What a request is called with.  tok is the jti of its token and, once a
\* refresh has found a session, that session's refreshTokenId: the token is
\* not looked at again.
NoCall   == [op |-> "none", user |-> "none", tok |-> NoJti, late |-> FALSE]
Accounts == {"register", "login", "reset", "verify"}

Init ==
  /\ now = 1
  /\ users = {} /\ verified = {}
  /\ sessions = [j \in Jti |-> NoRow]
  /\ signed = [j \in Jti |-> 0]
  /\ blacklist = [c \in TokenId |-> Absent]
  /\ sessionKey = [j \in Jti |-> Absent]
  /\ events = {} /\ brokerUp = TRUE
  /\ delivered = {}
  /\ pc = [r \in Request |-> "idle"]
  /\ call = [r \in Request |-> NoCall]
  /\ minted = [r \in Request |-> NoJti]
  /\ reply = [r \in Request |-> "none"]

-----------------------------------------------------------------------------
(* Moving a request on, or answering it.                                   *)
Goto(r, at) == pc' = [pc EXCEPT ![r] = at] /\ UNCHANGED <<call, minted, reply>>

Answer(r, code) ==
  /\ pc' = [pc EXCEPT ![r] = "done"]
  /\ reply' = [reply EXCEPT ![r] = code]
  /\ UNCHANGED <<call, minted>>

\* The last await of a handler: it takes effect, and then its own answer or
\* the HTTP response to the client may still be lost.
Finish(r, code) == Answer(r, code) \/ Answer(r, "error")

At(r, at, op) == pc[r] = at /\ call[r].op = op

\* The user whose tokens issueTokens() signs: that of the row it has read.
Subject(r) == IF call[r].op = "refresh" THEN sessions[call[r].tok].user
                                        ELSE call[r].user

\* History: some client has been told that the session of j is used up.
Retired(j) == /\ j # NoJti
              /\ \E r \in Request : /\ call[r].tok = j
                                    /\ reply[r] \in {"tokens", "ok"}

-----------------------------------------------------------------------------
(* Requests that name an account, and requests that present a token.       *)
FirstAwait(op) == IF op = "verify" THEN "updateUser" ELSE "findUser"

Arrive(r, op, u) ==
  /\ pc[r] = "idle"
  /\ call' = [call EXCEPT ![r] =
                [op |-> op, user |-> u, tok |-> NoJti, late |-> FALSE]]
  /\ pc' = [pc EXCEPT ![r] = FirstAwait(op)]
  /\ UNCHANGED <<now, db, signed, redis, mq, delivered, minted, reply>>

\* Both tokens of the pair whose jti is j pass verifyAsync() while they are
\* valid: it asks for no type, and nobody for a jti.
Carried(kind, j) == IF kind = "refresh" THEN j ELSE NoJti

Unexpired(kind, j) == IF kind = "refresh"
                      THEN now < signed[j]
                      ELSE now + RefreshTtl < signed[j] + AccessTtl

\* It throws on an expired token, which nobody turns into a 401.
Present(r, op, kind, j) ==
  /\ pc[r] = "idle"
  /\ call' = [call EXCEPT ![r] = [op |-> op, user |-> "none",
                tok |-> Carried(kind, j), late |-> Retired(Carried(kind, j))]]
  /\ \/ /\ Unexpired(kind, j)
        /\ pc' = [pc EXCEPT ![r] = IF op = "refresh" THEN "getBlacklist"
                                                     ELSE "setBlacklist"]
        /\ UNCHANGED reply
     \/ /\ ~Unexpired(kind, j)
        /\ pc' = [pc EXCEPT ![r] = "done"]
        /\ reply' = [reply EXCEPT ![r] = "error"]
  /\ UNCHANGED <<now, db, signed, redis, mq, delivered, minted>>

-----------------------------------------------------------------------------
(* register()                                                              *)
RegisterFind(r) ==
  /\ At(r, "findUser", "register")
  /\ IF call[r].user \in users THEN Answer(r, "badRequest")
                               ELSE Goto(r, "saveUser")
  /\ UNCHANGED <<now, db, signed, redis, mq, delivered>>

\* The UNIQUE constraint on email makes the losing INSERT reject; nothing
\* catches the QueryFailedError, so the client sees a 500.
DuplicateUnchecked(u) == FALSE
Duplicate(u) == u \in users

RegisterSave(r) ==
  /\ pc[r] = "saveUser"
  /\ IF Duplicate(call[r].user)
     THEN Answer(r, "uniqueViolation") /\ UNCHANGED users
     ELSE Goto(r, "publish") /\ users' = users \cup {call[r].user}
  /\ UNCHANGED <<now, verified, sessions, signed, redis, mq, delivered>>

(* login(): the password and the one-time code come with the request; the  *)
(* update of last_login_ip is the await the request stands at in "sign".   *)
LoginFind(r) ==
  /\ At(r, "findUser", "login")
  /\ \E password, otp \in BOOLEAN :
       IF /\ call[r].user \in users /\ password
          /\ call[r].user \in MfaUser => otp
       THEN Goto(r, "sign")
       ELSE Answer(r, "unauthorized")
  /\ UNCHANGED <<now, db, signed, redis, mq, delivered>>

(* refreshToken()                                                          *)
RefreshGetBlacklist(r) ==
  /\ pc[r] = "getBlacklist"
  /\ IF Hit(blacklist[call[r].tok], now) THEN Answer(r, "unauthorized")
                                         ELSE Goto(r, "findSession")
  /\ UNCHANGED <<now, db, signed, redis, mq, delivered>>

UsableAnyway(row)  == row # NoRow /\ row.expiresAt >= now
UsableTooLate(row) == row # NoRow /\ ~row.revoked /\ row.expiresAt > now + 1
Usable(row) == row # NoRow /\ ~row.revoked /\ row.expiresAt >= now

\* TypeORM's findOne() leaves out a condition whose value is undefined, so
\* without a jti every row answers it.
LookedUp(tok) == {j \in Jti : sessions[j] # NoRow /\ tok \in {j, NoJti}}

RefreshFindSession(r) ==
  /\ pc[r] = "findSession"
  /\ \/ LookedUp(call[r].tok) = {} /\ Answer(r, "unauthorized")
     \/ \E j \in LookedUp(call[r].tok) :
          /\ call' = [call EXCEPT ![r].tok = j]
          /\ \/ /\ Usable(sessions[j]) /\ UNCHANGED reply
                /\ pc' = [pc EXCEPT ![r] = "setBlacklist"]
             \/ /\ ~Usable(sessions[j])
                /\ pc' = [pc EXCEPT ![r] = "done"]
                /\ reply' = [reply EXCEPT ![r] = "unauthorized"]
          /\ UNCHANGED minted
  /\ UNCHANGED <<now, db, signed, redis, mq, delivered>>

(* The tail refreshToken() shares with logout(): blacklist, then revoke.   *)
ShortEntry     == SetEx(now, 1)
BlacklistEntry == SetEx(now, BlacklistTtl)

SetBlacklist(r) ==
  /\ pc[r] = "setBlacklist"
  /\ blacklist' = [blacklist EXCEPT ![call[r].tok] = BlacklistEntry]
  /\ Goto(r, "revoke")
  /\ UNCHANGED <<now, db, signed, sessionKey, mq, delivered>>

NeverRevoked(row) == row
Revoked(row) == IF row = NoRow THEN NoRow ELSE [row EXCEPT !.revoked = TRUE]

\* An UPDATE, unlike findOne(), compares with NULL when the jti is undefined,
\* and touches no row.
Revoke(r) ==
  /\ pc[r] = "revoke"
  /\ sessions' = [j \in Jti |-> IF j = call[r].tok THEN Revoked(sessions[j])
                                                  ELSE sessions[j]]
  /\ IF call[r].op = "refresh" THEN Goto(r, "sign") ELSE Finish(r, "ok")
  /\ UNCHANGED <<now, users, verified, signed, redis, mq, delivered>>

(* createPasswordResetToken() and verifyEmail()                            *)
ResetFind(r) ==
  /\ At(r, "findUser", "reset")
  /\ IF call[r].user \in users THEN Goto(r, "publish") ELSE Answer(r, "ok")
  /\ UNCHANGED <<now, db, signed, redis, mq, delivered>>

\* UPDATE ... WHERE id = userId: no row, no effect, no error.
VerifyInsert(r) ==
  /\ pc[r] = "updateUser"
  /\ verified' = verified \cup {call[r].user}
  /\ Goto(r, "publish")
  /\ UNCHANGED <<now, users, sessions, signed, redis, mq, delivered>>

VerifyUpdate(r) ==
  /\ pc[r] = "updateUser"
  /\ verified' = verified \cup ({call[r].user} \cap users)
  /\ Goto(r, "publish")
  /\ UNCHANGED <<now, users, sessions, signed, redis, mq, delivered>>

(* eventsService.publish(): amqp-connection-manager keeps the message in   *)
(* memory while the broker is away and resolves once it is confirmed.      *)
EventKey(op) == IF op = "register" THEN "user.created" ELSE "user.updated"

PublishUnawaited(r) ==
  /\ pc[r] = "publish"
  /\ events' = IF brokerUp
       THEN events \cup {[key |-> EventKey(call[r].op), user |-> call[r].user]}
       ELSE events
  /\ IF call[r].op = "register" THEN Goto(r, "sign") ELSE Finish(r, "ok")
  /\ UNCHANGED <<now, db, signed, redis, brokerUp, delivered>>

Publish(r) ==
  /\ pc[r] = "publish" /\ brokerUp
  /\ events' = events \cup {[key |-> EventKey(call[r].op), user |-> call[r].user]}
  /\ IF call[r].op = "register" THEN Goto(r, "sign") ELSE Finish(r, "ok")
  /\ UNCHANGED <<now, db, signed, redis, brokerUp, delivered>>

-----------------------------------------------------------------------------
(* issueTokens(): sign both tokens, save the session, cache it, answer.    *)
IssueSign(r) ==
  /\ pc[r] = "sign"
  /\ \E j \in Jti :
       /\ signed[j] = 0
       /\ signed' = [signed EXCEPT ![j] = now + RefreshTtl]
       /\ minted' = [minted EXCEPT ![r] = j]
  /\ pc' = [pc EXCEPT ![r] = "saveSession"]
  /\ UNCHANGED <<now, db, redis, mq, delivered, call, reply>>

\* Date.now() is read after signing, so at or after the token's iat.
HalfLifeRow(u) ==
  [user |-> u, revoked |-> FALSE, expiresAt |-> now + RefreshTtl \div 2]
NewRow(u) == [user |-> u, revoked |-> FALSE, expiresAt |-> now + RefreshTtl]

IssueSaveSession(r) ==
  /\ pc[r] = "saveSession"
  /\ sessions' = [sessions EXCEPT ![minted[r]] = NewRow(Subject(r))]
  /\ Goto(r, "cacheSession")
  /\ UNCHANGED <<now, users, verified, signed, redis, mq, delivered>>

IssueCacheSession(r) ==
  /\ pc[r] = "cacheSession"
  /\ sessionKey' = [sessionKey EXCEPT ![minted[r]] = SetEx(now, RefreshTtl)]
  /\ Finish(r, "tokens")
  /\ delivered' = IF reply'[r] = "tokens" THEN delivered \cup {minted[r]}
                                          ELSE delivered
  /\ UNCHANGED <<now, db, signed, blacklist, mq>>

-----------------------------------------------------------------------------
(* What the surroundings do.                                               *)
InFlight(r) == pc[r] \notin {"idle", "done"}

\* Any awaited call may reject: the handler stops there with a 500.
Fail(r) ==
  /\ InFlight(r)
  /\ Answer(r, "error")
  /\ UNCHANGED <<now, db, signed, redis, mq, delivered>>

\* The process restarts: every handler stops where it is and its client sees
\* a dropped connection; messages waiting for the broker are lost with it.
Crash ==
  /\ \E r \in Request : InFlight(r)
  /\ pc' = [r \in Request |-> IF InFlight(r) THEN "done" ELSE pc[r]]
  /\ reply' = [r \in Request |-> IF InFlight(r) THEN "error" ELSE reply[r]]
  /\ UNCHANGED <<now, db, signed, redis, mq, delivered, call, minted>>

\* Redis restarts from an append-only file that is synced once a second.
RedisLoses(c) ==
  /\ ~Durable /\ blacklist[c] # Absent
  /\ blacklist' = [blacklist EXCEPT ![c] = Absent]
  /\ UNCHANGED <<now, db, signed, sessionKey, mq, delivered, http>>

BrokerDown == /\ brokerUp /\ brokerUp' = FALSE
              /\ UNCHANGED <<now, db, signed, redis, events, delivered, http>>

NeverReconnect == FALSE /\ UNCHANGED vars

BrokerUp == /\ ~brokerUp /\ brokerUp' = TRUE
            /\ UNCHANGED <<now, db, signed, redis, events, delivered, http>>

Tick == /\ now < MaxTime /\ now' = now + 1
        /\ UNCHANGED <<db, signed, redis, mq, delivered, http>>

-----------------------------------------------------------------------------
Client(r) ==
  \/ \E op \in Ops \cap Accounts, u \in User : Arrive(r, op, u)
  \/ \E op \in Ops \ Accounts, kind \in Presented, j \in delivered :
       Present(r, op, kind, j)

Handler(r) ==
  \/ RegisterFind(r) \/ RegisterSave(r) \/ LoginFind(r)
  \/ RefreshGetBlacklist(r) \/ RefreshFindSession(r)
  \/ SetBlacklist(r) \/ Revoke(r)
  \/ ResetFind(r) \/ VerifyUpdate(r) \/ Publish(r)
  \/ IssueSign(r) \/ IssueSaveSession(r) \/ IssueCacheSession(r)

Next ==
  \/ \E r \in Request : Client(r) \/ Handler(r) \/ Fail(r)
  \/ \E c \in TokenId : RedisLoses(c)
  \/ Crash \/ BrokerDown \/ BrokerUp \/ Tick

Spec == Init /\ [][Next]_vars
-----------------------------------------------------------------------------
(* Properties.                                                             *)

Call == [op : Ops \cup {"none"}, user : User \cup {"none"},
         tok : TokenId, late : BOOLEAN]

\* Every variable holds a value of its kind.
TypeOK ==
  /\ now \in Nat \ {0}
  /\ users \subseteq User /\ verified \subseteq users
  /\ sessions \in [Jti -> Row \cup {NoRow}]
  /\ signed \in [Jti -> Nat]
  /\ blacklist \in [TokenId -> Expiry] /\ sessionKey \in [Jti -> Expiry]
  /\ events \subseteq [key : {"user.created", "user.updated"}, user : User]
  /\ brokerUp \in BOOLEAN
  /\ delivered \subseteq Jti
  /\ pc \in [Request -> {"idle", "findUser", "saveUser", "updateUser",
       "getBlacklist", "findSession", "setBlacklist", "revoke", "publish",
       "sign", "saveSession", "cacheSession", "done"}]
  /\ call \in [Request -> Call]
  /\ minted \in [Request -> Jti \cup {NoJti}]
  /\ reply \in [Request -> {"none", "tokens", "ok", "badRequest",
                            "unauthorized", "uniqueViolation", "error"}]

Refresh(r)   == call[r].op = "refresh"
Exists(j)    == sessions[j] # NoRow
IsRevoked(j) == Exists(j) /\ sessions[j].revoked

\* Once a client has been told that a refresh token was exchanged or logged
\* out, no refresh that arrives later with the same token gets a new pair,
\* whatever Redis forgets and whichever handlers failed or crashed before:
\* the revoked column alone has to carry it.
NoLateExchange == \A r \in Request :
  Refresh(r) /\ call[r].late => minted[r] = NoJti

\* No new pair is signed before the session of the token it replaces is
\* revoked, so a crash can cost the user a session but never leave two.
PredecessorRevoked == \A r \in Request :
  Refresh(r) /\ minted[r] # NoJti => IsRevoked(call[r].tok)

\* As long as Redis loses nothing, a revoked session's token is answered
\* from the blacklist for as long as JWT verification would let it pass:
\* the entry is written first and outlives the token.
RevokedIsBlacklisted ==
  Durable => \A j \in Jti :
    IsRevoked(j) /\ now < signed[j] => Hit(blacklist[j], now)

\* A refresh token in a client's hands has a session row, of a registered
\* user, that does not expire before the token itself.
DeliveredHasSession == \A j \in delivered :
  Exists(j) /\ sessions[j].user \in users /\ sessions[j].expiresAt >= signed[j]

\* Request q is at work on the session of token id tok, or logs out with a
\* token that has no id.
WorksOn(q, tok) == /\ call[q].tok = tok
                   /\ call[q].op = "logout" \/ (Refresh(q) /\ tok # NoJti)

\* A 401 from refresh has a cause: the session it found ran out while the
\* request was under way, or another request worked on it, since that one
\* presented the same token, or an access token for which the lookup found
\* this session.  Where an access token is refused before any lookup, another
\* request has logged out with an access token.
RefusalHasCause == \A r \in Request :
  Refresh(r) /\ reply[r] = "unauthorized" =>
    \/ call[r].tok # NoJti /\ now > sessions[call[r].tok].expiresAt
    \/ \E q \in Request \ {r} : WorksOn(q, call[r].tok)

\* Of the registrations that race for one e-mail address at most one gets
\* as far as a session: the check before the insert does not decide it.
OneRegistrationWins == \A r, q \in Request :
  /\ call[r].op = "register" /\ call[q].op = "register"
  /\ call[r].user = call[q].user
  /\ minted[r] # NoJti /\ minted[q] # NoJti
  => r = q

\* When registration has handed out tokens, the exchange has confirmed
\* user.created for a row that is in the users table.
TokensAfterAnnouncement == \A r \in Request :
  call[r].op = "register" /\ reply[r] = "tokens" =>
    /\ [key |-> "user.created", user |-> call[r].user] \in events
    /\ call[r].user \in users

-----------------------------------------------------------------------------
(* What the documentation says, and the code does not do.                  *)

\* Refresh tokens are rotated: one token is exchanged for one new pair.
RotatedOnce == \A r, q \in Request :
  /\ Refresh(r) /\ Refresh(q) /\ call[r].tok = call[q].tok
  /\ minted[r] # NoJti /\ minted[q] # NoJti
  => r = q

-----------------------------------------------------------------------------
(* Refinement: the handlers, the crashes and the caches implement the      *)
(* rotation protocol of RefreshRotation.                                   *)
Status == [j \in Jti |->
  CASE sessions[j] = NoRow -> "none"
    [] IsRevoked(j)        -> "revoked"
    [] OTHER               -> "active"]

\* A refresh holds a claim from the lookup that found its session active
\* until the row of the successor is saved.
HoldsClaim(r) ==
  Refresh(r) /\ pc[r] \in {"setBlacklist", "revoke", "sign", "saveSession"}

Claims == {<<r, call[r].tok>> : r \in {q \in Request : HoldsClaim(q)}}

Rotation == INSTANCE RefreshRotation WITH status <- Status, claims <- Claims

\* Every step of the service is a step of the rotation protocol or leaves
\* it alone: no session is reinstated, and a successor is only ever bought
\* with a claim on a session that was active and is now revoked.
RotationSpec == Rotation!Spec

-----------------------------------------------------------------------------
(* Liveness: Node runs every ready callback, the AMQP client reconnects     *)
(* and resends, and an expired deadline is not needed for any answer.      *)
Fairness ==
  /\ \A r \in Request : WF_vars(Handler(r)) /\ SF_vars(Publish(r))
  /\ WF_vars(BrokerUp)

FairSpec == Spec /\ Fairness

\* Every request that arrives is answered or dropped, however often the
\* broker goes away while it waits for a confirmation.
EveryRequestEnds == \A r \in Request : (pc[r] # "idle") ~> (pc[r] = "done")
=============================================================================
