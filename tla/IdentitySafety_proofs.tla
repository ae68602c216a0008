------------------------ MODULE IdentitySafety_proofs ------------------------
(***************************************************************************)
(* Proofs about what Identity promises of accounts, of the sessions behind *)
(* delivered tokens, of the blacklist and of refusals.  Each promise gets  *)
(* an invariant of its own on top of IInv, and is carried from step to     *)
(* step by what no step ever takes back (Persists).                        *)
(***************************************************************************)
EXTENDS Identity_proofs

-----------------------------------------------------------------------------
(* The invariants.                                                         *)

\* The one registration whose INSERT put the user into the table.
Inserted(r) ==
  /\ call[r].op = "register"
  /\ pc[r] \in {"publish", "sign", "saveSession", "cacheSession"} \/ minted[r] # NoJti

UserCreated(u) == [key |-> "user.created", user |-> u]

\* A row has one registration, and that one announces it before it signs.
RegisterInv == \A r \in Request :
  /\ Inserted(r) => call[r].user \in users
  /\ \A q \in Request :
       Inserted(r) /\ Inserted(q) /\ call[r].user = call[q].user => r = q
  /\ call[r].op = "register" /\ pc[r] \in {"sign", "saveSession", "cacheSession"} =>
       UserCreated(call[r].user) \in events
  /\ call[r].op = "register" /\ reply[r] = "tokens" =>
       minted[r] # NoJti /\ UserCreated(call[r].user) \in events

\* A row is that of a registered user and lasts as long as its token; the
\* row still to come will, since the clock only moves on.
SessionInv ==
  /\ \A j \in Jti : Exists(j) =>
       sessions[j].user \in users /\ signed[j] <= sessions[j].expiresAt
  /\ \A r \in Request : call[r].op = "login" /\ pc[r] \in {"sign", "saveSession"} =>
       call[r].user \in users
  /\ \A j \in Jti : signed[j] <= now + RefreshTtl

\* The entry of a token lives no shorter than the token.
Outlives(j) == blacklist[j] \in Nat /\ signed[j] <= blacklist[j]

BlacklistInv == Durable =>
  /\ \A j \in Jti : IsRevoked(j) => Outlives(j)
  /\ \A r \in Request :
       pc[r] = "revoke" /\ call[r].tok # NoJti => Outlives(call[r].tok)

\* A request past both lookups that works on token id c.
Spent(c) == \E q \in Request : /\ WorksOn(q, c)
                               /\ pc[q] \notin {"getBlacklist", "findSession"}

\* Only a request that works on it blacklists a token id or revokes a session.
CauseInv ==
  /\ \A c \in TokenId : blacklist[c] # Absent => Spent(c)
  /\ \A j \in Jti : IsRevoked(j) => Spent(j)
  /\ RefusalHasCause

-----------------------------------------------------------------------------
(* What a step does to everybody else, and what it never takes back.       *)

\* What a request does itself.
Own(r) == Client(r) \/ Handler(r)

\* A handler works on a request that has arrived and is not answered.
LEMMA AtWork ==
  ASSUME NEW r \in Request, Handler(r)
  PROVE  pc[r] \notin {"idle", "done"}
BY DEF Handler, At, RegisterFind, RegisterSave, LoginFind, ResetFind,
   RefreshGetBlacklist, RefreshFindSession, SetBlacklist, Revoke, VerifyUpdate,
   Publish, IssueSign, IssueSaveSession, IssueCacheSession

\* A request that does not move itself stays where it is or is stopped,
\* by a failed call or by the restart of the process.
LEMMA OthersStay ==
  ASSUME IInv, [Next]_vars, NEW r \in Request, ~Own(r)
  PROVE  /\ call'[r] = call[r] /\ minted'[r] = minted[r]
         /\ \/ pc'[r] = pc[r] /\ reply'[r] = reply[r]
            \/ pc'[r] = "done" /\ reply'[r] = "error"
<1> USE DEF IInv, TypeOK
<1>1. ASSUME NEW q \in Request, Client(q) PROVE q # r /\ UNCHANGED <<pc[r], call[r], minted[r], reply[r]>>
  BY <1>1 DEF Own, Client, Arrive, Present
<1>2. ASSUME NEW q \in Request, Handler(q) PROVE q # r /\ UNCHANGED <<pc[r], call[r], minted[r], reply[r]>>
  <2>1. q # r
    BY <1>2 DEF Own
  <2>2. CASE RegisterFind(q) \/ RegisterSave(q) \/ LoginFind(q) \/ ResetFind(q)
    BY <2>1, <2>2 DEF RegisterFind, RegisterSave, LoginFind, ResetFind, Goto, Answer
  <2>3. CASE \/ RefreshGetBlacklist(q) \/ SetBlacklist(q)
             \/ Revoke(q) \/ VerifyUpdate(q) \/ Publish(q)
    BY <2>1, <2>3 DEF RefreshGetBlacklist, SetBlacklist, Revoke,
       VerifyUpdate, Publish, Goto, Finish, Answer
  <2>4. CASE IssueSign(q) \/ IssueSaveSession(q) \/ IssueCacheSession(q)
    BY <2>1, <2>4 DEF IssueSign, IssueSaveSession, IssueCacheSession, Goto, Finish, Answer
  <2>5. CASE RefreshFindSession(q)
    BY <2>1, <2>5, LookupCases
  <2>6. QED
    BY <1>2, <2>1, <2>2, <2>3, <2>4, <2>5 DEF Handler
<1>3. ASSUME NEW q \in Request, Fail(q)
      PROVE  /\ UNCHANGED <<call[r], minted[r]>>
             /\ \/ pc'[r] = pc[r] /\ reply'[r] = reply[r]
                \/ pc'[r] = "done" /\ reply'[r] = "error"
  BY <1>3 DEF Fail, Answer
<1>4. CASE Crash
  BY <1>4 DEF Crash
<1>5. CASE \/ \E c \in TokenId : RedisLoses(c)
           \/ BrokerDown \/ BrokerUp \/ Tick \/ UNCHANGED vars
  BY <1>5 DEF RedisLoses, BrokerDown, BrokerUp, Tick, vars, http
<1>6. QED
  BY <1>1, <1>2, <1>3, <1>4, <1>5 DEF Next

\* The tables that only a few steps write.
LEMMA Writers ==
  ASSUME IInv, [Next]_vars
  PROVE  /\ users' # users => \E r \in Request : RegisterSave(r)
         /\ sessions' # sessions =>
              \E r \in Request : Revoke(r) \/ IssueSaveSession(r)
         /\ signed' # signed => \E r \in Request : IssueSign(r)
         /\ blacklist' # blacklist =>
              \/ \E r \in Request : SetBlacklist(r)
              \/ \E c \in TokenId : RedisLoses(c)
         /\ events' # events => \E r \in Request : Publish(r)
         /\ now' # now => Tick
<1>1. ASSUME NEW r \in Request, Client(r) \/ Fail(r)
      PROVE  UNCHANGED <<now, db, signed, redis, mq>>
  BY <1>1 DEF Client, Arrive, Present, Fail
<1>2. ASSUME NEW r \in Request, Handler(r)
      PROVE  /\ UNCHANGED now
             /\ RegisterSave(r) \/ UNCHANGED users
             /\ Revoke(r) \/ IssueSaveSession(r) \/ UNCHANGED sessions
             /\ IssueSign(r) \/ UNCHANGED signed
             /\ SetBlacklist(r) \/ UNCHANGED blacklist
             /\ Publish(r) \/ UNCHANGED events
  <2>1. CASE RegisterFind(r) \/ LoginFind(r) \/ RefreshGetBlacklist(r) \/ RefreshFindSession(r) \/ ResetFind(r)
    BY <2>1, LookupCases DEF RegisterFind, LoginFind, RefreshGetBlacklist, RefreshFindSession, ResetFind, db, redis, mq
  <2>2. CASE RegisterSave(r) \/ VerifyUpdate(r) \/ Publish(r)
    BY <2>2 DEF RegisterSave, VerifyUpdate, Publish, db, redis, mq
  <2>3. CASE SetBlacklist(r) \/ Revoke(r)
    BY <2>3 DEF SetBlacklist, Revoke, db, redis, mq
  <2>4. CASE IssueSign(r) \/ IssueSaveSession(r) \/ IssueCacheSession(r)
    BY <2>4 DEF IssueSign, IssueSaveSession, IssueCacheSession, db, redis, mq
  <2>5. QED
    BY <1>2, <2>1, <2>2, <2>3, <2>4 DEF Handler
<1>3. CASE Crash \/ BrokerDown \/ BrokerUp \/ Tick \/ UNCHANGED vars
  BY <1>3 DEF Crash, BrokerDown, BrokerUp, Tick, vars, db, redis, mq
<1>4. ASSUME NEW c \in TokenId, RedisLoses(c) PROVE UNCHANGED <<now, db, signed, mq>>
  BY <1>4 DEF RedisLoses
<1>5. QED
  BY <1>1, <1>2, <1>3, <1>4 DEF Next, db, redis, mq

\* Users, rows and their columns, tokens and events stay, the clock moves on,
\* and only the lookup of a refresh without a jti changes the arguments of a
\* request.
LEMMA Persists ==
  ASSUME IInv, [Next]_vars
  PROVE  /\ now \in Nat /\ now' \in Nat /\ now <= now'
         /\ users \subseteq users' /\ events \subseteq events'
         /\ \A j \in Jti : signed[j] # 0 => signed'[j] = signed[j]
         /\ \A j \in Jti : Exists(j) =>
              /\ Exists(j)' /\ (IsRevoked(j) => IsRevoked(j)')
              /\ sessions'[j].user = sessions[j].user
              /\ sessions'[j].expiresAt = sessions[j].expiresAt
         /\ \A r \in Request : pc[r] # "idle" =>
              /\ pc'[r] # "idle"
              /\ call'[r].op = call[r].op
              /\ call[r].tok # NoJti \/ pc[r] # "findSession" => call'[r] = call[r]
<1> USE DEF IInv, TypeOK
<1>1. now \in Nat /\ now' \in Nat /\ now <= now'
  BY Writers DEF Tick
<1>2. users \subseteq users'
  BY Writers DEF RegisterSave
<1>3. events \subseteq events'
  BY Writers DEF Publish
<1>4. \A j \in Jti : signed[j] # 0 => signed'[j] = signed[j]
  BY Writers DEF IssueSign
<1>5. ASSUME NEW j \in Jti, Exists(j)
      PROVE  /\ Exists(j)' /\ (IsRevoked(j) => IsRevoked(j)')
             /\ sessions'[j].user = sessions[j].user
             /\ sessions'[j].expiresAt = sessions[j].expiresAt
  <2>1. ASSUME NEW r \in Request, Revoke(r)
        PROVE  sessions'[j] = sessions[j] \/ sessions'[j] = Revoked(sessions[j])
    BY <2>1 DEF Revoke
  <2>2. sessions[j] \in Row
    BY <1>5 DEF Exists
  <2>3. /\ Revoked(sessions[j]).user = sessions[j].user
        /\ Revoked(sessions[j]).expiresAt = sessions[j].expiresAt
    BY <2>2, IdentityAssumption DEF Revoked, Row
  <2>4. ASSUME NEW r \in Request, IssueSaveSession(r) PROVE sessions'[j] = sessions[j]
    BY <1>5, <2>4 DEF MintInv, IssueSaveSession
  <2>5. sessions'[j] = sessions[j] \/ sessions'[j] = Revoked(sessions[j])
    BY <2>1, <2>4, Writers
  <2>6. QED
    BY <1>5, <2>2, <2>3, <2>5, RevokedRow DEF Exists, IsRevoked
<1>6. ASSUME NEW r \in Request, pc[r] # "idle"
      PROVE  /\ pc'[r] # "idle"
             /\ call'[r].op = call[r].op
             /\ call[r].tok # NoJti \/ pc[r] # "findSession" => call'[r] = call[r]
  <2>1. CASE ~Own(r)
    BY <1>6, <2>1, OthersStay
  <2>2. ~Client(r)
    BY <1>6 DEF Client, Arrive, Present
  <2>3. ASSUME Handler(r), ~RefreshFindSession(r)
        PROVE  pc'[r] # "idle" /\ call'[r] = call[r]
    <3>1. CASE \/ RegisterFind(r) \/ RegisterSave(r) \/ LoginFind(r) \/ ResetFind(r)
               \/ RefreshGetBlacklist(r)
      BY <3>1 DEF RegisterFind, RegisterSave, LoginFind, ResetFind,
         RefreshGetBlacklist, Goto, Answer
    <3>2. CASE SetBlacklist(r) \/ Revoke(r) \/ VerifyUpdate(r) \/ Publish(r)
      BY <3>2 DEF SetBlacklist, Revoke, VerifyUpdate, Publish, Goto, Finish, Answer
    <3>3. CASE IssueSign(r) \/ IssueSaveSession(r) \/ IssueCacheSession(r)
      BY <3>3 DEF IssueSign, IssueSaveSession, IssueCacheSession, Goto, Finish, Answer
    <3>4. QED
      BY <2>3, <3>1, <3>2, <3>3 DEF Handler
  <2>4. CASE RefreshFindSession(r)
    <3>1. pc[r] = "findSession" /\ (call[r].tok # NoJti => call' = call)
      BY <2>4, LookupCases
    <3>2. call'[r].op = call[r].op /\ pc'[r] # "idle"
      BY <2>4, LookupCases DEF Call
    <3>3. QED
      BY <3>1, <3>2
  <2>5. QED
    BY <2>1, <2>2, <2>3, <2>4 DEF Own
<1>7. QED
  BY <1>1, <1>2, <1>3, <1>4, <1>5, <1>6
-----------------------------------------------------------------------------
(* Registrations.                                                          *)

\* Only its own INSERT, which found the address free, gets a registration
\* into the table.
LEMMA InsertedBy ==
  ASSUME IInv, [Next]_vars, NEW r \in Request, Inserted(r)', ~Inserted(r)
  PROVE  /\ RegisterSave(r) /\ call'[r] = call[r]
         /\ call[r].user \notin users /\ call[r].user \in users'
<1> USE DEF IInv, TypeOK
<1>1. Own(r)
  BY OthersStay DEF Inserted
<1>2. ~Client(r)
  BY IdentityAssumption
     DEF MintInv, Client, Arrive, Present, FirstAwait, Accounts, Inserted
<1>3. Handler(r)
  BY <1>1, <1>2 DEF Own
<1>4. pc[r] \notin {"idle", "done"}
  BY <1>3, AtWork
<1>5. call'[r] = call[r] /\ call[r].op = "register" /\ minted[r] = NoJti
  BY <1>4, Persists DEF CallInv, OpAt, Inserted
<1>6. pc[r] \in {"findUser", "saveUser"}
  BY <1>4, <1>5 DEF CallInv, OpAt, Inserted
<1>7. ~RegisterFind(r)
  BY <1>5 DEF RegisterFind, Goto, Answer, Inserted
<1>8. RegisterSave(r)
  BY <1>3, <1>5, <1>6, <1>7 DEF Handler, At, LoginFind, ResetFind,
     RefreshGetBlacklist, RefreshFindSession, SetBlacklist, Revoke, VerifyUpdate,
     Publish, IssueSign, IssueSaveSession, IssueCacheSession
<1>9. call[r].user \notin users /\ call[r].user \in users'
  BY <1>5, <1>8 DEF RegisterSave, Duplicate, Goto, Answer, Inserted
<1>10. QED
  BY <1>5, <1>8, <1>9

\* Only the confirmed publication takes a registration to the signing, and
\* tokens are the answer of a request that signed them.
LEMMA AnnouncedBy ==
  ASSUME IInv, RegisterInv, [Next]_vars, NEW r \in Request, call'[r].op = "register"
  PROVE  /\ pc'[r] \in {"sign", "saveSession", "cacheSession"} =>
              UserCreated(call'[r].user) \in events'
         /\ reply'[r] = "tokens" =>
              minted'[r] # NoJti /\ UserCreated(call'[r].user) \in events'
<1> USE DEF IInv, TypeOK
<1>1. CASE ~Own(r)
  BY <1>1, OthersStay, Persists DEF RegisterInv
<1>2. CASE Client(r)
  BY <1>2 DEF CallInv, Client, Arrive, Present, FirstAwait, Accounts
<1>3. CASE Handler(r)
  <2>1. pc[r] \notin {"idle", "done"}
    BY <1>3, AtWork
  <2>2. call'[r] = call[r] /\ reply[r] = "none"
    BY <2>1, Persists DEF CallInv, OpAt
  <2>3. CASE RegisterFind(r) \/ RegisterSave(r)
    BY <2>2, <2>3 DEF RegisterFind, RegisterSave, Goto, Answer
  <2>4. CASE Publish(r)
    BY <2>2, <2>4 DEF Publish, EventKey, UserCreated, Goto
  <2>5. CASE IssueSign(r) \/ IssueSaveSession(r)
    BY <2>2, <2>5, Persists DEF RegisterInv, IssueSign, IssueSaveSession, Goto
  <2>6. CASE IssueCacheSession(r)
    BY <2>2, <2>6, Persists DEF RegisterInv, MintInv, IssueCacheSession, Finish, Answer
  <2>7. QED
    BY <1>3, <2>2, <2>3, <2>4, <2>5, <2>6 DEF Handler, CallInv, OpAt, At,
       LoginFind, ResetFind, RefreshGetBlacklist, RefreshFindSession, SetBlacklist,
       Revoke, VerifyUpdate
<1>4. QED
  BY <1>1, <1>2, <1>3 DEF Own

LEMMA RegisterStep == IInv /\ RegisterInv /\ [Next]_vars => RegisterInv'
<1> SUFFICES ASSUME IInv, RegisterInv, [Next]_vars PROVE RegisterInv'
  OBVIOUS
<1>1. ASSUME NEW r \in Request, Inserted(r)
      PROVE  call'[r] = call[r] /\ call[r].user \in users
  <2>1. pc[r] \notin {"idle", "findSession"}
    BY <1>1 DEF IInv, CallInv, MintInv, OpAt, Inserted
  <2>2. QED
    BY <1>1, <2>1, Persists DEF RegisterInv
<1>2. ASSUME NEW r \in Request, Inserted(r)'
      PROVE  call'[r].user \in users'
  BY <1>1, <1>2, InsertedBy, Persists
<1>3. ASSUME NEW r \in Request, NEW q \in Request, Inserted(r)', Inserted(q)',
             call'[r].user = call'[q].user
      PROVE  r = q
  <2>1. CASE Inserted(r) /\ Inserted(q)
    BY <1>1, <1>3, <2>1 DEF RegisterInv
  <2>2. CASE ~(Inserted(r) <=> Inserted(q))
    BY <1>1, <1>3, <2>2, InsertedBy
  <2>3. CASE ~Inserted(r) /\ ~Inserted(q)
    <3>1. /\ RegisterSave(r) /\ pc'[q] # "saveUser" /\ pc[q] = "saveUser"
      BY <1>3, <2>3, InsertedBy DEF IInv, TypeOK, RegisterSave, Goto, Answer
    <3>2. QED
      BY <3>1 DEF IInv, TypeOK, RegisterSave, Goto, Answer
  <2>4. QED
    BY <2>1, <2>2, <2>3
<1>4. QED
  BY <1>2, <1>3, AnnouncedBy DEF RegisterInv, UserCreated

LEMMA RegisterInvariant == Spec => []RegisterInv
<1>1. Init => RegisterInv
  BY DEF Init, NoCall, RegisterInv, Inserted
<1>2. QED
  BY <1>1, RegisterStep, IInvInvariant, PTL DEF Spec

(* Of the registrations that race for one e-mail address at most one gets  *)
(* as far as a session: the UNIQUE constraint decides, not the check that  *)
(* precedes the insert.                                                    *)
THEOREM OneWins == Spec => []OneRegistrationWins
<1>1. RegisterInv => OneRegistrationWins
  BY DEF RegisterInv, Inserted, OneRegistrationWins
<1>2. QED
  BY <1>1, RegisterInvariant, PTL

(* When registration has handed out tokens, the exchange has confirmed     *)
(* user.created for a row that is in the users table.                      *)
THEOREM Announced == Spec => []TokensAfterAnnouncement
<1>1. RegisterInv => TokensAfterAnnouncement
  BY DEF RegisterInv, Inserted, UserCreated, TokensAfterAnnouncement
<1>2. QED
  BY <1>1, RegisterInvariant, PTL

-----------------------------------------------------------------------------
(* Sessions.                                                               *)

\* The user whose session is about to be saved is registered: the handler
\* read the row, inserted it, or took it from the session it replaces.
LEMMA SubjectRegistered ==
  ASSUME IInv, RegisterInv, SessionInv, NEW r \in Request, pc[r] = "saveSession"
  PROVE  Subject(r) \in users
<1>1. CASE call[r].op = "register"
  BY <1>1 DEF RegisterInv, Inserted, Subject
<1>2. CASE call[r].op = "login"
  BY <1>2 DEF SessionInv, Subject
<1>3. CASE call[r].op = "refresh"
  <2>1. call[r].tok \in Jti /\ Exists(call[r].tok)
    BY <1>3 DEF IInv, TypeOK, CallInv, MintInv, Call, TokenId
  <2>2. QED
    BY <1>3, <2>1 DEF SessionInv, Subject
<1>4. QED
  BY <1>1, <1>2, <1>3 DEF IInv, CallInv, OpAt

\* A login that signs has found the user's row.
LEMMA LoginRegistered ==
  ASSUME IInv, SessionInv, [Next]_vars, NEW r \in Request,
         call'[r].op = "login", pc'[r] \in {"sign", "saveSession"}
  PROVE  call'[r].user \in users'
<1> USE DEF IInv, TypeOK
<1>1. CASE ~Own(r)
  BY <1>1, OthersStay, Persists DEF SessionInv
<1>2. CASE Client(r)
  BY <1>2 DEF Client, Arrive, Present, FirstAwait, Accounts
<1>3. CASE Handler(r)
  <2>1. pc[r] # "idle"
    BY <1>3, AtWork
  <2>2. call'[r] = call[r]
    BY <2>1, Persists DEF CallInv, OpAt
  <2>3. CASE LoginFind(r)
    BY <2>2, <2>3, Persists DEF LoginFind, Goto, Answer
  <2>4. CASE IssueSign(r)
    BY <2>2, <2>4, Persists DEF SessionInv, IssueSign
  <2>5. CASE IssueSaveSession(r) \/ IssueCacheSession(r)
    BY <2>5 DEF IssueSaveSession, IssueCacheSession, Goto, Finish, Answer
  <2>6. QED
    BY <1>3, <2>2, <2>3, <2>4, <2>5 DEF Handler, CallInv, OpAt, At,
       RegisterFind, RegisterSave, ResetFind, RefreshGetBlacklist,
       RefreshFindSession, SetBlacklist, Revoke, VerifyUpdate, Publish
<1>4. QED
  BY <1>1, <1>2, <1>3 DEF Own

\* The clock read for the row is not earlier than the one read for the
\* token, and the token is signed before it has a row.
LEMMA SessionStep ==
  ASSUME IInv, RegisterInv, SessionInv, [Next]_vars
  PROVE  SessionInv'
<1> USE DEF IInv, TypeOK
<1>1. ASSUME NEW j \in Jti
      PROVE  signed'[j] <= now' + RefreshTtl
  <2>1. CASE signed'[j] = signed[j]
    BY <2>1, Persists, IdentityAssumption DEF SessionInv
  <2>2. CASE signed'[j] # signed[j]
    BY <2>2, Writers, IdentityAssumption DEF IssueSign
  <2>3. QED
    BY <2>1, <2>2
<1>2. ASSUME NEW j \in Jti, Exists(j)'
      PROVE  /\ sessions'[j].user \in users'
             /\ signed'[j] <= sessions'[j].expiresAt
  <2>1. CASE Exists(j)
    BY <2>1, Persists DEF SessionInv, MintInv
  <2>2. CASE ~Exists(j)
    <3>1. PICK r \in Request : Revoke(r) \/ IssueSaveSession(r)
      BY <1>2, <2>2, Writers DEF Exists
    <3>2. IssueSaveSession(r)
      BY <1>2, <2>2, <3>1, RevokedRow DEF Exists, Revoke
    <3>3. sessions'[j] = NewRow(Subject(r)) /\ signed'[j] = signed[j]
      BY <1>2, <2>2, <3>2 DEF Exists, IssueSaveSession
    <3>4. Subject(r) \in users'
      BY <3>2, SubjectRegistered, Persists DEF IssueSaveSession
    <3>5. QED
      BY <3>3, <3>4 DEF SessionInv, NewRow
  <2>3. QED
    BY <2>1, <2>2
<1>3. QED
  BY <1>1, <1>2, LoginRegistered DEF SessionInv

LEMMA SessionInvariant == Spec => []SessionInv
<1>1. Init => SessionInv
  BY IdentityAssumption DEF Init, NoCall, SessionInv, Exists
<1>2. QED
  BY <1>1, SessionStep, IInvInvariant, RegisterInvariant, PTL DEF Spec

(* A refresh token in a client's hands has a session row, of a registered  *)
(* user, that does not expire before the token itself: issueTokens() saves *)
(* the session before it answers, and reads the clock after signing.       *)
THEOREM Delivered == Spec => []DeliveredHasSession
<1>1. IInv /\ SessionInv => DeliveredHasSession
  BY DEF IInv, TypeOK, MintInv, SessionInv, DeliveredHasSession, Exists, Row
<1>2. QED
  BY <1>1, IInvInvariant, SessionInvariant, PTL

-----------------------------------------------------------------------------
(* The blacklist.                                                          *)

\* An entry written now outlives every token signed so far, when entries
\* are kept at least as long as refresh tokens are valid.
LEMMA EntryOutlives ==
  ASSUME IInv, SessionInv, RefreshTtl <= BlacklistTtl, NEW j \in Jti
  PROVE  BlacklistEntry \in Nat /\ signed[j] <= BlacklistEntry
<1>1. BlacklistEntry = now + BlacklistTtl
  BY IdentityAssumption DEF BlacklistEntry, SetEx
<1>2. signed[j] <= now + RefreshTtl
  BY DEF SessionInv
<1>3. QED
  BY <1>1, <1>2, IdentityAssumption DEF IInv, TypeOK

\* Nothing shortens an entry or prolongs a token that has a row.
LEMMA OutlivesStays ==
  ASSUME IInv, SessionInv, RefreshTtl <= BlacklistTtl, Durable, [Next]_vars,
         NEW j \in Jti, Exists(j), Outlives(j)
  PROVE  Outlives(j)'
<1> USE DEF IInv, TypeOK
<1>1. signed'[j] = signed[j]
  BY Persists DEF MintInv
<1>2. CASE blacklist'[j] = blacklist[j]
  BY <1>1, <1>2 DEF Outlives
<1>3. CASE blacklist'[j] # blacklist[j]
  <2>1. PICK r \in Request : SetBlacklist(r)
    BY <1>3, Writers DEF RedisLoses
  <2>2. blacklist'[j] = BlacklistEntry
    BY <1>3, <2>1 DEF SetBlacklist
  <2>3. QED
    BY <1>1, <2>2, EntryOutlives DEF Outlives
<1>4. QED
  BY <1>2, <1>3

\* The entry is written before the row is revoked, and a request gets to
\* the revocation only past the writing of the entry.
LEMMA BlacklistStep ==
  ASSUME IInv, SessionInv, BlacklistInv, RefreshTtl <= BlacklistTtl, [Next]_vars
  PROVE  BlacklistInv'
<1> USE DEF IInv, TypeOK
<1> SUFFICES ASSUME Durable PROVE BlacklistInv'
  BY DEF BlacklistInv
<1>1. ASSUME NEW j \in Jti, IsRevoked(j)'
      PROVE  Outlives(j)'
  <2>1. CASE IsRevoked(j)
    BY <2>1, OutlivesStays DEF BlacklistInv, IsRevoked
  <2>2. CASE ~IsRevoked(j)
    <3>1. PICK r \in Request : Revoke(r) \/ IssueSaveSession(r)
      BY <1>1, <2>2, Writers DEF IsRevoked, Exists
    <3>2. Revoke(r)
      BY <1>1, <2>2, <3>1 DEF IssueSaveSession, NewRow, IsRevoked, Exists
    <3>3. j = call[r].tok /\ Exists(j)
      BY <1>1, <2>2, <3>2, RevokedRow DEF Revoke, IsRevoked, Exists
    <3>4. Outlives(j)
      BY <3>2, <3>3, IdentityAssumption DEF BlacklistInv, Revoke
    <3>5. QED
      BY <3>3, <3>4, OutlivesStays
  <2>3. QED
    BY <2>1, <2>2
<1>2. ASSUME NEW r \in Request, pc'[r] = "revoke", call'[r].tok # NoJti
      PROVE  call'[r] = call[r] /\ Outlives(call[r].tok)'
  <2>1. CASE pc[r] = "revoke"
    <3>1. call'[r] = call[r]
      BY <2>1, Persists
    <3>2. call[r].tok \in Jti /\ Exists(call[r].tok)
      BY <1>2, <3>1 DEF MintInv, Call, TokenId
    <3>3. QED
      BY <1>2, <2>1, <3>1, <3>2, OutlivesStays DEF BlacklistInv
  <2>2. CASE pc[r] # "revoke"
    <3>1. Own(r)
      BY <1>2, <2>2, OthersStay
    <3>2. ~RefreshFindSession(r)
      BY <1>2, LookupCases
    <3>3. SetBlacklist(r)
      BY <1>2, <2>2, <3>1, <3>2 DEF Own, Client, Handler, Arrive, Present, FirstAwait,
         RegisterFind, RegisterSave, LoginFind, ResetFind, RefreshGetBlacklist,
         Revoke, VerifyUpdate, Publish, IssueSign,
         IssueSaveSession, IssueCacheSession, Goto, Finish, Answer
    <3>4. call'[r] = call[r] /\ call[r].tok \in Jti
      BY <1>2, <3>3 DEF SetBlacklist, Goto, Call, TokenId
    <3>5. blacklist'[call[r].tok] = BlacklistEntry /\ signed' = signed
      BY <3>3, <3>4 DEF SetBlacklist, TokenId
    <3>6. QED
      BY <3>4, <3>5, EntryOutlives DEF Outlives
  <2>3. QED
    BY <2>1, <2>2
<1>3. QED
  BY <1>1, <1>2 DEF BlacklistInv, Outlives

(* As long as Redis loses nothing, a revoked session's token is answered   *)
(* from the blacklist for as long as JWT verification would let it pass,   *)
(* provided that entries are kept as long as tokens are valid: the code's  *)
(* 30 days against a JWT_REFRESH_TTL of 7.                                 *)
THEOREM Blacklisted ==
  ASSUME RefreshTtl <= BlacklistTtl
  PROVE  Spec => []RevokedIsBlacklisted
<1>1. Init => BlacklistInv
  BY DEF Init, BlacklistInv, IsRevoked, Exists
<1>2. IInv /\ SessionInv /\ BlacklistInv /\ [Next]_vars => BlacklistInv'
  BY BlacklistStep
<1>3. IInv /\ BlacklistInv => RevokedIsBlacklisted
  BY NeverAssumption
     DEF IInv, TypeOK, BlacklistInv, Outlives, RevokedIsBlacklisted, Hit
<1>4. QED
  BY <1>1, <1>2, <1>3, IInvInvariant, SessionInvariant, PTL DEF Spec

-----------------------------------------------------------------------------
(* Refusals.                                                               *)

\* Whoever works on a token id goes on working on it.
LEMMA WorksOnStays ==
  ASSUME IInv, [Next]_vars, NEW c \in TokenId, NEW q \in Request, WorksOn(q, c)
  PROVE  WorksOn(q, c)'
<1>1. pc[q] # "idle"
  BY DEF IInv, CallInv, OpAt, WorksOn, Refresh
<1>2. CASE call'[q] = call[q]
  BY <1>2 DEF WorksOn, Refresh
<1>3. CASE call'[q] # call[q]
  <2>1. call[q].tok = NoJti /\ pc[q] = "findSession"
    BY <1>1, <1>3, Persists
  <2>2. call[q].op = "refresh"
    BY <2>1 DEF IInv, CallInv, OpAt
  <2>3. QED
    BY <2>1, <2>2 DEF WorksOn
<1>4. QED
  BY <1>2, <1>3

\* And once it is past the lookups it stays past them.
LEMMA SpentStays ==
  ASSUME IInv, [Next]_vars, NEW c \in TokenId, NEW q \in Request,
         WorksOn(q, c), pc[q] \notin {"getBlacklist", "findSession"}
  PROVE  WorksOn(q, c)' /\ pc'[q] \notin {"getBlacklist", "findSession"}
<1> USE DEF IInv, TypeOK
<1>1. WorksOn(q, c)' /\ pc[q] # "idle"
  BY WorksOnStays DEF CallInv, OpAt, WorksOn, Refresh
<1>2. CASE ~Own(q)
  BY <1>1, <1>2, OthersStay
<1>3. ~Client(q)
  BY <1>1 DEF Client, Arrive, Present
<1>4. ~RefreshFindSession(q)
  BY LookupCases
<1>5. CASE Handler(q)
  <2>1. CASE RegisterFind(q) \/ RegisterSave(q) \/ LoginFind(q) \/ ResetFind(q)
    BY <1>1, <2>1 DEF RegisterFind, RegisterSave, LoginFind, ResetFind, Goto, Answer
  <2>2. CASE SetBlacklist(q) \/ Revoke(q) \/ VerifyUpdate(q) \/ Publish(q)
    BY <1>1, <2>2 DEF SetBlacklist, Revoke, VerifyUpdate, Publish, Goto, Finish, Answer
  <2>3. CASE IssueSign(q) \/ IssueSaveSession(q) \/ IssueCacheSession(q)
    BY <1>1, <2>3 DEF IssueSign, IssueSaveSession, IssueCacheSession, Goto, Finish, Answer
  <2>4. ~RefreshGetBlacklist(q)
    BY DEF RefreshGetBlacklist
  <2>5. QED
    BY <1>4, <1>5, <2>1, <2>2, <2>3, <2>4 DEF Handler
<1>6. QED
  BY <1>1, <1>2, <1>3, <1>5 DEF Own

\* A token id in the blacklist, and a session that is revoked, has been
\* worked on by a request that is past the lookups.
LEMMA SpentStep ==
  ASSUME IInv, CauseInv, [Next]_vars, NEW c \in TokenId,
         blacklist'[c] # Absent \/ (c \in Jti /\ IsRevoked(c)')
  PROVE  Spent(c)'
<1> USE DEF IInv, TypeOK
<1>1. CASE blacklist[c] # Absent \/ (c \in Jti /\ IsRevoked(c))
  BY <1>1, SpentStays DEF CauseInv, Spent
<1>2. CASE blacklist[c] = Absent /\ ~(c \in Jti /\ IsRevoked(c))
  <2>1. PICK r \in Request : /\ SetBlacklist(r) \/ (Revoke(r) /\ c \in Jti)
                             /\ call[r].tok = c
    <3>1. CASE blacklist'[c] # blacklist[c]
      BY <1>2, <3>1, Writers DEF SetBlacklist, RedisLoses
    <3>2. CASE blacklist'[c] = blacklist[c]
      <4>1. PICK r \in Request : Revoke(r) \/ IssueSaveSession(r)
        BY <1>2, <3>2, Writers DEF IsRevoked, Exists
      <4>2. QED
        BY <1>2, <3>2, <4>1 DEF Revoke, IssueSaveSession, NewRow, IsRevoked, Exists
    <3>3. QED
      BY <3>1, <3>2
  <2>2. pc[r] \in {"setBlacklist", "revoke"}
    BY <2>1 DEF SetBlacklist, Revoke
  <2>3. WorksOn(r, c)
    BY <2>1, <2>2 DEF CallInv, OpAt, WorksOn, Refresh
  <2>4. QED
    BY <2>2, <2>3, SpentStays DEF Spent
<1>3. QED
  BY <1>1, <1>2

\* The lookup finds the session of the token, or any session.
LEMMA SessionFound ==
  ASSUME IInv, NEW r \in Request, RefreshFindSession(r)
  PROVE  LookedUp(call[r].tok) # {}
<1>1. call[r].tok # NoJti => call[r].tok \in Jti /\ Exists(call[r].tok)
  BY DEF IInv, TypeOK, MintInv, Call, TokenId
<1>2. \E j \in Jti : Exists(j)
  BY LookupCases DEF IInv, TypeOK, CallInv, MintInv, Token
<1>3. QED
  BY <1>1, <1>2 DEF LookedUp, Exists

\* The handler refuses for one of the causes, and all of them stay.
LEMMA RefusalStep ==
  ASSUME IInv, CauseInv, [Next]_vars
  PROVE  RefusalHasCause'
<1> USE DEF IInv, TypeOK
<1> SUFFICES ASSUME NEW r \in Request, NEW c \in TokenId, call'[r].op = "refresh",
                    call'[r].tok = c, reply'[r] = "unauthorized"
             PROVE  \/ c # NoJti /\ now' > sessions'[c].expiresAt
                    \/ \E q \in Request \ {r} : WorksOn(q, c)'
  <2>1. call' \in [Request -> Call]
    BY NextIInv
  <2>2. QED
    BY <2>1 DEF RefusalHasCause, Refresh, WorksOn, Call
<1>1. pc[r] # "idle"
  BY OthersStay DEF CallInv, OpAt, Own, Client, Handler, Arrive, Present, At,
     RegisterFind, RegisterSave, LoginFind, ResetFind, RefreshGetBlacklist,
     RefreshFindSession, SetBlacklist, Revoke, VerifyUpdate, Publish, IssueSign,
     IssueSaveSession, IssueCacheSession
<1>2. call[r].op = "refresh" /\ call[r].tok \in TokenId
  BY <1>1, Persists DEF Call
<1>3. CASE reply[r] = "unauthorized"
  <2>1. call[r].tok = c /\ (c # NoJti => c \in Jti /\ Exists(c))
    BY <1>1, <1>3, Persists DEF CallInv, MintInv, TokenId
  <2>2. \/ c # NoJti /\ now > sessions[c].expiresAt
        \/ \E q \in Request \ {r} : WorksOn(q, c)
    BY <1>2, <1>3, <2>1 DEF CauseInv, RefusalHasCause, Refresh
  <2>3. CASE c # NoJti /\ now > sessions[c].expiresAt
    BY <2>1, <2>3, Persists DEF Exists, Row
  <2>4. QED
    BY <2>2, <2>3, WorksOnStays
<1>4. CASE reply[r] # "unauthorized"
  <2>1. Own(r) /\ ~Client(r)
    BY <1>1, <1>4, OthersStay DEF Client, Arrive, Present
  <2>2. RefreshGetBlacklist(r) \/ RefreshFindSession(r)
    BY <1>2, <1>4, <2>1 DEF Own, Handler, At, RegisterFind, RegisterSave, LoginFind,
       ResetFind, SetBlacklist, Revoke, VerifyUpdate, Publish, IssueSign,
       IssueSaveSession, IssueCacheSession, CallInv, OpAt, Goto, Finish, Answer
  <2>3. CASE Spent(c)
    <3>1. PICK q \in Request : /\ WorksOn(q, c)
                               /\ pc[q] \notin {"getBlacklist", "findSession"}
      BY <2>3 DEF Spent
    <3>2. q # r
      BY <2>2, <3>1 DEF RefreshGetBlacklist, RefreshFindSession
    <3>3. QED
      BY <3>1, <3>2, WorksOnStays
  <2>4. CASE RefreshGetBlacklist(r)
    <3>1. call[r].tok = c /\ blacklist[c] # Absent
      BY <1>4, <2>4, NeverAssumption DEF RefreshGetBlacklist, Hit, Absent, Goto, Answer
    <3>2. QED
      BY <2>3, <3>1 DEF CauseInv
  <2>5. CASE RefreshFindSession(r)
    <3>1. /\ c \in Jti /\ Exists(c) /\ ~Usable(sessions[c])
          /\ UNCHANGED <<now, sessions>>
      <4>1. UNCHANGED <<now, sessions>>
        BY <2>5, LookupCases DEF db
      <4>2. PICK j \in Jti : /\ Exists(j) /\ call' = [call EXCEPT ![r].tok = j]
                             /\ \/ Usable(sessions[j]) /\ UNCHANGED reply
                                \/ ~Usable(sessions[j])
        BY <2>5, SessionFound, LookupCases
      <4>3. c = j /\ ~Usable(sessions[j])
        BY <1>4, <4>2 DEF Call
      <4>4. QED
        BY <4>1, <4>2, <4>3
    <3>2. CASE IsRevoked(c)
      BY <2>3, <3>1, <3>2 DEF CauseInv
    <3>3. CASE ~IsRevoked(c)
      <4>1. sessions[c].expiresAt \in Nat
        BY <3>1 DEF Exists, Row
      <4>2. now > sessions[c].expiresAt
        BY <3>1, <3>3, <4>1 DEF Usable, IsRevoked, Exists
      <4>3. QED
        BY <3>1, <4>2, IdentityAssumption
    <3>4. QED
      BY <3>2, <3>3
  <2>6. QED
    BY <2>2, <2>4, <2>5
<1>5. QED
  BY <1>3, <1>4

(* A 401 from refresh has a cause: the session found ran out while the      *)
(* request was under way, or another request works on it, since that one    *)
(* presented its token or an access token for which the lookup found it; an *)
(* access token is refused before the lookup once one was logged out.       *)
THEOREM Refusal == Spec => []RefusalHasCause
<1>1. Init => CauseInv
  BY DEF Init, NoCall, CauseInv, RefusalHasCause, Refresh, IsRevoked, Exists
<1>2. IInv /\ CauseInv /\ [Next]_vars => CauseInv'
  BY SpentStep, RefusalStep DEF CauseInv, TokenId
<1>3. CauseInv => RefusalHasCause
  BY DEF CauseInv
<1>4. QED
  BY <1>1, <1>2, <1>3, IInvInvariant, PTL DEF Spec
=============================================================================
