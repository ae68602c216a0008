-------------------------- MODULE Identity_proofs --------------------------
(***************************************************************************)
(* Proofs about Identity, for any number of users, tokens and requests,    *)
(* any time to live, and a Redis that may or may not lose what it wrote.   *)
(***************************************************************************)
EXTENDS Identity, TLAPS

-----------------------------------------------------------------------------
(* The inductive invariant.                                                *)

Token(r)   == call[r].op \in {"refresh", "logout"}
Success(r) == reply[r] \in {"tokens", "ok"}

\* Where a request stands tells which operation it is.
OpAt(at) ==
  CASE at = "findUser"     -> {"register", "login", "reset"}
    [] at = "saveUser"     -> {"register"}
    [] at = "updateUser"   -> {"verify"}
    [] at = "publish"      -> {"register", "reset", "verify"}
    [] at = "getBlacklist" -> {"refresh"}
    [] at = "findSession"  -> {"refresh"}
    [] at = "setBlacklist" -> {"refresh", "logout"}
    [] at = "revoke"       -> {"refresh", "logout"}
    [] at = "sign"         -> {"register", "login", "refresh"}
    [] at = "saveSession"  -> {"register", "login", "refresh"}
    [] at = "cacheSession" -> {"register", "login", "refresh"}
    [] at = "idle"         -> {"none"}
    [] at = "done"         -> Ops

\* A request's arguments suit its operation and it is unanswered until done;
\* a refresh that is past the lookup has the id of a session.
CallInv == \A r \in Request :
  /\ call[r].op \in OpAt(pc[r])
  /\ call[r].op \in Accounts => call[r].user \in User
  /\ IF Token(r) THEN delivered # {} ELSE call[r].tok = NoJti
  /\ call[r].op = "refresh" /\ pc[r] \in {"setBlacklist", "revoke", "sign",
                                          "saveSession", "cacheSession"} =>
       call[r].tok # NoJti
  /\ pc[r] # "done" => reply[r] = "none"

\* A token id belongs to the one request that signed it, and its row is
\* inserted by that request only, between saveSession and cacheSession.
MintInv ==
  /\ \A r \in Request : minted[r] # NoJti =>
       signed[minted[r]] # 0 /\ pc[r] \in {"saveSession", "cacheSession", "done"}
  /\ \A r \in Request : pc[r] = "saveSession" =>
       minted[r] # NoJti /\ ~Exists(minted[r])
  /\ \A r \in Request : pc[r] = "cacheSession" =>
       minted[r] # NoJti /\ Exists(minted[r])
  /\ \A r, q \in Request : minted[r] = minted[q] /\ minted[r] # NoJti => r = q
  /\ \A j \in Jti : Exists(j) => signed[j] # 0
  /\ \A j \in delivered : Exists(j)
  /\ \A r \in Request : call[r].tok # NoJti => Exists(call[r].tok)

\* The revoked column is set before a successor is signed and before
\* success is reported, and a request that arrives after such a report
\* never gets past the lookup of the session.
RevokeInv == \A r \in Request :
  /\ Refresh(r) /\ (pc[r] \in {"sign", "saveSession", "cacheSession"}
                    \/ minted[r] # NoJti) =>
       call[r].tok # NoJti /\ IsRevoked(call[r].tok)
  /\ Success(r) /\ call[r].tok # NoJti => IsRevoked(call[r].tok)
  /\ call[r].late => call[r].tok # NoJti /\ Token(r) /\ IsRevoked(call[r].tok)
  /\ Refresh(r) /\ call[r].late =>
       pc[r] \in {"getBlacklist", "findSession", "done"} /\ minted[r] = NoJti

IInv == TypeOK /\ CallInv /\ MintInv /\ RevokeInv

-----------------------------------------------------------------------------
\* Nothing has happened yet.
LEMMA InitIInv == Init => IInv
BY IdentityAssumption DEF Init, IInv, TypeOK, CallInv, MintInv, RevokeInv,
   NoCall, Call, TokenId, OpAt, Token, Success, Refresh, Exists, IsRevoked, Expiry,
   Absent, Accounts

(* What the helpers of the actions return.                                 *)
\* A key's expiry is a time, or never.
LEMMA SetExType ==
  ASSUME NEW time \in Nat, NEW ttl \in Nat
  PROVE  SetEx(time, ttl) \in Expiry
BY DEF SetEx, Expiry

\* Revoking keeps a row a row, and no row no row.
LEMMA RevokedRow ==
  ASSUME NEW row \in Row \cup {NoRow}
  PROVE  /\ Revoked(row) \in Row \cup {NoRow}
         /\ Revoked(row) = NoRow <=> row = NoRow
         /\ row # NoRow => Revoked(row).revoked
<1>1. CASE row = NoRow
  BY <1>1 DEF Revoked
<1>2. CASE row \in Row
  BY <1>2, IdentityAssumption DEF Revoked, Row
<1>3. QED
  BY <1>1, <1>2

\* The user a request signs tokens for has a row to belong to.
LEMMA NewRowType ==
  ASSUME IInv, NEW r \in Request, pc[r] = "saveSession"
  PROVE  NewRow(Subject(r)) \in Row /\ NewRow(Subject(r)) # NoRow
<1>1. Subject(r) \in User
  <2>1. CASE Refresh(r)
    BY <2>1 DEF IInv, TypeOK, CallInv, MintInv, Call, TokenId, Refresh, Token,
       Exists, Subject, Row
  <2>2. CASE ~Refresh(r)
    BY <2>2 DEF IInv, TypeOK, CallInv, Refresh, OpAt, Accounts, Subject
  <2>3. QED
    BY <2>1, <2>2
<1>2. now + RefreshTtl \in Nat
  BY IdentityAssumption DEF IInv, TypeOK
<1>3. NewRow(Subject(r)) \in Row
  BY <1>1, <1>2 DEF NewRow, Row
<1>4. QED
  BY <1>3, IdentityAssumption

\* A request that names an account has no token and has signed nothing.
LEMMA ArriveStep ==
  ASSUME IInv, NEW r \in Request, NEW op \in Ops \cap Accounts, NEW u \in User,
         Arrive(r, op, u)
  PROVE  IInv'
<1>1. TypeOK'
  BY DEF IInv, TypeOK, Arrive, FirstAwait, Call, TokenId, Accounts, db, redis, mq
<1>2. CallInv'
  BY IdentityAssumption DEF IInv, TypeOK, CallInv, Arrive, FirstAwait,
     Accounts, OpAt, Token
<1>3. MintInv'
  BY IdentityAssumption DEF IInv, TypeOK, MintInv, Arrive, FirstAwait,
     Accounts, Exists, db
<1>4. RevokeInv'
  BY IdentityAssumption DEF IInv, TypeOK, CallInv, MintInv, RevokeInv, Arrive,
     FirstAwait, Accounts, OpAt, Token, Success, Refresh, Exists, IsRevoked,
     db
<1>5. QED
  BY <1>1, <1>2, <1>3, <1>4 DEF IInv

\* A token is presented by a client that received its pair, which has a
\* session; when it is already retired, RevokeInv says that this is revoked.
LEMMA PresentStep ==
  ASSUME IInv, NEW r \in Request, NEW op \in Ops \ Accounts, NEW kind \in Presented,
         NEW j \in delivered, Present(r, op, kind, j)
  PROVE  IInv'
<1> DEFINE tok == Carried(kind, j)
           new == [op |-> op, user |-> "none", tok |-> tok, late |-> Retired(tok)]
<1>1. op \in Ops /\ op \in {"refresh", "logout"}
  BY IdentityAssumption DEF Accounts
<1>2. tok \in TokenId /\ (tok # NoJti => tok \in Jti /\ Exists(tok))
  BY DEF IInv, TypeOK, MintInv, Carried, TokenId
<1>3. Retired(tok) \in BOOLEAN /\ (Retired(tok) => tok # NoJti /\ IsRevoked(tok))
  BY DEF IInv, RevokeInv, Retired, Success
<1>4. /\ call' = [call EXCEPT ![r] = new]
      /\ pc[r] = "idle" /\ pc' = [pc EXCEPT ![r] = pc'[r]]
      /\ pc'[r] \in IF op = "refresh" THEN {"getBlacklist", "done"}
                                      ELSE {"setBlacklist", "done"}
      /\ reply' = [reply EXCEPT ![r] = reply'[r]]
      /\ reply'[r] \in {reply[r], "error"} /\ (pc'[r] # "done" => reply' = reply)
      /\ UNCHANGED <<now, db, signed, redis, mq, delivered, minted>>
  BY DEF IInv, TypeOK, Present
<1> HIDE DEF tok
<1>5. /\ new \in Call /\ new.op = op /\ new.tok = tok
      /\ new.late => tok # NoJti /\ IsRevoked(tok)
  BY <1>1, <1>2, <1>3 DEF Call
<1> HIDE DEF new
<1>6. call'[r] = new /\ minted[r] = NoJti
  BY <1>4 DEF IInv, TypeOK, MintInv
<1>7. TypeOK'
  BY <1>4, <1>5 DEF IInv, TypeOK, db, redis, mq
<1>8. CallInv'
  BY <1>1, <1>4, <1>5 DEF IInv, TypeOK, CallInv, Accounts, OpAt, Token
<1>9. MintInv'
  <2>1. \A q \in Request : call'[q].tok # NoJti => Exists(call'[q].tok)
    BY <1>2, <1>4, <1>5 DEF IInv, TypeOK, MintInv
  <2>2. QED
    BY <1>4, <1>6, <2>1 DEF IInv, TypeOK, MintInv, Exists, db
<1>10. RevokeInv'
  BY <1>1, <1>4, <1>5 DEF IInv, TypeOK, CallInv, MintInv, RevokeInv,
     OpAt, Token, Success, Refresh, Exists, IsRevoked, db
<1>11. QED
  BY <1>7, <1>8, <1>9, <1>10 DEF IInv

\* The lookups move or answer a request and change nothing else.
LEMMA RegisterFindStep ==
  ASSUME IInv, NEW r \in Request, RegisterFind(r)
  PROVE  IInv'
<1>1. TypeOK'
  BY DEF IInv, TypeOK, RegisterFind, Answer, Goto, db, redis, mq, http
<1>2. CallInv'
  BY DEF IInv, TypeOK, CallInv, RegisterFind, At, Answer, Goto, Call, OpAt,
     Token, Accounts
<1>3. MintInv'
  BY DEF IInv, TypeOK, MintInv, RegisterFind, At, Answer, Goto, Exists, db
<1>4. RevokeInv'
  BY DEF IInv, TypeOK, CallInv, RevokeInv, RegisterFind, At, Answer, Goto,
     OpAt, Token, Success, Refresh, Exists, IsRevoked, db
<1>5. QED
  BY <1>1, <1>2, <1>3, <1>4 DEF IInv

\* The insert adds a user or the database refuses it.
LEMMA RegisterSaveStep ==
  ASSUME IInv, NEW r \in Request, RegisterSave(r)
  PROVE  IInv'
<1>1. TypeOK'
  BY DEF IInv, TypeOK, RegisterSave, CallInv, Duplicate, Answer, Goto, OpAt,
     Accounts, redis, mq
<1>2. CallInv'
  BY DEF IInv, TypeOK, CallInv, RegisterSave, Answer, Goto, Call, OpAt, Token,
     Accounts
<1>3. MintInv'
  BY DEF IInv, TypeOK, MintInv, RegisterSave, Answer, Goto, Exists, db
<1>4. RevokeInv'
  BY DEF IInv, TypeOK, CallInv, RevokeInv, RegisterSave, Answer, Goto, OpAt,
     Token, Success, Refresh, Exists, IsRevoked, db
<1>5. QED
  BY <1>1, <1>2, <1>3, <1>4 DEF IInv

LEMMA LoginFindStep ==
  ASSUME IInv, NEW r \in Request, LoginFind(r)
  PROVE  IInv'
<1>1. TypeOK'
  BY DEF IInv, TypeOK, LoginFind, Answer, Goto, db, redis, mq, http
<1>2. CallInv'
  BY DEF IInv, TypeOK, CallInv, LoginFind, At, Answer, Goto, Call, OpAt,
     Token, Accounts
<1>3. MintInv'
  <2>1. /\ pc' = [pc EXCEPT ![r] = pc'[r]] /\ pc'[r] \in {"sign", "done"}
        /\ pc[r] = "findUser"
        /\ UNCHANGED <<now, db, signed, delivered, call, minted>>
    BY DEF IInv, TypeOK, LoginFind, At, Answer, Goto, mq
  <2>2. QED
    BY <2>1 DEF IInv, TypeOK, MintInv, Exists, db
<1>4. RevokeInv'
  BY DEF IInv, TypeOK, CallInv, RevokeInv, LoginFind, At, Answer, Goto, OpAt,
     Token, Success, Refresh, Exists, IsRevoked, db
<1>5. QED
  BY <1>1, <1>2, <1>3, <1>4 DEF IInv

LEMMA RefreshGetBlacklistStep ==
  ASSUME IInv, NEW r \in Request, RefreshGetBlacklist(r)
  PROVE  IInv'
<1>1. TypeOK'
  BY DEF IInv, TypeOK, RefreshGetBlacklist, Answer, Goto, db, redis, mq, http
<1>2. CallInv'
  BY DEF IInv, TypeOK, CallInv, RefreshGetBlacklist, Answer, Goto, Call, OpAt,
     Token, Accounts
<1>3. MintInv'
  BY DEF IInv, TypeOK, MintInv, RefreshGetBlacklist, Answer, Goto, Exists, db
<1>4. RevokeInv'
  BY DEF IInv, TypeOK, CallInv, RevokeInv, RefreshGetBlacklist, Answer, Goto,
     OpAt, Token, Success, Refresh, Exists, IsRevoked, db
<1>5. QED
  BY <1>1, <1>2, <1>3, <1>4 DEF IInv

\* The lookup goes on with the session it found, refuses it, or has found
\* none; a request that has a session's id keeps its arguments.
LEMMA LookupCases ==
  ASSUME IInv, NEW r \in Request, RefreshFindSession(r)
  PROVE  /\ pc[r] = "findSession" /\ call[r].op = "refresh" /\ minted[r] = NoJti
         /\ UNCHANGED <<now, db, signed, redis, mq, delivered, minted>>
         /\ call[r].tok # NoJti => call' = call
         /\ \/ /\ LookedUp(call[r].tok) = {}
               /\ UNCHANGED call /\ pc' = [pc EXCEPT ![r] = "done"]
               /\ reply' = [reply EXCEPT ![r] = "unauthorized"]
            \/ \E j \in Jti :
                 /\ Exists(j) /\ call[r].tok \in {j, NoJti}
                 /\ call' = [call EXCEPT ![r].tok = j]
                 /\ \/ /\ Usable(sessions[j]) /\ UNCHANGED reply
                       /\ pc' = [pc EXCEPT ![r] = "setBlacklist"]
                    \/ /\ ~Usable(sessions[j])
                       /\ pc' = [pc EXCEPT ![r] = "done"]
                       /\ reply' = [reply EXCEPT ![r] = "unauthorized"]
<1>1. pc[r] = "findSession" /\ call[r].op = "refresh" /\ minted[r] = NoJti
  BY DEF IInv, CallInv, MintInv, OpAt, RefreshFindSession
<1>2. UNCHANGED <<now, db, signed, redis, mq, delivered, minted>>
  BY DEF RefreshFindSession, Answer
<1>3. CASE LookedUp(call[r].tok) = {}
  BY <1>1, <1>2, <1>3 DEF RefreshFindSession, Answer
<1>4. CASE LookedUp(call[r].tok) # {}
  <2>1. PICK j \in LookedUp(call[r].tok) :
          /\ call' = [call EXCEPT ![r].tok = j]
          /\ \/ /\ Usable(sessions[j]) /\ UNCHANGED reply
                /\ pc' = [pc EXCEPT ![r] = "setBlacklist"]
             \/ /\ ~Usable(sessions[j])
                /\ pc' = [pc EXCEPT ![r] = "done"]
                /\ reply' = [reply EXCEPT ![r] = "unauthorized"]
    BY <1>4 DEF RefreshFindSession
  <2>2. j \in Jti /\ Exists(j) /\ call[r].tok \in {j, NoJti}
    BY DEF LookedUp, Exists
  <2>3. call[r].tok # NoJti => call' = call
    BY <2>1, <2>2 DEF IInv, TypeOK, Call
  <2>4. QED
    BY <1>1, <1>2, <2>1, <2>2, <2>3
<1>5. QED
  BY <1>3, <1>4

\* The lookup refuses a revoked session: a late refresh stops here.
LEMMA RefreshFindSessionStep ==
  ASSUME IInv, NEW r \in Request, RefreshFindSession(r)
  PROVE  IInv'
<1>1. /\ call' = [call EXCEPT ![r] = call'[r]] /\ call'[r] \in Call
      /\ call'[r].op = "refresh" /\ call'[r].late = call[r].late
      /\ call'[r].tok # NoJti => Exists(call'[r].tok)
      /\ call[r].tok # NoJti => call'[r] = call[r]
  <2>1. call[r] \in Call
    BY DEF IInv, TypeOK
  <2>2. CASE UNCHANGED call
    BY <2>1, <2>2, LookupCases DEF IInv, TypeOK, MintInv
  <2>3. CASE \E j \in Jti : Exists(j) /\ call' = [call EXCEPT ![r].tok = j]
    BY <2>1, <2>3, LookupCases DEF IInv, TypeOK, Call, TokenId
  <2>4. QED
    BY <2>2, <2>3, LookupCases
<1>2. /\ pc' = [pc EXCEPT ![r] = pc'[r]] /\ reply' = [reply EXCEPT ![r] = reply'[r]]
      /\ \/ pc'[r] = "done" /\ reply'[r] = "unauthorized"
         \/ /\ pc'[r] = "setBlacklist" /\ reply'[r] = reply[r]
            /\ call'[r].tok # NoJti /\ Usable(sessions[call'[r].tok])
  BY LookupCases, IdentityAssumption DEF IInv, TypeOK, Call
<1>3. /\ pc[r] = "findSession" /\ call[r].op = "refresh" /\ minted[r] = NoJti
      /\ UNCHANGED <<now, db, signed, redis, mq, delivered, minted>>
  BY LookupCases
<1>4. TypeOK'
  BY <1>1, <1>2, <1>3 DEF IInv, TypeOK, db, redis, mq
<1>5. CallInv'
  BY <1>1, <1>2, <1>3 DEF IInv, TypeOK, CallInv, Call, OpAt, Token, Accounts
<1>6. MintInv'
  BY <1>1, <1>2, <1>3 DEF IInv, TypeOK, MintInv, Exists, db
<1>7. RevokeInv'
  BY <1>1, <1>2, <1>3 DEF IInv, TypeOK, CallInv, RevokeInv, Usable,
     OpAt, Token, Success, Refresh, Exists, IsRevoked, db
<1>8. QED
  BY <1>4, <1>5, <1>6, <1>7 DEF IInv

\* The blacklist carries none of the invariant.
LEMMA SetBlacklistStep ==
  ASSUME IInv, NEW r \in Request, SetBlacklist(r)
  PROVE  IInv'
<1>1. TypeOK'
  BY SetExType, IdentityAssumption DEF IInv, TypeOK, SetBlacklist,
     BlacklistEntry, Goto, db, mq
<1>2. CallInv'
  BY DEF IInv, TypeOK, CallInv, SetBlacklist, Goto, OpAt, Token, Accounts
<1>3. MintInv'
  BY DEF IInv, TypeOK, MintInv, SetBlacklist, Goto, Exists, db
<1>4. RevokeInv'
  BY DEF IInv, TypeOK, CallInv, RevokeInv, SetBlacklist, Goto, OpAt, Token,
     Success, Refresh, Exists, IsRevoked, db
<1>5. QED
  BY <1>1, <1>2, <1>3, <1>4 DEF IInv

\* The update keeps every row, and revoked rows revoked: the request may
\* now sign a successor, or report success.
LEMMA RevokeStep ==
  ASSUME IInv, NEW r \in Request, Revoke(r)
  PROVE  IInv'
<1>1. TypeOK'
  <2>1. sessions' \in [Jti -> Row \cup {NoRow}]
    BY RevokedRow DEF IInv, TypeOK, Revoke
  <2>2. QED
    BY <2>1 DEF IInv, TypeOK, Revoke, Goto, Finish, Answer, redis, mq
<1>2. CallInv'
  BY DEF IInv, TypeOK, CallInv, Revoke, Revoked, Goto, Finish, Answer, Call,
     OpAt, Token, Accounts
<1>3. MintInv'
  <2>1. \A j \in Jti : Exists(j)' <=> Exists(j)
    BY RevokedRow DEF IInv, TypeOK, Revoke, Exists
  <2>2. QED
    BY <2>1 DEF IInv, TypeOK, CallInv, MintInv, Call, TokenId, Revoke, Goto,
       Finish, Answer, OpAt
<1>4. RevokeInv'
  <2>1. \A j \in Jti : IsRevoked(j) => IsRevoked(j)'
    BY RevokedRow DEF IInv, TypeOK, Revoke, Exists, IsRevoked
  <2>2. call[r].tok # NoJti => IsRevoked(call[r].tok)'
    <3>1. SUFFICES ASSUME call[r].tok # NoJti PROVE IsRevoked(call[r].tok)'
      OBVIOUS
    <3>2. call[r].tok \in Jti /\ Exists(call[r].tok)
      BY <3>1 DEF IInv, TypeOK, MintInv, Call, TokenId
    <3>3. sessions[call[r].tok] \in Row \cup {NoRow}
      BY <3>2 DEF IInv, TypeOK
    <3>4. sessions'[call'[r].tok] = Revoked(sessions[call[r].tok])
      BY <3>2 DEF IInv, TypeOK, Revoke, Goto, Finish, Answer
    <3>5. QED
      BY <3>2, <3>3, <3>4, RevokedRow DEF Exists, IsRevoked
  <2>3. \A q \in Request : call[q].tok # NoJti => call[q].tok \in Jti
    BY DEF IInv, TypeOK, Call, TokenId
  <2>4. QED
    BY <2>1, <2>2, <2>3 DEF IInv, TypeOK, CallInv, RevokeInv, Revoke, Goto,
       Finish, Answer, Token, Success, Refresh, OpAt
<1>5. QED
  BY <1>1, <1>2, <1>3, <1>4 DEF IInv

LEMMA ResetFindStep ==
  ASSUME IInv, NEW r \in Request, ResetFind(r)
  PROVE  IInv'
<1>1. TypeOK'
  BY DEF IInv, TypeOK, ResetFind, Answer, Goto, db, redis, mq, http
<1>2. CallInv'
  BY DEF IInv, TypeOK, CallInv, ResetFind, At, Answer, Goto, Call, OpAt,
     Token, Accounts
<1>3. MintInv'
  BY DEF IInv, TypeOK, MintInv, ResetFind, At, Answer, Goto, Exists, db
<1>4. RevokeInv'
  BY DEF IInv, TypeOK, CallInv, RevokeInv, ResetFind, At, Answer, Goto, OpAt,
     Token, Success, Refresh, Exists, IsRevoked, db
<1>5. QED
  BY <1>1, <1>2, <1>3, <1>4 DEF IInv

\* Verification touches no session.
LEMMA VerifyUpdateStep ==
  ASSUME IInv, NEW r \in Request, VerifyUpdate(r)
  PROVE  IInv'
<1>1. TypeOK'
  BY DEF IInv, TypeOK, VerifyUpdate, Goto, redis, mq
<1>2. CallInv'
  BY DEF IInv, TypeOK, CallInv, VerifyUpdate, Goto, OpAt, Token, Accounts
<1>3. MintInv'
  BY DEF IInv, TypeOK, MintInv, VerifyUpdate, Goto, Exists, db
<1>4. RevokeInv'
  BY DEF IInv, TypeOK, CallInv, RevokeInv, VerifyUpdate, Goto, OpAt, Token,
     Success, Refresh, Exists, IsRevoked, db
<1>5. QED
  BY <1>1, <1>2, <1>3, <1>4 DEF IInv

\* The event names a registered e-mail address.
LEMMA PublishStep ==
  ASSUME IInv, NEW r \in Request, Publish(r)
  PROVE  IInv'
<1>1. TypeOK'
  <2>1. events' \subseteq [key : {"user.created", "user.updated"}, user : User]
    BY DEF IInv, TypeOK, CallInv, Publish, EventKey, OpAt, Accounts
  <2>2. QED
    BY <2>1 DEF IInv, TypeOK, Publish, Goto, Finish, Answer, db, redis
<1>2. CallInv'
  BY DEF IInv, TypeOK, CallInv, Publish, EventKey, Goto, Finish, Answer, Call,
     OpAt, Token, Accounts
<1>3. MintInv'
  BY DEF IInv, TypeOK, MintInv, Publish, EventKey, Goto, Finish, Answer,
     Exists, db
<1>4. RevokeInv'
  BY DEF IInv, TypeOK, CallInv, RevokeInv, Publish, EventKey, Goto, Finish,
     Answer, OpAt, Token, Success, Refresh, Exists, IsRevoked, db
<1>5. QED
  BY <1>1, <1>2, <1>3, <1>4 DEF IInv

\* A fresh token id has no row yet.
LEMMA IssueSignStep ==
  ASSUME IInv, NEW r \in Request, IssueSign(r)
  PROVE  IInv'
<1>1. TypeOK'
  BY IdentityAssumption DEF IInv, TypeOK, IssueSign, db, redis, mq
<1>2. CallInv'
  BY DEF IInv, TypeOK, CallInv, IssueSign, OpAt, Token, Accounts
<1>3. MintInv'
  BY IdentityAssumption DEF IInv, TypeOK, MintInv, IssueSign, Exists, db
<1>4. RevokeInv'
  BY DEF IInv, TypeOK, CallInv, MintInv, RevokeInv, IssueSign, OpAt, Token,
     Success, Refresh, Exists, IsRevoked, db
<1>5. QED
  BY <1>1, <1>2, <1>3, <1>4 DEF IInv

\* The insert takes the fresh id, so it overwrites no revoked row.
LEMMA IssueSaveSessionStep ==
  ASSUME IInv, NEW r \in Request, IssueSaveSession(r)
  PROVE  IInv'
<1>1. TypeOK'
  BY NewRowType DEF IInv, TypeOK, IssueSaveSession, Goto, redis, mq
<1>2. CallInv'
  BY DEF IInv, TypeOK, CallInv, IssueSaveSession, Goto, OpAt, Token, Accounts
<1>3. MintInv'
  <2>1. minted[r] \in Jti /\ ~Exists(minted[r])
    BY DEF IInv, TypeOK, MintInv, IssueSaveSession
  <2>2. \A j \in Jti : Exists(j)' <=> Exists(j) \/ j = minted[r]
    BY <2>1, NewRowType DEF IInv, TypeOK, IssueSaveSession, Exists
  <2>3. QED
    BY <2>1, <2>2 DEF IInv, TypeOK, MintInv, Call, TokenId, IssueSaveSession,
       Goto, redis, mq
<1>4. RevokeInv'
  BY DEF IInv, TypeOK, CallInv, MintInv, RevokeInv, IssueSaveSession, NewRow,
     Subject, Goto, OpAt, Token, Success, Refresh, Exists, IsRevoked
<1>5. QED
  BY <1>1, <1>2, <1>3, <1>4 DEF IInv

\* The token is delivered after its row was inserted.
LEMMA IssueCacheSessionStep ==
  ASSUME IInv, NEW r \in Request, IssueCacheSession(r)
  PROVE  IInv'
<1>1. TypeOK'
  <2>1. minted[r] \in Jti
    BY DEF IInv, TypeOK, MintInv, IssueCacheSession
  <2>2. sessionKey' \in [Jti -> Expiry]
    BY SetExType, IdentityAssumption DEF IInv, TypeOK, IssueCacheSession
  <2>3. QED
    BY <2>1, <2>2 DEF IInv, TypeOK, IssueCacheSession, Finish, Answer, db, mq
<1>2. CallInv'
  BY DEF IInv, TypeOK, CallInv, IssueCacheSession, Finish, Answer, Call, OpAt,
     Token, Accounts
<1>3. MintInv'
  BY DEF IInv, TypeOK, MintInv, IssueCacheSession, Finish, Answer, Exists, db
<1>4. RevokeInv'
  BY DEF IInv, TypeOK, CallInv, RevokeInv, IssueCacheSession, Finish, Answer,
     OpAt, Token, Success, Refresh, Exists, IsRevoked, db
<1>5. QED
  BY <1>1, <1>2, <1>3, <1>4 DEF IInv

\* Failures and restarts stop requests where they are.
LEMMA FailStep ==
  ASSUME IInv, NEW r \in Request, Fail(r)
  PROVE  IInv'
<1>1. TypeOK'
  BY DEF IInv, TypeOK, Fail, InFlight, Answer, db, redis, mq
<1>2. CallInv'
  BY DEF IInv, TypeOK, CallInv, Fail, InFlight, Answer, Call, OpAt, Token,
     Accounts
<1>3. MintInv'
  BY DEF IInv, TypeOK, MintInv, Fail, InFlight, Answer, Exists, db
<1>4. RevokeInv'
  BY DEF IInv, TypeOK, CallInv, RevokeInv, Fail, InFlight, Answer, OpAt,
     Token, Success, Refresh, Exists, IsRevoked, db
<1>5. QED
  BY <1>1, <1>2, <1>3, <1>4 DEF IInv

\* Redis and the broker carry none of the invariant.
LEMMA RedisLosesStep ==
  ASSUME IInv, NEW c \in TokenId, RedisLoses(c)
  PROVE  IInv'
<1>1. TypeOK'
  BY DEF IInv, TypeOK, RedisLoses, Absent, Expiry, db, mq, http
<1>2. CallInv'
  BY DEF IInv, TypeOK, CallInv, RedisLoses, http, OpAt, Token, Accounts
<1>3. MintInv'
  BY DEF IInv, TypeOK, MintInv, RedisLoses, Exists, db, http
<1>4. RevokeInv'
  BY DEF IInv, TypeOK, CallInv, RevokeInv, RedisLoses, OpAt, Token, Success,
     Refresh, Exists, IsRevoked, db, http
<1>5. QED
  BY <1>1, <1>2, <1>3, <1>4 DEF IInv

LEMMA CrashStep ==
  ASSUME IInv, Crash
  PROVE  IInv'
<1>1. TypeOK'
  BY DEF IInv, TypeOK, Crash, InFlight, db, redis, mq
<1>2. CallInv'
  BY DEF IInv, TypeOK, CallInv, Crash, InFlight, Call, OpAt, Token, Accounts
<1>3. MintInv'
  BY DEF IInv, TypeOK, MintInv, Crash, InFlight, Exists, db
<1>4. RevokeInv'
  BY DEF IInv, TypeOK, CallInv, RevokeInv, Crash, InFlight, OpAt, Token,
     Success, Refresh, Exists, IsRevoked, db
<1>5. QED
  BY <1>1, <1>2, <1>3, <1>4 DEF IInv

LEMMA BrokerDownStep ==
  ASSUME IInv, BrokerDown
  PROVE  IInv'
<1>1. TypeOK'
  BY DEF IInv, TypeOK, BrokerDown, db, redis, http
<1>2. CallInv'
  BY DEF IInv, TypeOK, CallInv, BrokerDown, http, OpAt, Token, Accounts
<1>3. MintInv'
  BY DEF IInv, TypeOK, MintInv, BrokerDown, Exists, db, http
<1>4. RevokeInv'
  BY DEF IInv, TypeOK, CallInv, RevokeInv, BrokerDown, OpAt, Token, Success,
     Refresh, Exists, IsRevoked, db, http
<1>5. QED
  BY <1>1, <1>2, <1>3, <1>4 DEF IInv

LEMMA BrokerUpStep ==
  ASSUME IInv, BrokerUp
  PROVE  IInv'
<1>1. TypeOK'
  BY DEF IInv, TypeOK, BrokerUp, db, redis, http
<1>2. CallInv'
  BY DEF IInv, TypeOK, CallInv, BrokerUp, http, OpAt, Token, Accounts
<1>3. MintInv'
  BY DEF IInv, TypeOK, MintInv, BrokerUp, Exists, db, http
<1>4. RevokeInv'
  BY DEF IInv, TypeOK, CallInv, RevokeInv, BrokerUp, OpAt, Token, Success,
     Refresh, Exists, IsRevoked, db, http
<1>5. QED
  BY <1>1, <1>2, <1>3, <1>4 DEF IInv

LEMMA TickStep ==
  ASSUME IInv, Tick
  PROVE  IInv'
<1>1. TypeOK'
  BY DEF IInv, TypeOK, Tick, db, redis, mq, http
<1>2. CallInv'
  BY DEF IInv, TypeOK, CallInv, Tick, http, OpAt, Token, Accounts
<1>3. MintInv'
  BY DEF IInv, TypeOK, MintInv, Tick, Exists, db, http
<1>4. RevokeInv'
  BY DEF IInv, TypeOK, CallInv, RevokeInv, Tick, OpAt, Token, Success,
     Refresh, Exists, IsRevoked, db, http
<1>5. QED
  BY <1>1, <1>2, <1>3, <1>4 DEF IInv

\* Every step keeps the invariant.
LEMMA NextIInv == IInv /\ [Next]_vars => IInv'
<1> SUFFICES ASSUME IInv, [Next]_vars PROVE IInv'
  OBVIOUS
<1>1. ASSUME NEW r \in Request, Client(r) PROVE IInv'
  BY <1>1, ArriveStep, PresentStep DEF Client
<1>2. ASSUME NEW r \in Request, Handler(r) PROVE IInv'
  BY <1>2, RegisterFindStep, RegisterSaveStep, LoginFindStep,
     RefreshGetBlacklistStep, RefreshFindSessionStep, SetBlacklistStep,
     RevokeStep, ResetFindStep, VerifyUpdateStep, PublishStep, IssueSignStep,
     IssueSaveSessionStep, IssueCacheSessionStep DEF Handler
<1>3. CASE UNCHANGED vars
  BY <1>3 DEF vars, db, redis, mq, http, IInv, TypeOK, CallInv, MintInv,
     RevokeInv, Token, Success, Refresh, Exists, IsRevoked
<1>4. QED
  BY <1>1, <1>2, <1>3, FailStep, CrashStep, RedisLosesStep, BrokerDownStep,
     BrokerUpStep, TickStep DEF Next

\* So it holds in every reachable state.
LEMMA IInvInvariant == Spec => []IInv
<1>1. Init => IInv
  BY InitIInv
<1>2. IInv /\ [Next]_vars => IInv'
  BY NextIInv
<1>3. QED
  BY <1>1, <1>2, PTL DEF Spec

-----------------------------------------------------------------------------
(* Every variable keeps its type, whatever the constants.                  *)
THEOREM TypeCorrect == Spec => []TypeOK
<1>1. IInv => TypeOK
  BY DEF IInv
<1>2. QED
  BY <1>1, IInvInvariant, PTL

(* Once a client has been told that its refresh token was exchanged or     *)
(* logged out, a refresh that arrives later never gets a new pair, whatever *)
(* Redis forgets and whichever handlers fail or crash.                     *)
THEOREM LateExchange == Spec => []NoLateExchange
<1>1. IInv => NoLateExchange
  BY DEF IInv, RevokeInv, NoLateExchange
<1>2. QED
  BY <1>1, IInvInvariant, PTL

(* The predecessor's session is revoked before a new pair is signed.       *)
THEOREM Predecessor == Spec => []PredecessorRevoked
<1>1. IInv => PredecessorRevoked
  BY DEF IInv, RevokeInv, PredecessorRevoked
<1>2. QED
  BY <1>1, IInvInvariant, PTL

-----------------------------------------------------------------------------
(* The refinement of RefreshRotation.                                      *)

\* A step that leaves the sessions alone and gives no request a claim at
\* most drops claims.
LEMMA DropsClaims ==
  ASSUME UNCHANGED sessions, Claims' \subseteq Claims
  PROVE  Rotation!Next
<1>1. Status' = Status
  BY DEF Status, IsRevoked, Exists
<1>2. Rotation!Drop(Claims \ Claims')
  BY <1>1 DEF Rotation!Drop
<1>3. Claims \ Claims' \in SUBSET Claims
  OBVIOUS
<1>4. QED
  BY <1>2, <1>3 DEF Rotation!Next

\* The lookup claims the session that it finds active, or answers.
LEMMA ClaimStep ==
  ASSUME IInv, NEW r \in Request, RefreshFindSession(r)
  PROVE  Rotation!Next
<1>1. pc[r] = "findSession" /\ Refresh(r) /\ UNCHANGED sessions
  BY LookupCases DEF Refresh, db
<1>2. CASE pc' = [pc EXCEPT ![r] = "done"]
  <2>1. \A q \in Request \ {r} : call'[q] = call[q] /\ pc'[q] = pc[q]
    BY <1>2, LookupCases DEF IInv, TypeOK
  <2>2. Claims' \subseteq Claims
    BY <1>2, <2>1 DEF IInv, TypeOK, Claims, HoldsClaim, Refresh
  <2>3. QED
    BY <1>1, <2>2, DropsClaims
<1>3. CASE pc' # [pc EXCEPT ![r] = "done"]
  <2>1. PICK j \in Jti : /\ Exists(j) /\ Usable(sessions[j])
                         /\ call' = [call EXCEPT ![r].tok = j]
                         /\ pc' = [pc EXCEPT ![r] = "setBlacklist"]
    BY <1>3, LookupCases
  <2>2. Status[j] = "active" /\ Status' = Status
    BY <1>1, <2>1 DEF Status, Usable, IsRevoked, Exists
  <2>3. Claims' = Claims \cup {<<r, j>>}
    <3>1. /\ \A q \in Request \ {r} : call'[q] = call[q] /\ pc'[q] = pc[q]
          /\ call'[r].op = "refresh" /\ call'[r].tok = j /\ pc'[r] = "setBlacklist"
      BY <1>1, <2>1 DEF IInv, TypeOK, Call, Refresh
    <3>2. ~HoldsClaim(r) /\ HoldsClaim(r)'
      BY <1>1, <3>1 DEF HoldsClaim, Refresh
    <3>3. \A q \in Request \ {r} : HoldsClaim(q)' <=> HoldsClaim(q)
      BY <3>1 DEF HoldsClaim, Refresh
    <3>4. QED
      BY <3>1, <3>2, <3>3 DEF Claims
  <2>4. Rotation!Claim(r, j)
    BY <2>2, <2>3 DEF Rotation!Claim
  <2>5. QED
    BY <2>4 DEF Rotation!Next
<1>4. QED
  BY <1>2, <1>3

\* Revoking an active session is Revoke, revoking it again or without the id
\* of one is a stutter.
LEMMA RevokesOnce ==
  ASSUME IInv, NEW r \in Request, Revoke(r)
  PROVE  [Rotation!Next]_(Rotation!vars)
<1> DEFINE tok == call[r].tok
<1>1. pc[r] = "revoke" /\ (tok # NoJti => tok \in Jti /\ Exists(tok))
  BY DEF IInv, TypeOK, MintInv, Call, TokenId, Revoke
<1>2. Claims' = Claims
  <2>1. UNCHANGED call
    BY DEF Revoke, Goto, Finish, Answer
  <2>2. /\ pc' = [pc EXCEPT ![r] = pc'[r]]
        /\ pc'[r] = IF Refresh(r) THEN "sign" ELSE "done"
    BY DEF IInv, TypeOK, Revoke, Goto, Finish, Answer, Refresh
  <2>3. QED
    BY <1>1, <2>1, <2>2 DEF IInv, TypeOK, Claims, HoldsClaim, Refresh
<1>3. CASE tok = NoJti
  <2>1. \A j \in Jti : sessions'[j] = sessions[j]
    BY <1>3, IdentityAssumption DEF Revoke
  <2>2. Status' = Status
    BY <2>1 DEF Status, IsRevoked, Exists
  <2>3. QED
    BY <1>2, <2>2 DEF Rotation!vars
<1>4. CASE tok # NoJti
  <2>1. Status' = [Status EXCEPT ![tok] = "revoked"]
    <3>1. \A j \in Jti : sessions'[j] = IF j = tok THEN Revoked(sessions[j])
                                                 ELSE sessions[j]
      BY DEF Revoke
    <3>2. \A j \in Jti : j # tok => Status'[j] = Status[j]
      BY <3>1 DEF Status, IsRevoked, Exists
    <3>3. Status'[tok] = "revoked"
      BY <1>1, <1>4, <3>1, RevokedRow DEF IInv, TypeOK, Status, IsRevoked, Exists
    <3>4. /\ Status  = [j \in Jti |-> Status[j]]
          /\ Status' = [j \in Jti |-> Status'[j]]
      BY DEF Status
    <3>5. QED
      BY <1>1, <1>4, <3>2, <3>3, <3>4
  <2>2. CASE IsRevoked(tok)
    <3>1. Status[tok] = "revoked"
      BY <1>1, <1>4, <2>2 DEF Status, IsRevoked, Exists
    <3>2. Status' = Status
      BY <2>1, <3>1 DEF Status
    <3>3. QED
      BY <1>2, <3>2 DEF Rotation!vars
  <2>3. CASE ~IsRevoked(tok)
    <3>1. Status[tok] = "active"
      BY <1>1, <1>4, <2>3 DEF Status, Exists
    <3>2. Rotation!Revoke(tok)
      BY <1>2, <2>1, <3>1 DEF Rotation!Revoke
    <3>3. QED
      BY <1>1, <1>4, <3>2 DEF Rotation!Next
  <2>4. QED
    BY <2>2, <2>3
<1>5. QED
  BY <1>3, <1>4

\* Saving a session opens it, and for a refresh it spends the claim on a
\* predecessor that is revoked by then.
LEMMA SaveOpens ==
  ASSUME IInv, NEW r \in Request, IssueSaveSession(r)
  PROVE  Rotation!Next
<1> DEFINE tok == call[r].tok
           new == minted[r]
<1>1. new \in Jti /\ ~Exists(new) /\ pc[r] = "saveSession"
  BY DEF IInv, TypeOK, MintInv, IssueSaveSession
<1>2. UNCHANGED call /\ pc' = [pc EXCEPT ![r] = "cacheSession"]
  BY DEF IssueSaveSession, Goto
<1>3. Status[new] = "none" /\ Status' = [Status EXCEPT ![new] = "active"]
  <2>1. \A j \in Jti : sessions'[j] = IF j = new THEN NewRow(Subject(r))
                                               ELSE sessions[j]
    BY <1>1 DEF IInv, TypeOK, IssueSaveSession
  <2>2. NewRow(Subject(r)) # NoRow /\ ~NewRow(Subject(r)).revoked
    BY <1>1, NewRowType DEF NewRow
  <2>3. \A j \in Jti : j # new => Status'[j] = Status[j]
    BY <2>1 DEF Status, IsRevoked, Exists
  <2>4. Status'[new] = "active"
    BY <1>1, <2>1, <2>2 DEF Status, IsRevoked, Exists
  <2>5. Status[new] = "none"
    BY <1>1 DEF Status, IsRevoked, Exists
  <2>6. /\ Status  = [j \in Jti |-> Status[j]]
        /\ Status' = [j \in Jti |-> Status'[j]]
    BY DEF Status
  <2>7. QED
    BY <1>1, <2>3, <2>4, <2>5, <2>6
<1>4. CASE Refresh(r)
  <2>1. tok \in Jti /\ IsRevoked(tok)
    BY <1>1, <1>4 DEF IInv, TypeOK, CallInv, RevokeInv, Call, TokenId, Refresh
  <2>2. Status[tok] = "revoked"
    BY <2>1 DEF Status, IsRevoked, Exists
  <2>3. <<r, tok>> \in Claims /\ Claims' = Claims \ {<<r, tok>>}
    BY <1>1, <1>2, <1>4 DEF IInv, TypeOK, Claims, HoldsClaim, Refresh
  <2>4. Rotation!Exchange(r, tok, new)
    BY <1>3, <2>2, <2>3 DEF Rotation!Exchange
  <2>5. QED
    BY <1>1, <2>1, <2>4 DEF Rotation!Next
<1>5. CASE ~Refresh(r)
  <2>1. Claims' = Claims
    BY <1>2, <1>5 DEF IInv, TypeOK, Claims, HoldsClaim, Refresh
  <2>2. Rotation!Open(new)
    BY <1>3, <2>1 DEF Rotation!Open
  <2>3. QED
    BY <1>1, <2>2 DEF Rotation!Next
<1>6. QED
  BY <1>4, <1>5

\* Every other step leaves the sessions alone and gives no claim.
LEMMA StepRefines ==
  ASSUME IInv, [Next]_vars
  PROVE  [Rotation!Next]_(Rotation!vars)
<1> USE DEF Claims, HoldsClaim, Refresh
<1>1. ASSUME NEW r \in Request, Client(r) PROVE Rotation!Next
  <2>1. ASSUME NEW op \in Ops \cap Accounts, NEW u \in User, Arrive(r, op, u)
        PROVE  Rotation!Next
    BY <2>1, DropsClaims DEF IInv, TypeOK, Arrive, Accounts, db
  <2>2. ASSUME NEW op \in Ops \ Accounts, NEW kind \in Presented, NEW j \in delivered,
               Present(r, op, kind, j)
        PROVE  Rotation!Next
    <3>1. UNCHANGED sessions
      BY <2>2 DEF Present, db
    <3>2. /\ call' = [call EXCEPT ![r] = call'[r]] /\ call'[r].op = op
          /\ pc' = [pc EXCEPT ![r] = pc'[r]]
          /\ op = "refresh" => pc'[r] \in {"getBlacklist", "done"}
      BY <2>2 DEF IInv, TypeOK, Present
    <3>3. QED
      BY <3>1, <3>2, DropsClaims DEF IInv, TypeOK
  <2>3. QED
    BY <1>1, <2>1, <2>2 DEF Client
<1>2. ASSUME NEW r \in Request, Handler(r) PROVE [Rotation!Next]_(Rotation!vars)
  <2>1. CASE RegisterFind(r) \/ LoginFind(r) \/ ResetFind(r)
    BY <2>1, DropsClaims
       DEF IInv, TypeOK, RegisterFind, LoginFind, ResetFind, At, Answer, Goto, db
  <2>2. CASE RegisterSave(r) \/ VerifyUpdate(r) \/ Publish(r)
    BY <2>2, DropsClaims
       DEF IInv, TypeOK, CallInv, OpAt, RegisterSave, VerifyUpdate, Publish,
           Finish, Answer, Goto, db
  <2>3. CASE RefreshGetBlacklist(r) \/ SetBlacklist(r)
    BY <2>3, DropsClaims
       DEF IInv, TypeOK, RefreshGetBlacklist, SetBlacklist, Answer, Goto, db
  <2>4. CASE IssueSign(r) \/ IssueCacheSession(r)
    BY <2>4, DropsClaims
       DEF IInv, TypeOK, IssueSign, IssueCacheSession, Finish, Answer, db
  <2>5. QED
    BY <1>2, <2>1, <2>2, <2>3, <2>4, ClaimStep, RevokesOnce, SaveOpens
       DEF Handler
<1>3. ASSUME NEW r \in Request, Fail(r) PROVE Rotation!Next
  BY <1>3, DropsClaims DEF IInv, TypeOK, Fail, InFlight, Answer, db
<1>4. CASE Crash
  BY <1>4, DropsClaims DEF IInv, TypeOK, Crash, InFlight, db
<1>5. CASE \/ \E c \in TokenId : RedisLoses(c)
           \/ BrokerDown \/ BrokerUp \/ Tick
  BY <1>5, DropsClaims DEF RedisLoses, BrokerDown, BrokerUp, Tick, db, http
<1>6. CASE UNCHANGED vars
  BY <1>6, DropsClaims DEF vars, db, http
<1>7. QED
  BY <1>1, <1>2, <1>3, <1>4, <1>5, <1>6 DEF Next

(* Every behaviour of the service is one of the rotation protocol: whatever *)
(* fails, no session is reinstated and each successor is bought with one    *)
(* claim on a session that was active and has been revoked.                 *)
THEOREM RefinesRotation == Spec => RotationSpec
<1>1. Init => Rotation!Init
  <2>1. Init => Status = [j \in Jti |-> "none"]
    BY DEF Init, Status, IsRevoked, Exists
  <2>2. Init => Claims = {}
    BY DEF Init, Claims, HoldsClaim
  <2>3. QED
    BY <2>1, <2>2 DEF Rotation!Init
<1>2. IInv /\ [Next]_vars => [Rotation!Next]_(Rotation!vars)
  BY StepRefines
<1>3. QED
  BY <1>1, <1>2, IInvInvariant, PTL DEF Spec, RotationSpec, Rotation!Spec
=============================================================================
