-------------------------- MODULE AccessTokens_proofs --------------------------
(***************************************************************************)
(* Proofs about AccessTokens, for any number of users, requests, roles and *)
(* edits, and any times to live; and about SampleService, which trusts     *)
(* those tokens, for an array of any length.                               *)
(***************************************************************************)
EXTENDS SampleService, SequenceTheorems, TLAPS

-----------------------------------------------------------------------------
(* The inductive invariant.                                                *)

InFlight(r)  == pc[r] \in {"sign", "signRefresh", "save", "answer"}
Signed(r)    == pc[r] \in {"signRefresh", "save", "answer", "done"}
TwoSigned(r) == pc[r] \in {"save", "answer", "done"}

\* Issuing takes no longer than MaxIssue, and the tokens are signed in between.
ExpInv(r) ==
  /\ InFlight(r) => now <= readAt[r] + MaxIssue
  /\ Signed(r) => /\ exp[r] \in (readAt[r] + AccessTtl)..(readAt[r] + Window)
                  /\ exp[r] <= now + AccessTtl
  /\ TwoSigned(r) => refreshExp[r] <= now + RefreshTtl
  /\ pc[r] = "done" => expected[r] \in exp[r]..(exp[r] + MaxIssue)

\* A session begins between signing and the answer; it is ended by those
\* who have the answer, when neither token has more than its time to live to
\* go.
SessionInv(r) ==
  /\ session[r] # "none" => pc[r] \in {"answer", "done", "failed"}
  /\ pc[r] \in {"answer", "done"} => session[r] # "none"
  /\ session[r] = "revoked" => /\ pc[r] = "done"
                               /\ exp[r] <= endedAt[r] + AccessTtl
                               /\ refreshExp[r] <= endedAt[r] + RefreshTtl

\* The claims are a reading of the table of readAt, which is remembered for
\* as long as the token can be accepted.
ClaimsInv(r) ==
  InFlight(r) \/ AcceptsAccess(r) =>
    \E past \in seen : past[1] = readAt[r] /\ claims[r] = RoleNames(past[2], sub[r])

IInv ==
  /\ TypeOK
  /\ <<now, db>> \in seen
  /\ \A r \in Request : ExpInv(r) /\ SessionInv(r) /\ ClaimsInv(r)

-----------------------------------------------------------------------------
\* A remembered token is not remembered for ever.
LEMMA WindowNat == Window \in Nat /\ MaxIssue < Window /\ AccessTtl \in Nat
BY TokensAssumption DEF Window

\* The names of the roles of a set of rows are names of roles.
LEMMA RoleNamesType ==
  ASSUME NEW rows \in SUBSET Row, NEW user
  PROVE  RoleNames(rows, user) \in SUBSET {row.role.name : row \in Row}
BY DEF RoleNames

\* Nobody has asked for a token yet.
LEMMA InitIInv == Init => IInv
<1> SUFFICES ASSUME Init PROVE IInv
  OBVIOUS
<1>1. TypeOK
  BY TokensAssumption DEF Init, TypeOK
<1>2. QED
  BY <1>1 DEF Init, IInv, ExpInv, SessionInv, ClaimsInv, InFlight, Signed, TwoSigned, AcceptsAccess

-----------------------------------------------------------------------------
(* One lemma per action.                                                   *)

\* What a request does not touch stays as it was for the others.
LEMMA Others ==
  ASSUME IInv, NEW q \in Request, UNCHANGED <<now, db, seen>>,
         pc'[q] = pc[q], sub'[q] = sub[q], claims'[q] = claims[q],
         readAt'[q] = readAt[q], exp'[q] = exp[q],
         refreshExp'[q] = refreshExp[q], expected'[q] = expected[q],
         session'[q] = session[q], endedAt'[q] = endedAt[q]
  PROVE  (ExpInv(q) /\ SessionInv(q) /\ ClaimsInv(q))'
BY DEF IInv, ExpInv, SessionInv, ClaimsInv, InFlight, Signed, TwoSigned, AcceptsAccess

\* The roles are those of this moment.
LEMMA ReadRolesStep ==
  ASSUME IInv, NEW r \in Request, NEW user \in User, ReadRoles(r, user)
  PROVE  IInv'
<1>1. TypeOK'
  BY RoleNamesType DEF IInv, TypeOK, ReadRoles, table, sessions
<1>2. (ExpInv(r) /\ SessionInv(r) /\ ClaimsInv(r))'
  <2>1. ExpInv(r)'
    BY TokensAssumption
       DEF IInv, TypeOK, ReadRoles, ExpInv, InFlight, Signed, TwoSigned, table, sessions
  <2>2. SessionInv(r)'
    BY DEF IInv, TypeOK, ReadRoles, SessionInv, table, sessions
  <2>3. ClaimsInv(r)'
    <3>1. <<now, db>> \in seen' /\ readAt'[r] = now /\ sub'[r] = user
          /\ claims'[r] = RoleNames(db, user)
      BY DEF IInv, TypeOK, ReadRoles, table
    <3>2. QED
      BY <3>1 DEF ClaimsInv
  <2>4. QED
    BY <2>1, <2>2, <2>3
<1>3. ASSUME NEW q \in Request, q # r
      PROVE  (ExpInv(q) /\ SessionInv(q) /\ ClaimsInv(q))'
  BY <1>3, Others DEF IInv, TypeOK, ReadRoles, table, sessions
<1>4. QED
  BY <1>1, <1>2, <1>3 DEF IInv, ReadRoles, table

\* The token expires AccessTtl after it is signed.
LEMMA SignStep ==
  ASSUME IInv, NEW r \in Request, Sign(r)
  PROVE  IInv'
<1>1. TypeOK'
  BY TokensAssumption DEF IInv, TypeOK, SessionInv, Sign, SignAccess, table, sessions
<1>2. (ExpInv(r) /\ SessionInv(r) /\ ClaimsInv(r))'
  <2>1. ExpInv(r)'
    BY TokensAssumption, WindowNat
       DEF IInv, TypeOK, Sign, SignAccess, ExpInv, InFlight, Signed, TwoSigned, Window,
           table, sessions
  <2>2. SessionInv(r)'
    BY DEF IInv, TypeOK, Sign, SessionInv, table, sessions
  <2>3. ClaimsInv(r)'
    BY DEF IInv, TypeOK, Sign, ClaimsInv, InFlight, table, sessions
  <2>4. QED
    BY <2>1, <2>2, <2>3
<1>3. ASSUME NEW q \in Request, q # r
      PROVE  (ExpInv(q) /\ SessionInv(q) /\ ClaimsInv(q))'
  BY <1>3, Others DEF IInv, TypeOK, Sign, SignAccess, table, sessions
<1>4. QED
  BY <1>1, <1>2, <1>3 DEF IInv, Sign, table

\* The refresh token expires RefreshTtl after it is signed.
LEMMA SignRefreshStep ==
  ASSUME IInv, NEW r \in Request, SignRefresh(r)
  PROVE  IInv'
<1>1. TypeOK'
  BY TokensAssumption DEF IInv, TypeOK, SessionInv, SignRefresh, table, sessions
<1>2. (ExpInv(r) /\ SessionInv(r) /\ ClaimsInv(r))'
  <2>1. ExpInv(r)'
    BY TokensAssumption
       DEF IInv, TypeOK, SignRefresh, ExpInv, InFlight, Signed, TwoSigned, table,
           sessions
  <2>2. SessionInv(r)'
    BY DEF IInv, TypeOK, SignRefresh, SessionInv, table, sessions
  <2>3. ClaimsInv(r)'
    BY DEF IInv, TypeOK, SignRefresh, ClaimsInv, InFlight, table, sessions
  <2>4. QED
    BY <2>1, <2>2, <2>3
<1>3. ASSUME NEW q \in Request, q # r
      PROVE  (ExpInv(q) /\ SessionInv(q) /\ ClaimsInv(q))'
  BY <1>3, Others DEF IInv, TypeOK, SignRefresh, table, sessions
<1>4. QED
  BY <1>1, <1>2, <1>3 DEF IInv, SignRefresh, table

\* The session is there before the answer.
LEMMA SaveSessionStep ==
  ASSUME IInv, NEW r \in Request, SaveSession(r)
  PROVE  IInv'
<1>1. exp[r] # 0
  BY TokensAssumption DEF IInv, TypeOK, ExpInv, SaveSession, Signed
<1>2. TypeOK'
  BY <1>1 DEF IInv, TypeOK, SaveSession, table
<1>3. (ExpInv(r) /\ SessionInv(r) /\ ClaimsInv(r))'
  <2>1. ExpInv(r)'
    BY DEF IInv, TypeOK, SaveSession, ExpInv, InFlight, Signed, TwoSigned, table
  <2>2. SessionInv(r)'
    BY DEF IInv, TypeOK, SaveSession, SessionInv, table
  <2>3. ClaimsInv(r)'
    BY DEF IInv, TypeOK, SaveSession, ClaimsInv, InFlight, table
  <2>4. QED
    BY <2>1, <2>2, <2>3
<1>4. ASSUME NEW q \in Request, q # r
      PROVE  (ExpInv(q) /\ SessionInv(q) /\ ClaimsInv(q))'
  BY <1>4, Others DEF IInv, TypeOK, SaveSession, table
<1>5. QED
  BY <1>2, <1>3, <1>4 DEF IInv, SaveSession, table

\* The answer leaves between the signature and MaxIssue after the reading.
LEMMA AnswerStep ==
  ASSUME IInv, NEW r \in Request, Answer(r)
  PROVE  IInv'
<1>1. TypeOK'
  BY TokensAssumption DEF IInv, TypeOK, Answer, ExpiresIn, table, sessions
<1>2. (ExpInv(r) /\ SessionInv(r) /\ ClaimsInv(r))'
  <2>1. ExpInv(r)'
    BY TokensAssumption, WindowNat
       DEF IInv, TypeOK, Answer, ExpiresIn, ExpInv, InFlight, Signed, TwoSigned, table, sessions
  <2>2. SessionInv(r)'
    BY DEF IInv, TypeOK, Answer, SessionInv, table, sessions
  <2>3. ClaimsInv(r)'
    BY DEF IInv, TypeOK, Answer, ClaimsInv, InFlight, table, sessions
  <2>4. QED
    BY <2>1, <2>2, <2>3
<1>3. ASSUME NEW q \in Request, q # r
      PROVE  (ExpInv(q) /\ SessionInv(q) /\ ClaimsInv(q))'
  BY <1>3, Others DEF IInv, TypeOK, Answer, table, sessions
<1>4. QED
  BY <1>1, <1>2, <1>3 DEF IInv, Answer, table

\* Tokens that never reach a client are accepted by nobody.
LEMMA FailStep ==
  ASSUME IInv, NEW r \in Request, Fail(r)
  PROVE  IInv'
<1>1. TypeOK'
  BY DEF IInv, TypeOK, Fail, table, sessions
<1>2. (ExpInv(r) /\ SessionInv(r) /\ ClaimsInv(r))'
  BY DEF IInv, TypeOK, Fail, ExpInv, SessionInv, ClaimsInv, InFlight, Signed, TwoSigned,
         AcceptsAccess, table, sessions
<1>3. ASSUME NEW q \in Request, q # r
      PROVE  (ExpInv(q) /\ SessionInv(q) /\ ClaimsInv(q))'
  BY <1>3, Others DEF IInv, TypeOK, Fail, table, sessions
<1>4. QED
  BY <1>1, <1>2, <1>3 DEF IInv, Fail, table

\* At the end of its session a token has at most AccessTtl to go.
LEMMA RevokeStep ==
  ASSUME IInv, NEW r \in Request, Revoke(r)
  PROVE  IInv'
<1>1. TypeOK'
  BY DEF IInv, TypeOK, Revoke, table, requests
<1>2. (ExpInv(r) /\ SessionInv(r) /\ ClaimsInv(r))'
  <2>1. ExpInv(r)'
    BY DEF IInv, Revoke, ExpInv, InFlight, Signed, TwoSigned, table, requests
  <2>2. SessionInv(r)'
    BY DEF IInv, TypeOK, Revoke, ExpInv, SessionInv, Signed, TwoSigned, table,
           requests
  <2>3. ClaimsInv(r)'
    BY DEF IInv, Revoke, ClaimsInv, InFlight, AcceptsAccess, table, requests
  <2>4. QED
    BY <2>1, <2>2, <2>3
<1>3. ASSUME NEW q \in Request, q # r
      PROVE  (ExpInv(q) /\ SessionInv(q) /\ ClaimsInv(q))'
  BY <1>3, Others DEF IInv, TypeOK, Revoke, table, requests
<1>4. QED
  BY <1>1, <1>2, <1>3 DEF IInv, Revoke, table

\* An edit adds to the history and removes nothing from it.
LEMMA EditStep ==
  ASSUME IInv, Edit
  PROVE  IInv'
<1>1. db' \subseteq Row /\ edits' \in 0..MaxEdits
  BY TokensAssumption DEF IInv, TypeOK, Edit
<1>2. TypeOK'
  BY <1>1 DEF IInv, TypeOK, Edit, requests, sessions
<1>3. <<now, db>>' \in seen' /\ seen \subseteq seen'
  BY DEF Edit
<1>4. ASSUME NEW q \in Request
      PROVE  (ExpInv(q) /\ SessionInv(q) /\ ClaimsInv(q))'
  <2>1. ExpInv(q)'
    BY DEF IInv, Edit, ExpInv, InFlight, Signed, TwoSigned, requests, sessions
  <2>2. SessionInv(q)'
    BY DEF IInv, Edit, SessionInv, requests, sessions
  <2>3. ClaimsInv(q)'
    BY <1>3 DEF IInv, Edit, ClaimsInv, InFlight, AcceptsAccess, requests, sessions
  <2>4. QED
    BY <2>1, <2>2, <2>3
<1>5. QED
  BY <1>2, <1>3, <1>4 DEF IInv

\* The clock forgets only what no token that is accepted was made from.
LEMMA TickStep ==
  ASSUME IInv, Tick
  PROVE  IInv'
<1>1. now' = now + 1 /\ now \in Nat
  BY DEF IInv, TypeOK, Tick
<1>2. TypeOK'
  BY <1>1 DEF IInv, TypeOK, Tick, requests, sessions
<1>3. <<now, db>>' \in seen'
  BY DEF Tick
<1>4. ASSUME NEW q \in Request
      PROVE  (ExpInv(q) /\ SessionInv(q) /\ ClaimsInv(q))'
  <2>1. ExpInv(q)'
    BY <1>1, TokensAssumption
       DEF IInv, TypeOK, Tick, ExpInv, InFlight, Signed, TwoSigned, requests, sessions
  <2>2. SessionInv(q)'
    BY DEF IInv, Tick, SessionInv, requests, sessions
  <2>3. ClaimsInv(q)'
    <3> SUFFICES ASSUME (InFlight(q) \/ AcceptsAccess(q))' PROVE ClaimsInv(q)'
      BY DEF ClaimsInv
    <3>1. InFlight(q) \/ AcceptsAccess(q)
      BY <1>1 DEF IInv, TypeOK, Tick, InFlight, AcceptsAccess, requests
    <3>2. PICK past \in seen : /\ past[1] = readAt[q]
                               /\ claims[q] = RoleNames(past[2], sub[q])
      BY <3>1 DEF IInv, ClaimsInv
    <3>3. now + 1 < readAt[q] + Window
      <4>1. CASE InFlight(q)
        BY <4>1, WindowNat, TokensAssumption DEF IInv, TypeOK, Tick, InFlight
      <4>2. CASE ~InFlight(q)
        BY <1>1, <4>2, WindowNat
           DEF IInv, TypeOK, Tick, InFlight, AcceptsAccess, ExpInv, Signed, requests
      <4>3. QED
        BY <4>1, <4>2
    <3>4. past \in seen'
      BY <1>1, <3>2, <3>3 DEF Tick
    <3>5. QED
      BY <3>2, <3>4 DEF ClaimsInv, Tick, requests
  <2>4. QED
    BY <2>1, <2>2, <2>3
<1>5. QED
  BY <1>2, <1>3, <1>4 DEF IInv

LEMMA StutterStep ==
  ASSUME IInv, UNCHANGED vars
  PROVE  IInv'
BY DEF IInv, TypeOK, ExpInv, SessionInv, ClaimsInv, InFlight, Signed, TwoSigned, AcceptsAccess,
       vars, table, requests, sessions

\* Every step keeps the invariant.
LEMMA NextIInv == IInv /\ [Next]_vars => IInv'
BY ReadRolesStep, SignStep, SignRefreshStep, SaveSessionStep, AnswerStep, FailStep, RevokeStep,
   EditStep, TickStep, StutterStep DEF Next, Issue

\* What every reachable state satisfies.
LEMMA Invariant == Spec => []IInv
BY InitIInv, NextIInv, PTL DEF Spec

-----------------------------------------------------------------------------
(* The properties.                                                         *)

\* What is answered has been signed and has its session (issueTokens()).
THEOREM TypeCorrect == Spec => []TypeOK
<1>1. IInv => TypeOK
  BY DEF IInv
<1>2. QED
  BY <1>1, Invariant, PTL

\* The roles in an accepted token are those of one moment of the last
\* AccessTtl + MaxIssue ticks.
THEOREM RecentClaims == Spec => []ClaimsOfOneMoment
<1>1. IInv => ClaimsOfOneMoment
  BY DEF IInv, ClaimsInv, ClaimsOfOneMoment
<1>2. QED
  BY <1>1, Invariant, PTL

\* An access token does not outlive the end of its session by more than
\* AccessTtl, nor a refresh token, as a bearer token, by more than RefreshTtl.
THEOREM EndsAfterLogout == Spec => []BearerEndsAfterLogout
<1>1. IInv => BearerEndsAfterLogout
  BY TokensAssumption
     DEF IInv, TypeOK, SessionInv, BearerEndsAfterLogout, AcceptsAccess,
         AcceptsRefresh
<1>2. QED
  BY <1>1, Invariant, PTL

\* A client that counts expiresIn is wrong by at most MaxIssue ticks.
THEOREM CountedFromAnswer == Spec => []ExpiresInIsClose
<1>1. IInv => ExpiresInIsClose
  BY DEF IInv, ExpInv, ExpiresInIsClose
<1>2. QED
  BY <1>1, Invariant, PTL

\* A row of user_roles is its user, and the name and service of its role.
LEMMA RoleOfRow ==
  ASSUME IInv, NEW r \in Request, NEW row \in Row
  PROVE  row \in db /\ row.user = sub[r] =>
           HasRole(db, sub[r], row.role.name, row.role.service)
BY TokensAssumption DEF HasRole

\* Once user_roles is left alone, a local check of the claims and RolesGuard
\* agree, up to the service.
THEOREM LocalChecks == Spec => []LocalCheckAgrees
<1>1. IInv => LocalCheckAgrees
  <2> SUFFICES ASSUME IInv, NEW r \in Request, AcceptsAccess(r),
                      \A past \in seen : past[2] = db,
                      NEW role \in {row.role : row \in Row}
               PROVE  LocalCheck(r, role.name) <=>
                        \E row \in Row : /\ row.role.name = role.name
                                         /\ RolesGuard(r, role.name, row.role.service)
    BY DEF LocalCheckAgrees
  <2>1. claims[r] = RoleNames(db, sub[r]) /\ db \subseteq Row
    BY DEF IInv, TypeOK, ClaimsInv
  <2>2. ASSUME role.name \in claims[r]
        PROVE  \E row \in Row : /\ row.role.name = role.name
                                /\ RolesGuard(r, role.name, row.role.service)
    <3>1. PICK row \in db : row.user = sub[r] /\ row.role.name = role.name
      BY <2>1, <2>2 DEF RoleNames
    <3>2. QED
      BY <2>1, <3>1, RoleOfRow DEF RolesGuard, Accepts
  <2>3. ASSUME NEW row \in Row, RolesGuard(r, role.name, row.role.service)
        PROVE  role.name \in claims[r]
    <3> DEFINE held == UserRole(sub[r], Role(role.name, row.role.service))
    <3>1. held \in db
      BY <2>3 DEF RolesGuard, HasRole
    <3>2. held.user = sub[r] /\ held.role.name = role.name
      BY DEF UserRole, Role
    <3>3. QED
      BY <2>1, <3>1, <3>2 DEF RoleNames
  <2>4. QED
    BY <2>2, <2>3 DEF LocalCheck, RolesGuard, Accepts
<1>2. QED
  BY <1>1, Invariant, PTL

-----------------------------------------------------------------------------
(* SampleService.                                                          *)

\* Items are what the program or its clients made, numbered by their place.
ItemType == [id : Nat, name : Name \cup {"seed"}]

ItemsInv ==
  /\ items \in Seq(ItemType)
  /\ \A i \in DOMAIN items : items[i].id = i
  /\ \A item \in created : \E i \in DOMAIN items : items[i] = item

-----------------------------------------------------------------------------
\* find() returns the item at the place of its id.
LEMMA FindsItem ==
  ASSUME ItemsInv, NEW i \in DOMAIN items
  PROVE  FindOne(i) = <<items[i]>>
<1> DEFINE places == {k \in 1..Len(items) : items[k].id = i}
<1>1. places = {i} /\ i \in 1..Len(items)
  BY DEF ItemsInv
<1>2. SelectInSeq(items, LAMBDA item : item.id = i) =
        IF places # {} THEN Min(places) ELSE 0
  BY DEF SelectInSeq
<1>3. Min(places) = i
  BY <1>1 DEF Min
<1>4. i # 0
  BY <1>1 DEF ItemsInv
<1>5. QED
  BY <1>1, <1>2, <1>3, <1>4 DEF FindOne

LEMMA SeedItems == Seed \in Seq(ItemType) /\ \A i \in DOMAIN Seed : Seed[i].id = i
<1>1. Seed \in [1..3 -> ItemType]
  BY DEF Seed, Item, ItemType
<1>2. Seed \in Seq(ItemType)
  BY <1>1, SeqDef
<1>3. QED
  BY <1>2 DEF Seed, Item

LEMMA CreateItems ==
  ASSUME ItemsInv, NEW r \in Request, NEW name \in Name, Create(r, name)
  PROVE  ItemsInv'
<1> DEFINE n == Len(items)
<1> PICK item : item = Item(n + 1, name)
  OBVIOUS
<1>1. n \in Nat /\ items \in Seq(ItemType) /\ DOMAIN items = 1..n
  BY DEF ItemsInv
<1>2. item \in ItemType /\ item.id = n + 1
  BY <1>1 DEF Item, ItemType
<1>3. items' = Append(items, item) /\ created' = created \cup {item}
  BY DEF Create, NextId
<1>4. /\ items' \in Seq(ItemType) /\ Len(items') = n + 1 /\ items'[n + 1] = item
      /\ \A i \in 1..n : items'[i] = items[i]
  BY <1>1, <1>2, <1>3
<1>5. DOMAIN items' = 1..(n + 1)
  BY <1>1, <1>4
<1>6. ASSUME NEW i \in DOMAIN items' PROVE items'[i].id = i
  BY <1>1, <1>2, <1>4, <1>5 DEF ItemsInv
<1>7. ASSUME NEW one \in created' PROVE \E i \in DOMAIN items' : items'[i] = one
  <2>1. CASE one = item
    BY <1>1, <1>4, <1>5, <2>1
  <2>2. CASE one \in created
    <3>1. PICK i \in DOMAIN items : items[i] = one
      BY <2>2 DEF ItemsInv
    <3>2. QED
      BY <1>1, <1>4, <1>5, <3>1
  <2>3. QED
    BY <1>3, <1>7, <2>1, <2>2
<1>8. QED
  BY <1>4, <1>6, <1>7 DEF ItemsInv

LEMMA ItemsStep == ItemsInv /\ [ServiceNext]_<<vars, service>> => ItemsInv'
<1> SUFFICES ASSUME ItemsInv, [ServiceNext]_<<vars, service>> PROVE ItemsInv'
  OBVIOUS
<1>1. CASE UNCHANGED service
  BY <1>1 DEF service, ItemsInv
<1>2. CASE Restart
  BY <1>2, SeedItems DEF Restart, ItemsInv
<1>3. QED
  BY <1>1, <1>2, CreateItems DEF ServiceNext

(* As long as the service runs, the id a client was given finds the item   *)
(* it posted: ItemsService numbers by length and never deletes.            *)
THEOREM CreatedFound == ServiceSpec => []CreatedIsFound
<1>1. ServiceInit => ItemsInv
  BY SeedItems DEF ServiceInit, ItemsInv
<1>2. ItemsInv => CreatedIsFound
  <2> SUFFICES ASSUME ItemsInv, NEW item \in created PROVE FindOne(item.id) = <<item>>
    BY DEF CreatedIsFound
  <2>1. PICK i \in DOMAIN items : items[i] = item
    BY DEF ItemsInv
  <2>2. item.id = i
    BY <2>1 DEF ItemsInv
  <2>3. QED
    BY <2>1, <2>2, FindsItem
<1>3. QED
  BY <1>1, <1>2, ItemsStep, PTL DEF ServiceSpec

(* Running behind the guards leaves the tokens as AccessTokens makes them: *)
(* every theorem about its Spec holds of the service.                      *)
THEOREM ServiceKeepsTokens == ServiceSpec => Spec
<1>1. ServiceInit => Init
  BY DEF ServiceInit
<1>2. [ServiceNext]_<<vars, service>> => [Next]_vars
  BY DEF ServiceNext, Create, Restart
<1>3. QED
  BY <1>1, <1>2, PTL DEF ServiceSpec, Spec
=============================================================================
