---------------------- MODULE AuthorizationEngine_proofs ----------------------
(***************************************************************************)
(* Proofs about AuthorizationEngine, for any rows, services, questions and *)
(* number of evaluations: which configuration an answer stands for, and    *)
(* what the rows granted when it was given.                                *)
(***************************************************************************)
EXTENDS AuthorizationEngine, AccessModels_proofs, TLAPS

-----------------------------------------------------------------------------
(* The inductive invariants.                                               *)

\* Before the loop nothing is held or evaluated; an answer ends the loop.
\* Only a question about one resource takes a second query.
StageInv == \A r \in Request :
  /\ stage[r] = "loop" /\ held[r] # NoRows => query[r].id # NoId
  /\ stage[r] \in {"idle", "find"} =>
       rest[r] = <<>> /\ held[r] = NoRows /\ reasons[r] = <<>>
  /\ stage[r] # "done" => answer[r] = "none"
  /\ answer[r] = "allowed" => reasons[r] # <<>>

\* What has been evaluated, and what is left, are the evaluable models of
\* the configuration in their order.
Covers(r, models) ==
  /\ Len(Evaluable(models)) = Len(reasons[r]) + Len(rest[r])
  /\ \A i \in 1..Len(reasons[r]) : Evaluable(models)[i] = Model(r, i)
  /\ \A i \in 1..Len(rest[r]) : Evaluable(models)[Len(reasons[r]) + i] = rest[r][i]

\* Only the reason that ends a request says ALLOW.
Misses(r, n) == \A i \in 1..n : reasons[r][i][2] = "MISS"

ConfigInv == \A r \in Request :
  /\ Running(r) => services[query[r].service] \in configs[r]
  /\ stage[r] = "loop" \/ answer[r] \in {"allowed", "denied"} =>
       \E models \in configs[r] \ {Unregistered} : Covers(r, models)
  /\ stage[r] = "loop" \/ answer[r] = "denied" => Misses(r, Len(reasons[r]))
  /\ answer[r] = "denied" => rest[r] = <<>>
  /\ answer[r] = "allowed" =>
       /\ reasons[r][Len(reasons[r])][2] = "ALLOW"
       /\ Misses(r, Len(reasons[r]) - 1)

\* The history has not missed a moment at which a model granted.
GrantedInv == \A r \in Request :
  Running(r) => Granting(db, query[r]) \subseteq granted[r]

-----------------------------------------------------------------------------
(* What the two models that make two queries rely on between them, and     *)
(* what a miss leaves behind.                                              *)

\* The attributes held are the user's of this moment, but for rows touched.
AbacInv == \A r \in Request :
  stage[r] = "loop" /\ held[r] # NoRows /\ Head(rest[r]) = "ABAC" =>
    LET rows == UserRows(db, query[r].user)
    IN  (rows \ held[r]) \cup (held[r] \ rows) \subseteq
          UserRows(touched[r], query[r].user)

Steady(r) == db \ touched[r]

\* No untouched row makes a model grant that missed, nor a direct
\* relationship once the first query found none.
SteadyInv == \A r \in Request :
  /\ \A i \in 1..Len(reasons[r]) :
       reasons[r][i][2] = "MISS" /\ Model(r, i) \in {"RBAC", "ACL", "ReBAC"} =>
         ~Grants(Steady(r), query[r], Model(r, i))
  /\ stage[r] = "loop" /\ held[r] # NoRows /\ Head(rest[r]) = "ReBAC" =>
       ~Direct(Steady(r), query[r].user, query[r].resource, query[r].id)

-----------------------------------------------------------------------------
(* Evaluable(), for configurations of any length.                          *)

\* kept is what the recursion of Evaluable computes up to n.
Keeps(kept, models, n) ==
  kept = [i \in 0..n |-> IF i = 0 THEN <<>> ELSE Keep(kept[i - 1], models[i])]

LEMMA KeptExists ==
  ASSUME NEW models, NEW n \in Nat
  PROVE  \E kept : Keeps(kept, models, n)
<1> DEFINE Bad == {i \in Nat : ~\E kept : Keeps(kept, models, i)}
<1>1. SUFFICES ASSUME Bad # {} PROVE FALSE
  OBVIOUS
<1>2. PICK i \in Bad : \A k \in Bad : i <= k
  <2>1. Bad \in SUBSET Nat
    OBVIOUS
  <2> HIDE DEF Bad
  <2>2. QED
    BY <1>1, <2>1, LeastNatural
<1>3. i # 0
  <2>1. Keeps([k \in 0..0 |-> <<>>], models, 0)
    BY DEF Keeps
  <2>2. QED
    BY <2>1
<1>4. PICK kept : Keeps(kept, models, i - 1)
  <2>1. i - 1 \in Nat /\ i - 1 \notin Bad
    BY <1>2, <1>3
  <2>2. QED
    BY <2>1
<1> DEFINE longer == [k \in 0..i |-> IF k < i THEN kept[k]
                                            ELSE Keep(kept[i - 1], models[i])]
<1>5. ASSUME NEW k \in 0..i
      PROVE  longer[k] = IF k = 0 THEN <<>> ELSE Keep(longer[k - 1], models[k])
  <2>1. CASE k = 0
    BY <1>3, <1>4, <2>1 DEF Keeps
  <2>2. CASE k # 0 /\ k < i
    BY <1>3, <1>4, <2>2 DEF Keeps
  <2>3. CASE k = i
    BY <1>3, <1>4, <2>3 DEF Keeps
  <2>4. QED
    BY <2>1, <2>2, <2>3
<1>6. Keeps(longer, models, i)
  BY <1>5 DEF Keeps
<1>7. QED
  BY <1>2, <1>6

LEMMA EvaluableKeeps ==
  ASSUME NEW models, Len(models) \in Nat
  PROVE  \E kept : /\ Keeps(kept, models, Len(models))
                   /\ Evaluable(models) = kept[Len(models)]
<1> DEFINE kept == CHOOSE kept : Keeps(kept, models, Len(models))
<1>1. Keeps(kept, models, Len(models))
  BY KeptExists
<1>2. Evaluable(models) = kept[Len(models)]
  BY DEF Evaluable, Keeps
<1>3. QED
  BY <1>1, <1>2

\* It returns known models only, and leaves no known model out.
LEMMA EvaluableModels ==
  ASSUME NEW models \in Seq(STRING)
  PROVE  /\ Evaluable(models) \in Seq(Known)
         /\ \A i \in DOMAIN models : models[i] \in Known =>
              \E k \in DOMAIN Evaluable(models) : Evaluable(models)[k] = models[i]
<1>1. PICK kept : /\ Keeps(kept, models, Len(models))
                  /\ Evaluable(models) = kept[Len(models)]
  BY EvaluableKeeps
<1> DEFINE Good(i) ==
      /\ kept[i] \in Seq(Known)
      /\ \A k \in 1..i : models[k] \in Known =>
           \E m \in DOMAIN kept[i] : kept[i][m] = models[k]
    Bad == {i \in 0..Len(models) : ~Good(i)}
<1>2. Bad = {}
  <2>1. SUFFICES ASSUME Bad # {} PROVE FALSE
    OBVIOUS
  <2>2. PICK i \in Bad : \A k \in Bad : i <= k
    <3>1. Bad \in SUBSET Nat
      OBVIOUS
    <3> HIDE DEF Bad
    <3>2. QED
      BY <2>1, <3>1, LeastNatural
  <2>3. i \in Nat /\ i # 0
    BY <2>2, <1>1 DEF Keeps
  <2>4. Good(i - 1)
    BY <2>2, <2>3
  <2>5. kept[i] = Keep(kept[i - 1], models[i])
    BY <1>1, <2>3 DEF Keeps
  <2>6. kept[i] \in Seq(Known)
    BY <2>4, <2>5 DEF Keep
  <2>7. ASSUME NEW k \in 1..i, models[k] \in Known
        PROVE  \E m \in DOMAIN kept[i] : kept[i][m] = models[k]
    <3>1. CASE k = i
      <4>1. kept[i] = Append(kept[i - 1], models[i])
        BY <2>5, <2>7, <3>1 DEF Keep
      <4>2. kept[i][Len(kept[i - 1]) + 1] = models[i] /\ Len(kept[i - 1]) + 1 \in DOMAIN kept[i]
        BY <2>4, <2>7, <3>1, <4>1
      <4>3. QED
        BY <3>1, <4>2
    <3>2. CASE k # i
      <4>1. PICK m \in DOMAIN kept[i - 1] : kept[i - 1][m] = models[k]
        BY <2>3, <2>4, <2>7, <3>2
      <4>2. m \in DOMAIN kept[i] /\ kept[i][m] = kept[i - 1][m]
        BY <2>4, <2>5, <4>1 DEF Keep
      <4>3. QED
        BY <4>1, <4>2
    <3>3. QED
      BY <3>1, <3>2
  <2>8. QED
    BY <2>2, <2>6, <2>7
<1>3. Good(Len(models))
  BY <1>2
<1>4. QED
  BY <1>1, <1>3

-----------------------------------------------------------------------------
(* The kinds of step a request takes.                                      *)

\* Whatever the model at hand, it concludes, holds the rows of its first
\* query, or the request ends with an error.
Concludes(r) == stage[r] = "loop" /\ (Conclude(r, TRUE) \/ Conclude(r, FALSE))

Continues(r) ==
  /\ stage[r] = "loop" /\ held[r] = NoRows /\ query[r].id # NoId
  /\ \/ /\ Head(rest[r]) = "ABAC"
        /\ Continue(r, UserRows(db, query[r].user))
     \/ /\ Head(rest[r]) = "ReBAC"
        /\ ~Direct(db, query[r].user, query[r].resource, query[r].id)
        /\ Continue(r, {})

LEMMA ConcludeEither ==
  ASSUME NEW r, NEW allowed, Conclude(r, allowed)
  PROVE  /\ allowed => Conclude(r, TRUE)
         /\ ~allowed => Conclude(r, FALSE)
BY DEF Conclude

LEMMA Kinds ==
  ASSUME NEW r \in Request, Handler(r) \/ Fail(r)
  PROVE  FindService(r) \/ Concludes(r) \/ Continues(r) \/ (Running(r) /\ Abort(r))
<1>1. CASE Rbac(r) \/ Acl(r)
  BY <1>1, ConcludeEither DEF Rbac, Acl, Evaluates, Concludes
<1>2. CASE AbacUser(r)
  BY <1>2, ConcludeEither DEF AbacUser, Evaluates, Concludes, Continues
<1>3. CASE AbacResource(r)
  BY <1>3, ConcludeEither DEF AbacResource, Evaluates, Concludes
<1>4. CASE Pbac(r)
  BY <1>4, ConcludeEither DEF Pbac, Evaluates, Concludes
<1>5. CASE PbacThrows(r) \/ Fail(r)
  BY <1>5 DEF PbacThrows, Evaluates, Fail, Running
<1>6. CASE RebacDirect(r)
  BY <1>6, ConcludeEither DEF RebacDirect, Evaluates, Concludes, Continues
<1>7. CASE RebacViaOrg(r)
  BY <1>7, ConcludeEither DEF RebacViaOrg, Evaluates, Concludes
<1>8. QED
  BY <1>1, <1>2, <1>3, <1>4, <1>5, <1>6, <1>7 DEF Handler, OwnQuery

-----------------------------------------------------------------------------
(* Types and stages.                                                       *)
TypeInv == TypeOK /\ StageInv

\* Every question is about a service there may be.
LEMMA QueryService ==
  ASSUME NEW q \in Queries
  PROVE  q.service \in Service
<1>1. CASE q \in Query
  BY <1>1, EngineAssumption
<1>2. CASE q \in GuardQueries
  BY <1>2, EngineAssumption DEF GuardQueries, GuardQuery, SplitPermission
<1>3. QED
  BY <1>1, <1>2 DEF Queries

LEMMA InitTypeInv == Init => TypeInv
<1> SUFFICES ASSUME Init PROVE TypeInv
  OBVIOUS
<1>1. db \subseteq Row /\ Legal(db) /\ recent \subseteq SUBSET Row
  BY DEF Init, From
<1>2. query \in [Request -> Queries]
  BY DEF Init
<1>3. QED
  BY <1>1, <1>2, EngineAssumption DEF Init, TypeInv, TypeOK, StageInv

LEMMA ArriveTypeInv ==
  ASSUME TypeInv, NEW r \in Request, NEW q \in Queries, Arrive(r, q)
  PROVE  TypeInv'
<1>1. Granting(db, q) \in SUBSET Known
  BY DEF Granting
<1>2. services[q.service] \in Config \cup {Unregistered}
  BY QueryService DEF TypeInv, TypeOK
<1>3. QED
  BY <1>1, <1>2 DEF TypeInv, TypeOK, StageInv, Arrive, tables

LEMMA FindServiceTypeInv ==
  ASSUME TypeInv, NEW r \in Request, FindService(r)
  PROVE  TypeInv'
<1> DEFINE models == services[query[r].service]
<1>1. models \in Config \cup {Unregistered}
  BY QueryService DEF TypeInv, TypeOK
<1>2. models # Unregistered => Evaluable(models) \in Seq(Known)
  BY <1>1, EvaluableModels, EngineAssumption
<1>3. TypeOK'
  <2>1. CASE Finish(r, "notFound") /\ UNCHANGED rest
    BY <2>1 DEF TypeInv, TypeOK, FindService, Finish, tables, history
  <2>2. CASE Finish(r, "denied") /\ UNCHANGED rest
    BY <2>2 DEF TypeInv, TypeOK, FindService, Finish, tables, history
  <2>3. CASE /\ models # Unregistered /\ Evaluable(models) # <<>>
             /\ rest' = [rest EXCEPT ![r] = Evaluable(models)]
             /\ stage' = [stage EXCEPT ![r] = "loop"] /\ UNCHANGED answer
    <3>1. stage[r] = "find" /\ held[r] = NoRows
      BY DEF TypeInv, StageInv, FindService
    <3>2. UNCHANGED <<db, services, recent, edits, query, held, reasons, granted,
                      touched, configs>>
      BY DEF FindService, tables, history
    <3>3. rest' \in [Request -> Seq(Known)]
      BY <1>2, <2>3 DEF TypeInv, TypeOK
    <3>4. QED
      BY <2>3, <3>1, <3>2, <3>3 DEF TypeInv, TypeOK, Legal
  <2>4. QED
    BY <2>1, <2>2, <2>3 DEF FindService
<1>4. StageInv'
  BY DEF TypeInv, TypeOK, StageInv, FindService, Finish
<1>5. QED
  BY <1>3, <1>4 DEF TypeInv

LEMMA ConcludesTypeInv ==
  ASSUME TypeInv, NEW r \in Request, NEW b \in BOOLEAN, stage[r] = "loop", Conclude(r, b)
  PROVE  TypeInv'
<1>1. rest[r] \in Seq(Known) /\ rest[r] # <<>>
  BY DEF TypeInv, TypeOK
<1>2. Head(rest[r]) \in Known /\ Tail(rest[r]) \in Seq(Known)
  BY <1>1
<1> DEFINE reason == <<Head(rest[r]), IF b THEN "ALLOW" ELSE "MISS">>
<1>3. reason \in Known \X {"ALLOW", "MISS"}
  BY <1>2
<1>4. Append(reasons[r], reason) \in Seq(Known \X {"ALLOW", "MISS"})
  BY <1>3 DEF TypeInv, TypeOK
<1>5. reasons' \in [Request -> Seq(Known \X {"ALLOW", "MISS"})]
  BY <1>4 DEF TypeInv, TypeOK, Conclude
<1>6. rest' \in [Request -> Seq(Known)]
  BY <1>2 DEF TypeInv, TypeOK, Conclude, Remaining
<1>7. reasons'[r] # <<>>
  BY <1>3 DEF TypeInv, TypeOK, Conclude
<1>8. TypeOK'
  BY <1>5, <1>6 DEF TypeInv, TypeOK, Conclude, Remaining, Hold, Finish, tables, history
<1>9. StageInv'
  BY <1>7 DEF TypeInv, TypeOK, StageInv, Conclude, Remaining, Hold, Finish
<1>10. QED
  BY <1>8, <1>9 DEF TypeInv

LEMMA ContinuesTypeInv ==
  ASSUME TypeInv, NEW r \in Request, Continues(r)
  PROVE  TypeInv'
<1>1. PICK rows \in SUBSET Row : Continue(r, rows)
  BY DEF TypeInv, TypeOK, Continues, UserRows, From
<1>2. QED
  BY <1>1 DEF TypeInv, TypeOK, StageInv, Continues, Continue, Hold, TwoQueries,
     tables, history

LEMMA AbortTypeInv ==
  ASSUME TypeInv, NEW r \in Request, Running(r), Abort(r)
  PROVE  TypeInv'
BY DEF TypeInv, TypeOK, StageInv, Running, Abort, Finish, tables, history

\* An edit keeps the constraints of the tables.
LEMMA EditTypeInv ==
  ASSUME TypeInv, Edit
  PROVE  TypeInv'
<1>1. db' \subseteq Row /\ Legal(db')
  BY DEF TypeInv, TypeOK, Edit, EditRow
<1>2. edits' \in 0..MaxEdits
  BY EngineAssumption DEF TypeInv, TypeOK, Edit, EditRow
<1>3. recent' \subseteq SUBSET Row
  BY <1>1 DEF TypeInv, TypeOK, Edit, From
<1>4. granted' \in [Request -> SUBSET Known] /\ touched' \in [Request -> SUBSET Row]
  BY <1>1 DEF TypeInv, TypeOK, Edit, RecordEdit, Granting
<1>5. UNCHANGED <<services, handler, configs>>
  BY DEF Edit, RecordEdit
<1>6. QED
  BY <1>1, <1>2, <1>3, <1>4, <1>5 DEF TypeInv, TypeOK, StageInv, Legal, handler

LEMMA ReconfigureTypeInv ==
  ASSUME TypeInv, Reconfigure
  PROVE  TypeInv'
<1>1. edits' \in 0..MaxEdits
  BY EngineAssumption DEF TypeInv, TypeOK, Reconfigure
<1>2. /\ services' \in [Service -> Config \cup {Unregistered}]
      /\ configs' \in [Request -> SUBSET (Config \cup {Unregistered})]
  BY DEF TypeInv, TypeOK, Reconfigure
<1>3. QED
  BY <1>1, <1>2 DEF TypeInv, TypeOK, StageInv, Reconfigure, handler

LEMMA ForgetTypeInv ==
  ASSUME TypeInv, Forget
  PROVE  TypeInv'
BY DEF TypeInv, TypeOK, StageInv, Forget, handler, history, From

LEMMA NextTypeInv == TypeInv /\ [Next]_vars => TypeInv'
<1> SUFFICES ASSUME TypeInv, [Next]_vars PROVE TypeInv'
  OBVIOUS
<1>1. ASSUME NEW r \in Request, Authorize(r) \/ Guard(r) PROVE TypeInv'
  BY <1>1, ArriveTypeInv DEF Authorize, Guard, Queries
<1>2. ASSUME NEW r \in Request, Handler(r) \/ Fail(r) PROVE TypeInv'
  BY <1>2, Kinds, FindServiceTypeInv, ConcludesTypeInv, ContinuesTypeInv,
     AbortTypeInv DEF Concludes
<1>3. CASE UNCHANGED vars
  BY <1>3 DEF vars, tables, handler, history, TypeInv, TypeOK, StageInv
<1>4. QED
  BY <1>1, <1>2, <1>3, EditTypeInv, ReconfigureTypeInv, ForgetTypeInv DEF Next

-----------------------------------------------------------------------------
(* The configuration an answer stands for.                                 *)

\* A step of its own finds the tables and the history as they are.
LEMMA OwnStep ==
  ASSUME NEW r \in Request, Handler(r) \/ Fail(r)
  PROVE  Running(r) /\ UNCHANGED <<tables, query, history>>
BY Kinds DEF FindService, Concludes, Conclude, Continues, Continue, Abort, Running

\* Other requests, and what changes underneath, leave a request alone; the
\* history takes down what an edit means for it.
LEMMA OthersStay ==
  ASSUME TypeInv, [Next]_vars, NEW r \in Request,
         ~ (Authorize(r) \/ Guard(r) \/ Handler(r) \/ Fail(r))
  PROVE  /\ UNCHANGED <<stage[r], query[r], rest[r], held[r], reasons[r], answer[r]>>
         /\ configs[r] \subseteq configs'[r] /\ granted[r] \subseteq granted'[r]
         /\ \/ UNCHANGED <<db, touched[r]>>
            \/ stage[r] = "idle"
            \/ touched'[r] = touched[r] \cup (db \ db') \cup (db' \ db)
<1> USE DEF TypeInv, TypeOK
<1>1. ASSUME NEW q \in Request, Authorize(q) \/ Guard(q)
      PROVE  UNCHANGED <<db, touched, stage[r], query[r], rest[r], held[r], reasons[r],
                         answer[r], configs[r], granted[r]>>
  BY <1>1 DEF Authorize, Guard, Arrive, tables
<1>2. ASSUME NEW q \in Request, Handler(q) \/ Fail(q)
      PROVE  UNCHANGED <<db, touched, stage[r], query[r], rest[r], held[r], reasons[r],
                         answer[r], configs[r], granted[r]>>
  <2>1. q # r /\ UNCHANGED <<db, query, touched, configs, granted>>
    BY <1>2, OwnStep DEF tables, history
  <2>2. CASE FindService(q)
    BY <2>1, <2>2 DEF FindService, Finish
  <2>3. CASE Concludes(q)
    BY <2>1, <2>3 DEF Concludes, Conclude, Finish, Hold, Remaining
  <2>4. CASE Continues(q) \/ Abort(q)
    BY <2>1, <2>4 DEF Continues, Continue, Abort, Finish, Hold
  <2>5. QED
    BY <1>2, <2>1, <2>2, <2>3, <2>4, Kinds
<1>3. CASE Edit
  BY <1>3 DEF Edit, RecordEdit, handler
<1>4. CASE Forget \/ UNCHANGED vars
  BY <1>4 DEF Forget, vars, tables, handler, history
<1>5. CASE Reconfigure
  BY <1>5 DEF Reconfigure, handler
<1>6. QED
  BY <1>1, <1>2, <1>3, <1>4, <1>5 DEF Next

\* The configuration in force now is among those of every running request.
LEMMA CurrentConfig ==
  ASSUME TypeInv, ConfigInv, [Next]_vars, NEW r \in Request, Running(r)'
  PROVE  services'[query'[r].service] \in configs'[r]
<1> USE DEF TypeInv, TypeOK
<1>1. CASE Authorize(r) \/ Guard(r)
  BY <1>1 DEF Authorize, Guard, Arrive, tables
<1>2. CASE Handler(r) \/ Fail(r)
  <2>1. Running(r) /\ UNCHANGED <<services, query, configs>>
    BY <1>2, OwnStep DEF tables, history
  <2>2. QED
    BY <2>1 DEF ConfigInv
<1>3. CASE ~ (Authorize(r) \/ Guard(r) \/ Handler(r) \/ Fail(r))
  <2>1. Running(r) /\ query'[r] = query[r] /\ configs[r] \subseteq configs'[r]
    BY <1>3, OthersStay DEF Running
  <2>2. services[query[r].service] \in configs[r]
    BY <2>1 DEF ConfigInv
  <2>3. CASE Reconfigure
    BY <2>1, <2>2, <2>3, QueryService DEF Reconfigure
  <2>4. CASE UNCHANGED services
    BY <2>1, <2>2, <2>4
  <2>5. services' # services => Reconfigure
    <3>1. ASSUME NEW q \in Request, Authorize(q) \/ Guard(q) PROVE UNCHANGED services
      BY <3>1 DEF Authorize, Guard, Arrive, tables
    <3>2. ASSUME NEW q \in Request, Handler(q) \/ Fail(q) PROVE UNCHANGED services
      BY <3>2, OwnStep DEF tables
    <3>3. QED
      BY <3>1, <3>2 DEF Next, Edit, RecordEdit, Forget, vars, tables
  <2>6. QED
    BY <2>3, <2>4, <2>5
<1>4. QED
  BY <1>1, <1>2, <1>3

\* What ConfigInv says of one request, but for the configuration in force.
Account(r) ==
  /\ stage[r] = "loop" \/ answer[r] \in {"allowed", "denied"} =>
       \E models \in configs[r] \ {Unregistered} : Covers(r, models)
  /\ stage[r] = "loop" \/ answer[r] = "denied" => Misses(r, Len(reasons[r]))
  /\ answer[r] = "denied" => rest[r] = <<>>
  /\ answer[r] = "allowed" =>
       /\ reasons[r][Len(reasons[r])][2] = "ALLOW"
       /\ Misses(r, Len(reasons[r]) - 1)

\* The lookup takes the models of the configuration in force, in order.
LEMMA FindAccount ==
  ASSUME TypeInv, ConfigInv, NEW r \in Request, FindService(r)
  PROVE  Account(r)'
<1> USE DEF TypeInv, TypeOK
<1> PICK models : models = services[query[r].service]
  OBVIOUS
<1>1. /\ models \in configs[r] /\ reasons[r] = <<>> /\ rest[r] = <<>>
      /\ stage[r] = "find" /\ answer[r] = "none"
  BY DEF ConfigInv, StageInv, Running, FindService
<1>2. UNCHANGED <<reasons, configs>>
  BY DEF FindService, history
<1>3. models # Unregistered => Evaluable(models) \in Seq(Known)
  BY QueryService, EvaluableModels, EngineAssumption
<1>4. CASE models = Unregistered
  BY <1>1, <1>2, <1>4 DEF FindService, Finish, Account
<1>5. CASE models # Unregistered
  <2>1. rest'[r] = Evaluable(models) /\ answer'[r] # "allowed"
        /\ (answer'[r] = "denied" => rest'[r] = <<>>)
    BY <1>1, <1>5 DEF FindService, Finish
  <2>2. Covers(r, models)'
    BY <1>1, <1>2, <1>3, <1>5, <2>1 DEF Covers, Model
  <2>3. Misses(r, Len(reasons[r]))'
    BY <1>1, <1>2 DEF Misses
  <2>4. QED
    BY <1>1, <1>2, <1>5, <2>1, <2>2, <2>3 DEF Account
<1>6. QED
  BY <1>4, <1>5


\* A conclusion moves the model at hand from what is left to the reasons.
LEMMA ConcludeAccount ==
  ASSUME TypeInv, ConfigInv, NEW r \in Request, NEW b \in BOOLEAN,
         stage[r] = "loop", Conclude(r, b)
  PROVE  Account(r)'
<1> USE DEF TypeInv, TypeOK
<1> DEFINE n      == Len(reasons[r])
           reason == <<Head(rest[r]), IF b THEN "ALLOW" ELSE "MISS">>
<1>1. PICK models \in configs[r] \ {Unregistered} : Covers(r, models)
  BY DEF ConfigInv
<1>2. Misses(r, n) /\ answer[r] = "none"
  BY DEF ConfigInv, StageInv
<1>3. /\ rest[r] \in Seq(Known) /\ rest[r] # <<>> /\ n \in Nat
      /\ reasons[r] \in Seq(Known \X {"ALLOW", "MISS"})
  OBVIOUS
<1>4. /\ reasons'[r] = Append(reasons[r], reason) /\ rest'[r] = Tail(rest[r])
      /\ UNCHANGED configs
  BY DEF Conclude, Remaining, history
<1>5. reason \in Known \X {"ALLOW", "MISS"}
  BY <1>3
<1>6. /\ Len(reasons'[r]) = n + 1 /\ reasons'[r][n + 1] = reason
      /\ \A i \in 1..n : reasons'[r][i] = reasons[r][i]
  BY <1>3, <1>4, <1>5
<1>7. /\ Len(rest'[r]) = Len(rest[r]) - 1 /\ rest[r][1] = Head(rest[r])
      /\ \A i \in 1..(Len(rest[r]) - 1) : rest'[r][i] = rest[r][i + 1]
  BY <1>3, <1>4
<1>8. Covers(r, models)'
  <2>1. Len(Evaluable(models)) = Len(reasons'[r]) + Len(rest'[r])
    BY <1>1, <1>3, <1>6, <1>7 DEF Covers
  <2>2. ASSUME NEW i \in 1..Len(reasons'[r])
        PROVE  Evaluable(models)[i] = reasons'[r][i][1]
    <3>1. CASE i \in 1..n
      BY <1>1, <1>6, <3>1 DEF Covers, Model
    <3>2. CASE i = n + 1
      BY <1>1, <1>3, <1>6, <1>7, <3>2 DEF Covers
    <3>3. QED
      BY <1>3, <1>6, <3>1, <3>2
  <2>3. ASSUME NEW i \in 1..Len(rest'[r])
        PROVE  Evaluable(models)[Len(reasons'[r]) + i] = rest'[r][i]
    <3>1. i + 1 \in 1..Len(rest[r]) /\ n + (i + 1) = Len(reasons'[r]) + i
      BY <1>3, <1>6, <1>7
    <3>2. Evaluable(models)[n + (i + 1)] = rest[r][i + 1]
      BY <1>1, <3>1 DEF Covers
    <3>3. QED
      BY <1>7, <3>1, <3>2
  <2>4. QED
    BY <2>1, <2>2, <2>3 DEF Covers, Model
<1>9. /\ b => answer'[r] = "allowed"
      /\ ~b => answer'[r] \in {"none", "denied"}
      /\ answer'[r] = "denied" => rest'[r] = <<>>
      /\ stage'[r] = "loop" => ~b
  BY <1>2, <1>4 DEF Conclude, Finish, Remaining
<1>10. \A i \in 1..n : reasons'[r][i][2] = "MISS"
  BY <1>2, <1>6 DEF Misses
<1>11. reasons'[r][n + 1][2] = IF b THEN "ALLOW" ELSE "MISS"
  BY <1>6
<1>12. ASSUME ~b PROVE Misses(r, Len(reasons[r]))'
  <2>1. \A i \in 1..(n + 1) : i \in 1..n \/ i = n + 1
    BY <1>3
  <2>2. \A i \in 1..(n + 1) : reasons'[r][i][2] = "MISS"
    BY <1>10, <1>11, <1>12, <2>1
  <2>3. QED
    BY <1>6, <2>2 DEF Misses
<1>13. ASSUME b PROVE /\ reasons'[r][Len(reasons'[r])][2] = "ALLOW"
                      /\ Misses(r, Len(reasons[r]) - 1)'
  <2>1. Len(reasons'[r]) - 1 = n
    BY <1>3, <1>6
  <2>2. Misses(r, Len(reasons[r]) - 1)'
    BY <1>10, <2>1 DEF Misses
  <2>3. QED
    BY <1>6, <1>11, <1>13, <2>2
<1>14. QED
  BY <1>1, <1>4, <1>8, <1>9, <1>12, <1>13 DEF Account

LEMMA AccountStays ==
  ASSUME NEW r \in Request, Account(r),
         UNCHANGED <<stage[r], rest[r], reasons[r], answer[r]>>,
         configs[r] \subseteq configs'[r]
  PROVE  Account(r)'
<1>1. \A models : Covers(r, models) => Covers(r, models)'
  BY DEF Covers, Model
<1>2. Misses(r, Len(reasons[r])) => Misses(r, Len(reasons[r]))'
  BY DEF Misses
<1>3. Misses(r, Len(reasons[r]) - 1) => Misses(r, Len(reasons[r]) - 1)'
  BY DEF Misses
<1>4. QED
  BY <1>1, <1>2, <1>3 DEF Account

LEMMA ConfigStep == TypeInv /\ ConfigInv /\ [Next]_vars => ConfigInv'
<1> SUFFICES ASSUME TypeInv, ConfigInv, [Next]_vars, NEW r \in Request
             PROVE  Account(r)'
  BY CurrentConfig DEF ConfigInv, Account
<1> USE DEF TypeInv, TypeOK
<1>0. Account(r)
  BY DEF ConfigInv, Account
<1>1. CASE Authorize(r) \/ Guard(r)
  BY <1>1 DEF Authorize, Guard, Arrive, StageInv, Account
<1>2. CASE Handler(r) \/ Fail(r)
  <2>1. CASE Continues(r)
    BY <1>0, <2>1, AccountStays DEF Continues, Continue, history
  <2>2. CASE Abort(r)
    BY <2>2 DEF Abort, Finish, Account
  <2>3. QED
    BY <1>2, <2>1, <2>2, Kinds, FindAccount, ConcludeAccount DEF Concludes
<1>3. CASE ~ (Authorize(r) \/ Guard(r) \/ Handler(r) \/ Fail(r))
  BY <1>0, <1>3, OthersStay, AccountStays
<1>4. QED
  BY <1>1, <1>2, <1>3


LEMMA TypeInvariant == Spec => []TypeInv
BY InitTypeInv, NextTypeInv, PTL DEF Spec

LEMMA ConfigInvariant == Spec => []ConfigInv
<1>1. Init => ConfigInv
  BY DEF Init, ConfigInv, Running
<1>2. QED
  BY <1>1, ConfigStep, TypeInvariant, PTL DEF Spec

(* Every variable keeps its type, and rows are held only between the two   *)
(* queries of a model that makes two.                                      *)
THEOREM TypeCorrect == Spec => []TypeOK
<1>1. TypeInv => TypeOK
  BY DEF TypeInv
<1>2. QED
  BY <1>1, TypeInvariant, PTL

\* What OneConfiguration says of a request that is answered.
AccountsFor(r) ==
  \E models \in configs[r] \ {Unregistered} :
    LET evaluated == [i \in DOMAIN reasons[r] |-> Model(r, i)]
    IN  /\ IsPrefix(evaluated, Evaluable(models))
        /\ answer[r] = "denied" => evaluated = Evaluable(models)
        /\ \A i \in DOMAIN reasons[r] :
             reasons[r][i][2] = "ALLOW" <=> answer[r] = "allowed" /\ i = Len(reasons[r])

LEMMA AccountGiven ==
  ASSUME TypeInv, ConfigInv, NEW r \in Request, answer[r] \in {"allowed", "denied"}
  PROVE  AccountsFor(r)
<1> DEFINE n == Len(reasons[r])
           evaluated == [i \in 1..n |-> Model(r, i)]
<1>1. PICK models \in configs[r] \ {Unregistered} : Covers(r, models)
  BY DEF ConfigInv
<1>2. /\ reasons[r] \in Seq(Known \X {"ALLOW", "MISS"}) /\ rest[r] \in Seq(Known)
      /\ n \in Nat /\ DOMAIN reasons[r] = 1..n /\ Len(rest[r]) \in Nat
  BY DEF TypeInv, TypeOK
<1>3. Evaluable(models) \in Seq(Known)
  BY EvaluableModels, EngineAssumption DEF TypeInv, TypeOK
<1>4. ASSUME NEW i \in 1..n
      PROVE  Model(r, i) \in Known /\ Evaluable(models)[i] = Model(r, i)
  <2>1. reasons[r][i] \in Known \X {"ALLOW", "MISS"}
    BY <1>2
  <2>2. QED
    BY <1>1, <2>1 DEF Covers, Model
<1>5. /\ evaluated \in Seq(Known) /\ Len(evaluated) = n
      /\ \A i \in 1..n : evaluated[i] = Evaluable(models)[i]
  BY <1>2, <1>4
<1>6. Len(Evaluable(models)) = n + Len(rest[r])
  BY <1>1 DEF Covers
<1>7. IsPrefix(evaluated, Evaluable(models))
  <2> HIDE DEF evaluated, n
  <2>1. Len(evaluated) <= Len(Evaluable(models))
    BY <1>2, <1>5, <1>6
  <2>2. SubSeq(evaluated, 1, n) = SubSeq(Evaluable(models), 1, n)
    BY <1>2, <1>3, <1>5, <2>1
  <2>3. QED
    BY <1>5, <2>1, <2>2 DEF IsPrefix
<1>8. ASSUME answer[r] = "denied" PROVE evaluated = Evaluable(models)
  <2>1. rest[r] = <<>>
    BY <1>8 DEF ConfigInv
  <2>2. Len(Evaluable(models)) = n
    BY <1>2, <1>6, <2>1
  <2>3. QED
    BY <1>3, <1>4, <1>5, <2>2
<1>9. ASSUME NEW i \in 1..n
      PROVE  reasons[r][i][2] = "ALLOW" <=> answer[r] = "allowed" /\ i = n
  <2>1. CASE answer[r] = "denied"
    BY <2>1 DEF ConfigInv, Misses
  <2>2. CASE answer[r] = "allowed"
    <3>1. reasons[r][n][2] = "ALLOW" /\ Misses(r, n - 1)
      BY <2>2 DEF ConfigInv
    <3>2. i # n => i \in 1..(n - 1)
      BY <1>2
    <3>3. QED
      BY <2>2, <3>1, <3>2 DEF Misses
  <2>3. QED
    BY <2>1, <2>2
<1>10. QED
  BY <1>1, <1>2, <1>7, <1>8, <1>9 DEF AccountsFor

(* The models evaluated are those of one configuration that was in force   *)
(* while the request was under way, in its order, all of them unless the   *)
(* last one allowed: registerService() never mixes two in one answer.      *)
THEOREM SingleConfiguration == Spec => []OneConfiguration
<1>1. TypeInv /\ ConfigInv => OneConfiguration
  BY AccountGiven DEF OneConfiguration, AccountsFor
<1>2. QED
  BY <1>1, TypeInvariant, ConfigInvariant, PTL


-----------------------------------------------------------------------------
(* What the queries find is what the documentation says the rows grant.    *)

\* Organisations share their ids with no other kind of node.
OrgsApart == \A row, next \in From(Row, "relationships") :
  row.objectType = OrgType /\ row.objectId = next.subjectId => next.subjectType = OrgType

LEMMA RbacGrants ==
  ASSUME NEW rows \in SUBSET Row, NEW q
  PROVE  HasPermission(rows, q.user, PermissionName(q.service, q.resource, q.action),
                       q.service)
           <=> Grants(rows, q, "RBAC")
<1> DEFINE name == PermissionName(q.service, q.resource, q.action)
<1>1. ASSUME NEW role
      PROVE  RolePermission(role, name) \in rows <=>
               \E grant \in From(rows, "role_permissions") :
                 grant.role = role /\ grant.permission = name
  <2>1. ASSUME RolePermission(role, name) \in rows
        PROVE  \E grant \in From(rows, "role_permissions") :
                 grant.role = role /\ grant.permission = name
    BY <2>1 DEF RolePermission, From
  <2>2. ASSUME NEW grant \in From(rows, "role_permissions"),
               grant.role = role, grant.permission = name
        PROVE  RolePermission(role, name) \in rows
    BY <2>2, SchemaAssumption DEF From
  <2>3. QED
    BY <2>1, <2>2
<1> HIDE DEF name
<1>2. QED
  BY <1>1 DEF HasPermission, Grants, From, name

LEMMA AclGrants ==
  ASSUME NEW rows \in SUBSET Row, NEW q
  PROVE  AclAllows(rows, q.user, q.resource, q.id,
                   PermissionName(q.service, q.resource, q.action))
           <=> Grants(rows, q, "ACL")
<1> DEFINE name == PermissionName(q.service, q.resource, q.action)
           entry == AclEntry(q.user, q.resource, q.id, name)
<1>1. ASSUME entry \in rows
      PROVE  \E row \in From(rows, "acl_entries") :
               <<row.user, row.type, row.id, row.permission>> =
                 <<q.user, q.resource, q.id, name>>
  BY <1>1 DEF AclEntry, From
<1>2. ASSUME NEW row \in From(rows, "acl_entries"),
             <<row.user, row.type, row.id, row.permission>> =
               <<q.user, q.resource, q.id, name>>
      PROVE  entry \in rows
  BY <1>2, SchemaAssumption DEF From
<1> HIDE DEF name, entry
<1>3. QED
  BY <1>1, <1>2 DEF AclAllows, Grants, name, entry

\* The two queries of ReBAC look for the two kinds of path.
ViaEdges(rows, q) ==
  \E row, next \in From(rows, "relationships") :
    /\ IsSubject(row, UserType, q.user) /\ row.objectType = OrgType
    /\ row.objectId = next.subjectId /\ next.subjectType = OrgType
    /\ IsObject(next, q.resource, q.id)

LEMMA RebacPaths ==
  ASSUME NEW rows \in SUBSET Row, NEW q
  PROVE  Grants(rows, q, "ReBAC") <=>
           q.id # NoId /\ (Direct(rows, q.user, q.resource, q.id) \/ ViaEdges(rows, q))
<1> DEFINE from == Node(UserType, q.user)
           to   == Node(q.resource, q.id)
           orgs == {edge[2] : edge \in {e \in Edges(rows) : e[1] = from /\ e[2][1] = OrgType}}
<1>1. <<from, to>> \in Edges(rows) <=> Direct(rows, q.user, q.resource, q.id)
  BY DEF Edges, Direct, Node, IsSubject, IsObject
<1>2. ASSUME NEW org \in orgs, <<org, to>> \in Edges(rows)
      PROVE  ViaEdges(rows, q)
  <2>1. PICK edge \in Edges(rows) : edge[1] = from /\ edge[2][1] = OrgType /\ edge[2] = org
    BY <1>2
  <2>2. PICK row \in From(rows, "relationships") :
          edge = <<Node(row.subjectType, row.subjectId), Node(row.objectType, row.objectId)>>
    BY <2>1 DEF Edges
  <2>3. PICK next \in From(rows, "relationships") :
          <<org, to>> = <<Node(next.subjectType, next.subjectId), Node(next.objectType, next.objectId)>>
    BY <1>2 DEF Edges
  <2>4. /\ IsSubject(row, UserType, q.user) /\ row.objectType = OrgType
        /\ row.objectId = next.subjectId /\ next.subjectType = OrgType
        /\ IsObject(next, q.resource, q.id)
    BY <2>1, <2>2, <2>3 DEF Node, IsSubject, IsObject
  <2>5. QED
    BY <2>4 DEF ViaEdges
<1>3. ASSUME ViaEdges(rows, q)
      PROVE  \E org \in orgs : <<org, to>> \in Edges(rows)
  <2>1. PICK row, next \in From(rows, "relationships") :
          /\ IsSubject(row, UserType, q.user) /\ row.objectType = OrgType
          /\ row.objectId = next.subjectId /\ next.subjectType = OrgType
          /\ IsObject(next, q.resource, q.id)
    BY <1>3 DEF ViaEdges
  <2> DEFINE org == Node(OrgType, row.objectId)
  <2>2. <<from, org>> \in Edges(rows) /\ <<org, to>> \in Edges(rows)
    BY <2>1 DEF Edges, Node, IsSubject, IsObject
  <2>3. org \in orgs
    BY <2>2 DEF Node
  <2>4. QED
    BY <2>2, <2>3
<1>4. Grants(rows, q, "ReBAC") <=>
        q.id # NoId /\ (<<from, to>> \in Edges(rows) \/ \E org \in orgs : <<org, to>> \in Edges(rows))
  BY DEF Grants
<1> HIDE DEF from, to, orgs
<1>5. QED
  BY <1>1, <1>2, <1>3, <1>4

\* Rows only ever add to what RBAC, ACL and ReBAC grant.
LEMMA GrantsMonotone ==
  ASSUME NEW more \in SUBSET Row, NEW rows \in SUBSET more, NEW q,
         NEW model \in {"RBAC", "ACL", "ReBAC"}, Grants(rows, q, model)
  PROVE  Grants(more, q, model)
<1>1. CASE model = "RBAC"
  BY <1>1 DEF Grants, From
<1>2. CASE model = "ACL"
  BY <1>2, AclGrants DEF AclAllows
<1>3. CASE model = "ReBAC"
  BY <1>3, RebacPaths DEF Direct, ViaEdges, From
<1>4. QED
  BY <1>1, <1>2, <1>3

-----------------------------------------------------------------------------
(* What an ALLOW rests on.                                                 *)

\* The only step that changes the rows is an edit, and it takes them down
\* for every request.
LEMMA EditOrSame ==
  ASSUME [Next]_vars
  PROVE  Edit \/ UNCHANGED db
<1>1. ASSUME NEW q \in Request, Authorize(q) \/ Guard(q) PROVE UNCHANGED db
  BY <1>1 DEF Authorize, Guard, Arrive, tables
<1>2. ASSUME NEW q \in Request, Handler(q) \/ Fail(q) PROVE UNCHANGED db
  BY <1>2, OwnStep DEF tables
<1>3. QED
  BY <1>1, <1>2 DEF Next, Reconfigure, Forget, vars, tables

LEMMA GrantedStep == TypeInv /\ GrantedInv /\ [Next]_vars => GrantedInv'
<1> SUFFICES ASSUME TypeInv, GrantedInv, [Next]_vars, NEW r \in Request, Running(r)'
             PROVE  Granting(db', query'[r]) \subseteq granted'[r]
  BY DEF GrantedInv, Granting
<1> USE DEF TypeInv, TypeOK
<1>1. CASE Authorize(r) \/ Guard(r)
  BY <1>1 DEF Authorize, Guard, Arrive, tables
<1>2. CASE Handler(r) \/ Fail(r)
  BY <1>2, OwnStep DEF GrantedInv, tables, history
<1>3. CASE ~ (Authorize(r) \/ Guard(r) \/ Handler(r) \/ Fail(r))
  <2>1. Running(r) /\ query'[r] = query[r] /\ granted[r] \subseteq granted'[r]
    BY <1>3, OthersStay DEF Running
  <2>2. CASE UNCHANGED db
    BY <2>1, <2>2 DEF GrantedInv
  <2>3. CASE Edit
    BY <2>1, <2>3 DEF Edit, RecordEdit
  <2>4. QED
    BY <2>2, <2>3, EditOrSame
<1>4. QED
  BY <1>1, <1>2, <1>3

LEMMA GrantedInvariant == Spec => []GrantedInv
<1>1. Init => GrantedInv
  BY DEF Init, GrantedInv, Running
<1>2. QED
  BY <1>1, GrantedStep, TypeInvariant, PTL DEF Spec

\* Models whose one query grants by itself, or whose second query leaves no
\* room for another reading.
Sound(model) == \/ model \in {"RBAC", "ACL"}
                \/ model = "ReBAC" /\ OrgsApart

GroundedInv == \A r \in Request :
  answer[r] = "allowed" /\ Sound(Allower(r)) => Allower(r) \in granted[r]

\* A sound model concludes that the rows of this very moment grant.
LEMMA ConcludesTruly ==
  ASSUME TypeInv, NEW r \in Request, Handler(r) \/ Fail(r),
         answer'[r] = "allowed", Sound(Head(rest[r]))
  PROVE  Grants(db, query[r], Head(rest[r]))
<1> USE DEF TypeInv, TypeOK
<1> PICK q : q = query[r]
  OBVIOUS
<1>1. stage[r] # "done" /\ answer[r] = "none" /\ db \in SUBSET Row
  BY OwnStep DEF Running, StageInv
<1>2. ~Conclude(r, FALSE)
  BY <1>1 DEF Conclude, Finish
<1>3. ~FindService(r) /\ ~Abort(r) /\ ~(\E rows : Continue(r, rows))
  BY <1>1 DEF FindService, Abort, Continue, Finish
<1> DEFINE name == PermissionName(q.service, q.resource, q.action)
<1>4. CASE Rbac(r)
  <2>1. Head(rest[r]) = "RBAC" /\ Conclude(r, HasPermission(db, q.user, name, q.service))
    BY <1>4 DEF Rbac, Evaluates
  <2>2. HasPermission(db, q.user, name, q.service)
    BY <1>1, <2>1 DEF Conclude, Finish
  <2>3. QED
    BY <1>1, <2>1, <2>2, RbacGrants
<1>5. CASE Acl(r)
  <2>1. Head(rest[r]) = "ACL" /\ Conclude(r, AclAllows(db, q.user, q.resource, q.id, name))
    BY <1>5 DEF Acl, Evaluates
  <2>2. AclAllows(db, q.user, q.resource, q.id, name)
    BY <1>1, <2>1 DEF Conclude, Finish
  <2>3. QED
    BY <1>1, <2>1, <2>2, AclGrants
<1>6. CASE RebacDirect(r)
  <2>1. Head(rest[r]) = "ReBAC" /\ q.id # NoId /\ Direct(db, q.user, q.resource, q.id)
    BY <1>2, <1>3, <1>6 DEF RebacDirect, Evaluates
  <2>2. QED
    BY <1>1, <2>1, RebacPaths
<1>7. CASE RebacViaOrg(r)
  <2>1. /\ Head(rest[r]) = "ReBAC" /\ OrgsApart /\ q.id # NoId
        /\ Conclude(r, ViaOrg(db, q.user, q.resource, q.id))
    BY <1>7 DEF RebacViaOrg, Evaluates, Sound, StageInv
  <2>2. ViaOrg(db, q.user, q.resource, q.id)
    BY <1>1, <2>1 DEF Conclude, Finish
  <2>3. ViaEdges(db, q)
    BY <1>1, <2>1, <2>2 DEF ViaOrg, ViaEdges, NextRelationship, OrgsApart, IsSubject,
       IsObject, From
  <2>4. QED
    BY <1>1, <2>1, <2>3, RebacPaths
<1>8. CASE AbacUser(r) \/ AbacResource(r) \/ Pbac(r)
  BY <1>8 DEF AbacUser, AbacResource, Pbac, Evaluates, Sound
<1>9. QED
  BY <1>3, <1>4, <1>5, <1>6, <1>7, <1>8 DEF Handler, OwnQuery, PbacThrows, Fail

\* A step that answers ALLOW names the model at hand.
LEMMA AllowNames ==
  ASSUME TypeInv, NEW r \in Request, Handler(r) \/ Fail(r), answer'[r] = "allowed"
  PROVE  stage[r] = "loop" /\ Conclude(r, TRUE) /\ Allower(r)' = Head(rest[r])
<1> USE DEF TypeInv, TypeOK
<1>1. answer[r] = "none"
  BY OwnStep DEF Running, StageInv
<1>2. stage[r] = "loop" /\ Conclude(r, TRUE)
  BY <1>1, Kinds DEF FindService, Concludes, Continues, Continue, Conclude, Abort, Finish
<1>3. rest[r] \in Seq(Known) /\ rest[r] # <<>>
  BY <1>2
<1> DEFINE reason == <<Head(rest[r]), "ALLOW">>
<1>4. reasons'[r] = Append(reasons[r], reason)
  BY <1>2 DEF Conclude
<1>5. reasons[r] \in Seq(Known \X {"ALLOW", "MISS"}) /\ reason \in Known \X {"ALLOW", "MISS"}
  BY <1>3
<1>6. Last(reasons'[r]) = reason
  <2> HIDE DEF reason
  <2>1. QED
    BY <1>4, <1>5 DEF Last
<1>7. Allower(r)' = Head(rest[r])
  BY <1>6 DEF Allower, Last
<1>8. QED
  BY <1>2, <1>7

\* Once a request is answered its reasons stay.
LEMMA AnswerStays ==
  ASSUME TypeInv, [Next]_vars, NEW r \in Request, answer[r] # "none"
  PROVE  /\ ~ (Authorize(r) \/ Guard(r) \/ Handler(r) \/ Fail(r))
         /\ UNCHANGED <<stage[r], query[r], rest[r], reasons[r], answer[r], Allower(r)>>
<1>1. stage[r] = "done"
  BY DEF TypeInv, StageInv
<1>2. ~ (Authorize(r) \/ Guard(r) \/ Handler(r) \/ Fail(r))
  BY <1>1, OwnStep DEF Authorize, Guard, Arrive, Running
<1>3. QED
  BY <1>2, OthersStay DEF Allower

LEMMA GroundedStep ==
  TypeInv /\ GrantedInv /\ GroundedInv /\ [Next]_vars => GroundedInv'
<1> SUFFICES ASSUME TypeInv, GrantedInv, GroundedInv, [Next]_vars, NEW r \in Request,
                    answer'[r] = "allowed", Sound(Allower(r)')
             PROVE  Allower(r)' \in granted'[r]
  BY DEF GroundedInv, Allower, Last, Sound
<1>1. CASE answer[r] = "none" /\ (Handler(r) \/ Fail(r))
  <2> PICK model : model = Head(rest[r])
    OBVIOUS
  <2>1. stage[r] = "loop" /\ Allower(r)' = model
    BY <1>1, AllowNames
  <2>2. rest[r] \in Seq(Known) /\ rest[r] # <<>>
    BY <2>1 DEF TypeInv, TypeOK
  <2>3. model \in Known /\ Sound(model)
    BY <2>1, <2>2
  <2>4. Grants(db, query[r], model)
    BY <1>1, <2>3, ConcludesTruly
  <2>5. Running(r) /\ UNCHANGED granted
    BY <1>1, OwnStep DEF history
  <2>6. QED
    BY <2>1, <2>3, <2>4, <2>5 DEF GrantedInv, Granting
<1>2. CASE answer[r] = "none" /\ ~ (Handler(r) \/ Fail(r))
  BY <1>2, OthersStay DEF Authorize, Guard, Arrive
<1>3. CASE answer[r] # "none"
  BY <1>3, AnswerStays, OthersStay DEF GroundedInv
<1>4. QED
  BY <1>1, <1>2, <1>3

LEMMA GroundedInvariant == Spec => []GroundedInv
<1>1. Init => GroundedInv
  BY DEF Init, GroundedInv
<1>2. QED
  BY <1>1, GroundedStep, TypeInvariant, GrantedInvariant, PTL DEF Spec

(* An ALLOW of RBAC, ACL or ReBAC was true: at some one moment between the *)
(* request and its answer the rows granted it, whatever was edited around  *)
(* the queries.  ReBAC needs that organisations share their ids with no    *)
(* other kind of node, which its query does not look at: see the run       *)
(* chains.                                                                 *)
THEOREM Grounded == OrgsApart => (Spec => []AllowIsGrounded)
<1> SUFFICES ASSUME OrgsApart PROVE Spec => []AllowIsGrounded
  OBVIOUS
<1>1. GroundedInv => AllowIsGrounded
  BY DEF GroundedInv, AllowIsGrounded, Sound
<1>2. QED
  BY <1>1, GroundedInvariant, PTL

\* What AllowIsGrounded says of RBAC and ACL.
RbacAndAclAreGrounded == \A r \in Request :
  answer[r] = "allowed" /\ Allower(r) \in {"RBAC", "ACL"} => Allower(r) \in granted[r]

(* RBAC and ACL, which ask one exact question, need no such premise: their *)
(* ALLOW was true of the rows at some one moment of the request.           *)
THEOREM RbacAndAclGrounded == Spec => []RbacAndAclAreGrounded
<1>1. GroundedInv => RbacAndAclAreGrounded
  <2>1. \A model \in {"RBAC", "ACL"} : Sound(model)
    BY DEF Sound
  <2>2. QED
    BY <2>1 DEF GroundedInv, RbacAndAclAreGrounded
<1>2. QED
  BY <1>1, GroundedInvariant, PTL

-----------------------------------------------------------------------------
(* ABAC, which reads two tables at two moments.                            *)

\* What a path resolves to are values the rows give it.
LEMMA ResolveUser ==
  ASSUME NEW rows \in SUBSET Row, NEW q, NEW path, IsPath(path), path[1] = "user",
         NEW attributes \in FromEntries(UserRows(rows, q.user)),
         NEW scopes, scopes.user = UserScope(q.user, attributes)
  PROVE  Resolve(scopes, path) \in Values(rows, q, path)
<1> PICK key : key = path[2]
  OBVIOUS
<1> DEFINE stored == {row \in rows : /\ "key" \in DOMAIN row /\ row.key = key
                                     /\ row.table = "user_attributes" /\ row.user = q.user}
<1>1. \A row \in UserRows(rows, q.user) : "key" \in DOMAIN row
  BY SchemaAssumption DEF UserRows, From, UserAttribute
<1>2. /\ DOMAIN attributes = {row.key : row \in UserRows(rows, q.user)}
      /\ \A k \in DOMAIN attributes :
           \E row \in UserRows(rows, q.user) : row.key = k /\ row.value = attributes[k]
  BY DEF FromEntries
<1>3. path = <<"user", key>>
  BY DEF IsPath
<1>4. Values(rows, q, path) = IF stored # {} THEN {row.value : row \in stored}
                              ELSE IF key = "id" THEN {q.user} ELSE {Undefined}
  BY <1>3 DEF Values
<1>5. Resolve(scopes, path) = IF key \in DOMAIN attributes THEN attributes[key]
                              ELSE IF key = "id" THEN q.user ELSE Undefined
  BY <1>3 DEF Resolve, UserScope
<1>6. CASE key \in DOMAIN attributes
  <2>1. PICK row \in UserRows(rows, q.user) : row.key = key /\ row.value = attributes[key]
    BY <1>2, <1>6
  <2>2. row \in stored
    BY <1>1, <2>1 DEF UserRows, From
  <2>3. QED
    BY <1>4, <1>5, <1>6, <2>1, <2>2
<1>7. CASE key \notin DOMAIN attributes
  <2>1. stored = {}
    BY <1>2, <1>7 DEF UserRows, From
  <2>2. QED
    BY <1>4, <1>5, <1>7, <2>1
<1>8. QED
  BY <1>6, <1>7

LEMMA ResolveResource ==
  ASSUME NEW rows \in SUBSET Row, NEW q, NEW path, IsPath(path), path[1] = "resource",
         NEW resource \in FromEntries(ResourceRows(rows, q.service, q.resource, q.id)),
         NEW scopes, scopes.resource = resource
  PROVE  Resolve(scopes, path) \in Values(rows, q, path)
<1> PICK key, found : key = path[2] /\ found = ResourceRows(rows, q.service, q.resource, q.id)
  OBVIOUS
<1> DEFINE stored == {row \in rows : /\ "key" \in DOMAIN row /\ row.key = key
                                     /\ q.id # NoId /\ row.table = "resource_attributes"
                                     /\ <<row.service, row.type, row.id>> =
                                          <<q.service, q.resource, q.id>>}
<1>1. \A row \in found : "key" \in DOMAIN row
  BY SchemaAssumption DEF ResourceRows, From, ResourceAttribute
<1>2. /\ DOMAIN resource = {row.key : row \in found}
      /\ \A k \in DOMAIN resource : \E row \in found : row.key = k /\ row.value = resource[k]
  BY DEF FromEntries
<1>3. path = <<"resource", key>>
  BY DEF IsPath
<1>4. Values(rows, q, path) = IF stored # {} THEN {row.value : row \in stored}
                              ELSE {Undefined}
  BY <1>3 DEF Values
<1>5. Resolve(scopes, path) = IF key \in DOMAIN resource THEN resource[key] ELSE Undefined
  BY <1>3 DEF Resolve
<1>6. CASE key \in DOMAIN resource
  <2>1. PICK row \in found : row.key = key /\ row.value = resource[key]
    BY <1>2, <1>6
  <2>2. row \in stored
    BY <1>1, <2>1 DEF ResourceRows, From
  <2>3. QED
    BY <1>4, <1>5, <1>6, <2>1, <2>2
<1>7. CASE key \notin DOMAIN resource
  <2>1. stored = {}
    BY <1>2, <1>7 DEF ResourceRows, From
  <2>2. QED
    BY <1>4, <1>5, <1>7, <2>1
<1>8. QED
  BY <1>6, <1>7

LEMMA ResolveEnvironment ==
  ASSUME NEW rows, NEW q, NEW path, IsPath(path), path[1] = "environment",
         NEW scopes, scopes.environment = q.context
  PROVE  Resolve(scopes, path) \in Values(rows, q, path)
<1>1. path = <<"environment", path[2]>>
  BY DEF IsPath
<1>2. Values(rows, q, path) = IF path[2] \in DOMAIN q.context THEN {q.context[path[2]]}
                              ELSE {Undefined}
  BY <1>1 DEF Values
<1>3. QED
  BY <1>1, <1>2 DEF Resolve

LEMMA QueryRules ==
  ASSUME NEW q \in Queries
  PROVE  \A rule \in q.rules : IsPath(rule[1]) /\ IsPath(rule[2])
<1>1. CASE q \in Query
  BY <1>1, EngineAssumption
<1>2. CASE q \in GuardQueries
  <2>1. q.rules = DefaultRules
    BY <1>2 DEF GuardQueries, GuardQuery
  <2>2. QED
    BY <2>1 DEF DefaultRules, IsPath
<1>3. QED
  BY <1>1, <1>2 DEF Queries

LEMMA OutcomeOf ==
  ASSUME NEW user, NEW userRows, NEW resourceRows, NEW rules, NEW context,
         NEW allowed \in AbacOutcomes(user, userRows, resourceRows, rules, context)
  PROVE  \E attributes \in FromEntries(userRows), resource \in FromEntries(resourceRows) :
           allowed = AnyRule(rules, Scopes(user, attributes, resource, context))
BY DEF AbacOutcomes

\* On the rows of one moment a true rule is a grant.
LEMMA AbacGrants ==
  ASSUME NEW rows \in SUBSET Row, NEW q \in Queries,
         NEW allowed \in AbacOutcomes(q.user, UserRows(rows, q.user),
                    ResourceRows(rows, q.service, q.resource, q.id), q.rules, q.context)
  PROVE  allowed => Grants(rows, q, "ABAC")
<1>1. PICK attributes \in FromEntries(UserRows(rows, q.user)),
           resource \in FromEntries(ResourceRows(rows, q.service, q.resource, q.id)) :
        allowed = AnyRule(q.rules, Scopes(q.user, attributes, resource, q.context))
  BY OutcomeOf
<1> PICK scopes : scopes = Scopes(q.user, attributes, resource, q.context)
  OBVIOUS
<1>2. /\ scopes.user = UserScope(q.user, attributes)
      /\ scopes.resource = resource /\ scopes.environment = q.context
  BY DEF Scopes
<1>3. ASSUME NEW path, IsPath(path) PROVE Resolve(scopes, path) \in Values(rows, q, path)
  <2>1. path[1] \in {"user", "resource", "environment"}
    BY <1>3 DEF IsPath
  <2>2. QED
    BY <1>2, <1>3, <2>1, ResolveUser, ResolveResource, ResolveEnvironment
<1>4. ASSUME NEW rule \in q.rules, Resolve(scopes, rule[1]) = Resolve(scopes, rule[2])
      PROVE  Grants(rows, q, "ABAC")
  <2>1. IsPath(rule[1]) /\ IsPath(rule[2])
    BY QueryRules
  <2>2. Values(rows, q, rule[1]) \cap Values(rows, q, rule[2]) # {}
    BY <1>3, <1>4, <2>1
  <2>3. QED
    BY <2>2 DEF Grants
<1>5. QED
  BY <1>1, <1>4 DEF AnyRule

LEMMA AbacStep == TypeInv /\ AbacInv /\ [Next]_vars => AbacInv'
<1> SUFFICES ASSUME TypeInv, AbacInv, [Next]_vars, NEW r \in Request,
                    stage'[r] = "loop", held'[r] # NoRows, Head(rest'[r]) = "ABAC"
             PROVE  (UserRows(db', query'[r].user) \ held'[r])
                      \cup (held'[r] \ UserRows(db', query'[r].user))
                        \subseteq UserRows(touched'[r], query'[r].user)
  BY DEF AbacInv
<1> USE DEF TypeInv, TypeOK
<1>1. ~ (Authorize(r) \/ Guard(r))
  BY DEF Authorize, Guard, Arrive
<1>2. CASE Handler(r) \/ Fail(r)
  <2>1. UNCHANGED <<db, query, touched>>
    BY <1>2, OwnStep DEF tables, history
  <2>2. Continues(r)
    BY <1>2, Kinds DEF FindService, StageInv, Concludes, Conclude, Hold, Abort, Finish
  <2>3. Head(rest[r]) = "ABAC" /\ held'[r] = UserRows(db, query[r].user)
    BY <2>2 DEF Continues, Continue, Hold
  <2>4. QED
    BY <2>1, <2>3
<1>3. CASE ~ (Authorize(r) \/ Guard(r) \/ Handler(r) \/ Fail(r))
  <2>1. UNCHANGED <<stage[r], query[r], rest[r], held[r]>>
    BY <1>3, OthersStay
  <2>2. (UserRows(db, query[r].user) \ held[r]) \cup (held[r] \ UserRows(db, query[r].user))
          \subseteq UserRows(touched[r], query[r].user)
    BY <2>1 DEF AbacInv
  <2>3. CASE UNCHANGED <<db, touched[r]>>
    BY <2>1, <2>2, <2>3
  <2>4. CASE touched'[r] = touched[r] \cup (db \ db') \cup (db' \ db)
    BY <2>1, <2>2, <2>4 DEF UserRows, From
  <2>5. QED
    BY <1>3, <2>1, <2>3, <2>4, OthersStay
<1>4. QED
  BY <1>1, <1>2, <1>3

LEMMA AbacInvariant == Spec => []AbacInv
<1>1. Init => AbacInv
  BY DEF Init, AbacInv
<1>2. QED
  BY <1>1, AbacStep, TypeInvariant, PTL DEF Spec

\* The step that answers for ABAC finds it granted, or the attributes of the
\* user touched.
LEMMA AbacTruly ==
  ASSUME TypeInv, AbacInv, NEW r \in Request, Handler(r) \/ Fail(r),
         answer'[r] = "allowed", Head(rest[r]) = "ABAC",
         UserRows(touched[r], query[r].user) = {}
  PROVE  Grants(db, query[r], "ABAC")
<1> USE DEF TypeInv, TypeOK
<1> PICK q : q = query[r]
  OBVIOUS
<1>1. /\ stage[r] = "loop" /\ answer[r] = "none"
      /\ db \in SUBSET Row /\ q \in Queries
  BY AllowNames, OwnStep DEF Running, StageInv
<1>2. ASSUME NEW allowed, Conclude(r, allowed) PROVE allowed
  BY <1>1, <1>2 DEF Conclude, Finish
<1>3. \A other \in {"RBAC", "ACL", "PBAC", "ReBAC"} : ~Evaluates(r, other)
  BY DEF Evaluates
<1>4. AbacUser(r) \/ AbacResource(r)
  BY <1>1, <1>3 DEF Handler, OwnQuery, FindService, Rbac, Acl, Pbac, PbacThrows,
     RebacDirect, RebacViaOrg, Fail, Abort, Finish
<1>5. CASE AbacUser(r)
  <2>1. q.id = NoId
    BY <1>1, <1>5 DEF AbacUser, Continue
  <2>2. ResourceRows(db, q.service, q.resource, q.id) = {}
    BY <2>1 DEF ResourceRows
  <2>3. PICK allowed \in AbacOutcomes(q.user, UserRows(db, q.user), {}, q.rules, q.context) :
          Conclude(r, allowed)
    BY <1>5, <2>1 DEF AbacUser
  <2>4. allowed = TRUE
    BY <1>2, <2>3 DEF AbacOutcomes, AnyRule
  <2>5. QED
    BY <1>1, <2>2, <2>3, <2>4, AbacGrants
<1>6. CASE AbacResource(r)
  <2>1. held[r] = UserRows(db, q.user)
    BY <1>1, <1>6 DEF AbacInv, AbacResource, UserRows, From
  <2>2. PICK allowed \in AbacOutcomes(q.user, held[r],
                           ResourceRows(db, q.service, q.resource, q.id), q.rules, q.context) :
          Conclude(r, allowed)
    BY <1>6 DEF AbacResource
  <2>3. allowed = TRUE
    BY <1>2, <2>2 DEF AbacOutcomes, AnyRule
  <2>4. QED
    BY <1>1, <2>1, <2>2, <2>3, AbacGrants
<1>7. QED
  BY <1>4, <1>5, <1>6

LEMMA AbacGroundedStep ==
  TypeInv /\ GrantedInv /\ AbacInv /\ AbacAllowIsGrounded /\ [Next]_vars
    => AbacAllowIsGrounded'
<1> SUFFICES ASSUME TypeInv, GrantedInv, AbacInv, AbacAllowIsGrounded, [Next]_vars,
                    NEW r \in Request, answer'[r] = "allowed", Allower(r)' = "ABAC",
                    UserRows(touched'[r], query'[r].user) = {}
             PROVE  "ABAC" \in granted'[r]
  BY DEF AbacAllowIsGrounded, Allower, Last
<1>1. CASE answer[r] = "none" /\ (Handler(r) \/ Fail(r))
  <2>1. Running(r) /\ UNCHANGED <<query, granted, touched>>
    BY <1>1, OwnStep DEF history
  <2>2. Head(rest[r]) = "ABAC"
    BY <1>1, AllowNames
  <2>3. Grants(db, query[r], "ABAC")
    BY <1>1, <2>1, <2>2, AbacTruly
  <2>4. QED
    BY <2>1, <2>3 DEF GrantedInv, Granting, Known
<1>2. CASE answer[r] = "none" /\ ~ (Handler(r) \/ Fail(r))
  BY <1>2, OthersStay DEF Authorize, Guard, Arrive
<1>3. CASE answer[r] # "none"
  <2>1. /\ UNCHANGED <<stage[r], query[r], answer[r], Allower(r)>>
        /\ granted[r] \subseteq granted'[r]
    BY <1>3, AnswerStays, OthersStay
  <2>2. stage[r] = "done"
    BY <1>3 DEF TypeInv, StageInv
  <2>3. touched[r] \subseteq touched'[r]
    BY <1>3, <2>2, AnswerStays, OthersStay
  <2>4. UserRows(touched[r], query[r].user) = {}
    BY <2>1, <2>3 DEF UserRows, From
  <2>5. QED
    BY <2>1, <2>4 DEF AbacAllowIsGrounded
<1>4. QED
  BY <1>1, <1>2, <1>3 DEF TypeInv, TypeOK

(* An ALLOW of ABAC was true at some one moment of the request, although   *)
(* the attributes of user and resource are read one after the other,       *)
(* unless an attribute of the user was edited meanwhile.                   *)
THEOREM AbacGrounded == Spec => []AbacAllowIsGrounded
<1>1. Init => AbacAllowIsGrounded
  BY DEF Init, AbacAllowIsGrounded
<1>2. QED
  BY <1>1, AbacGroundedStep, TypeInvariant, GrantedInvariant, AbacInvariant, PTL DEF Spec

-----------------------------------------------------------------------------
(* What a DENY rests on.                                                   *)

\* What SteadyInv says of one request.
Unmoved(r) ==
  /\ \A i \in 1..Len(reasons[r]) :
       reasons[r][i][2] = "MISS" /\ Model(r, i) \in {"RBAC", "ACL", "ReBAC"} =>
         ~Grants(Steady(r), query[r], Model(r, i))
  /\ stage[r] = "loop" /\ held[r] # NoRows /\ Head(rest[r]) = "ReBAC" =>
       ~Direct(Steady(r), query[r].user, query[r].resource, query[r].id)

\* A model that misses finds nothing that has stayed all along.
LEMMA MissTruly ==
  ASSUME TypeInv, NEW r \in Request, Unmoved(r), Handler(r) \/ Fail(r), Conclude(r, FALSE),
         Head(rest[r]) \in {"RBAC", "ACL", "ReBAC"}
  PROVE  ~Grants(Steady(r), query[r], Head(rest[r]))
<1> USE DEF TypeInv, TypeOK
<1> PICK q : q = query[r]
  OBVIOUS
<1> DEFINE name == PermissionName(q.service, q.resource, q.action)
<1>1. db \in SUBSET Row /\ Steady(r) \in SUBSET db
  BY DEF Steady
<1>2. answer[r] = "none" /\ answer'[r] # "allowed" /\ Running(r)
  <2>1. answer[r] = "none" /\ Running(r)
    BY OwnStep DEF Running, StageInv
  <2>2. QED
    BY <2>1 DEF Conclude, Finish
<1>3. reasons'[r] # reasons[r]
  <2> DEFINE reason == <<Head(rest[r]), "MISS">>
  <2>1. reasons'[r] = Append(reasons[r], reason) /\ reason \in Known \X {"ALLOW", "MISS"}
    BY DEF Conclude, Known
  <2> HIDE DEF reason
  <2>2. reasons[r] \in Seq(Known \X {"ALLOW", "MISS"})
    OBVIOUS
  <2>3. Len(reasons'[r]) = Len(reasons[r]) + 1 /\ Len(reasons[r]) \in Nat
    BY <2>1, <2>2
  <2>4. QED
    BY <2>3
<1>4. \A model \in {"RBAC", "ACL", "ReBAC"} : Grants(Steady(r), q, model) => Grants(db, q, model)
  BY <1>1, GrantsMonotone
<1>5. CASE Rbac(r)
  <2>1. Head(rest[r]) = "RBAC" /\ Conclude(r, HasPermission(db, q.user, name, q.service))
    BY <1>5 DEF Rbac, Evaluates
  <2>2. ~HasPermission(db, q.user, name, q.service)
    BY <1>2, <2>1 DEF Conclude, Finish
  <2>3. QED
    BY <1>1, <1>4, <2>1, <2>2, RbacGrants
<1>6. CASE Acl(r)
  <2>1. Head(rest[r]) = "ACL" /\ Conclude(r, AclAllows(db, q.user, q.resource, q.id, name))
    BY <1>6 DEF Acl, Evaluates
  <2>2. ~AclAllows(db, q.user, q.resource, q.id, name)
    BY <1>2, <2>1 DEF Conclude, Finish
  <2>3. QED
    BY <1>1, <1>4, <2>1, <2>2, AclGrants
<1>7. CASE RebacDirect(r)
  <2>1. Head(rest[r]) = "ReBAC" /\ q.id = NoId
    BY <1>2, <1>3, <1>7 DEF RebacDirect, Evaluates, Continue, Conclude, Finish
  <2>2. QED
    BY <1>1, <2>1, RebacPaths
<1>8. CASE RebacViaOrg(r)
  <2>1. /\ Head(rest[r]) = "ReBAC" /\ ~Direct(Steady(r), q.user, q.resource, q.id)
        /\ Conclude(r, ViaOrg(db, q.user, q.resource, q.id))
    BY <1>8 DEF RebacViaOrg, Evaluates, Unmoved
  <2>2. ~ViaOrg(db, q.user, q.resource, q.id)
    BY <1>2, <2>1 DEF Conclude, Finish
  <2>3. ~ViaEdges(Steady(r), q)
    BY <1>1, <2>2 DEF ViaOrg, ViaEdges, NextRelationship, IsSubject, IsObject, From
  <2>4. QED
    BY <1>1, <2>1, <2>3, RebacPaths
<1>9. CASE AbacUser(r) \/ AbacResource(r) \/ Pbac(r)
  BY <1>9 DEF AbacUser, AbacResource, Pbac, Evaluates
<1>10. QED
  BY <1>3, <1>5, <1>6, <1>7, <1>8, <1>9 DEF Handler, OwnQuery, PbacThrows,
     Fail, Abort, FindService

LEMMA UnmovedStays ==
  ASSUME TypeInv, NEW r \in Request, Unmoved(r), Steady(r)' \subseteq Steady(r),
         UNCHANGED <<stage[r], query[r], rest[r], held[r], reasons[r]>>
  PROVE  Unmoved(r)'
<1>1. Steady(r) \in SUBSET Row
  BY DEF Steady, TypeInv, TypeOK
<1> PICK later : later = Steady(r)'
  OBVIOUS
<1>2. ASSUME NEW i \in 1..Len(reasons[r]), reasons[r][i][2] = "MISS",
             Model(r, i) \in {"RBAC", "ACL", "ReBAC"}
      PROVE  ~Grants(later, query[r], Model(r, i))
  BY <1>1, <1>2, GrantsMonotone DEF Unmoved
<1>3. Direct(later, query[r].user, query[r].resource, query[r].id)
        => Direct(Steady(r), query[r].user, query[r].resource, query[r].id)
  BY DEF Direct, From
<1>4. QED
  BY <1>2, <1>3 DEF Unmoved, Model

LEMMA SteadyStep == TypeInv /\ SteadyInv /\ [Next]_vars => SteadyInv'
<1> SUFFICES ASSUME TypeInv, SteadyInv, [Next]_vars, NEW r \in Request
             PROVE  Unmoved(r)'
  BY DEF SteadyInv, Unmoved
<1> USE DEF TypeInv, TypeOK
<1>1. Unmoved(r)
  BY DEF SteadyInv, Unmoved
<1>2. CASE Authorize(r) \/ Guard(r)
  <2>1. reasons'[r] = <<>> /\ stage'[r] = "find"
    BY <1>2 DEF Authorize, Guard, Arrive, StageInv
  <2>2. QED
    BY <2>1 DEF Unmoved
<1>3. CASE Handler(r) \/ Fail(r)
  <2>1. UNCHANGED <<db, query, touched, Steady(r)>>
    BY <1>3, OwnStep DEF tables, history, Steady
  <2>2. CASE FindService(r)
    <3>1. reasons'[r] = <<>> /\ held'[r] = NoRows
      BY <2>2 DEF FindService, StageInv
    <3>2. QED
      BY <3>1 DEF Unmoved
  <2>3. CASE Concludes(r)
    <3> DEFINE n == Len(reasons[r])
    <3> PICK model : model = Head(rest[r])
      OBVIOUS
    <3>1. PICK verdict \in {"ALLOW", "MISS"} :
            /\ reasons'[r] = Append(reasons[r], <<model, verdict>>)
            /\ verdict = "MISS" => Conclude(r, FALSE)
      BY <2>3 DEF Concludes, Conclude
    <3>2. /\ n \in Nat /\ model \in Known
          /\ reasons[r] \in Seq(Known \X {"ALLOW", "MISS"})
      BY <2>3 DEF Concludes
    <3>3. /\ Len(reasons'[r]) = n + 1 /\ reasons'[r][n + 1] = <<model, verdict>>
          /\ \A i \in 1..n : reasons'[r][i] = reasons[r][i]
      BY <3>1, <3>2
    <3>4. verdict = "MISS" /\ model \in {"RBAC", "ACL", "ReBAC"} =>
            ~Grants(Steady(r), query[r], model)
      BY <1>1, <1>3, <3>1, MissTruly
    <3>5. ASSUME NEW i \in 1..(n + 1), reasons'[r][i][2] = "MISS",
                 reasons'[r][i][1] \in {"RBAC", "ACL", "ReBAC"}
          PROVE  ~Grants(Steady(r), query[r], reasons'[r][i][1])
      <4>1. CASE i \in 1..n
        BY <1>1, <3>3, <3>5, <4>1 DEF Unmoved, Model
      <4>2. CASE i = n + 1
        BY <3>3, <3>4, <3>5, <4>2
      <4>3. i \in 1..n \/ i = n + 1
        BY <3>2
      <4>4. QED
        BY <4>1, <4>2, <4>3
    <3>6. held'[r] = NoRows
      BY <2>3 DEF Concludes, Conclude, Hold
    <3>7. QED
      BY <2>1, <3>3, <3>5, <3>6 DEF Unmoved, Model
  <2>4. CASE Continues(r)
    <3>1. UNCHANGED <<stage, rest, reasons>>
      BY <2>4 DEF Continues, Continue
    <3>2. Head(rest[r]) = "ReBAC" => ~Direct(db, query[r].user, query[r].resource, query[r].id)
      BY <2>4 DEF Continues
    <3>3. Head(rest[r]) = "ReBAC" =>
            ~Direct(Steady(r), query[r].user, query[r].resource, query[r].id)
      BY <3>2 DEF Direct, Steady, From
    <3>4. QED
      BY <1>1, <2>1, <3>1, <3>3 DEF Unmoved, Model
  <2>5. CASE Abort(r)
    <3>1. UNCHANGED reasons /\ stage'[r] = "done"
      BY <2>5 DEF Abort, Finish
    <3>2. QED
      BY <1>1, <2>1, <3>1 DEF Unmoved, Model
  <2>6. QED
    BY <1>3, <2>2, <2>3, <2>4, <2>5, Kinds
<1>4. CASE ~ (Authorize(r) \/ Guard(r) \/ Handler(r) \/ Fail(r))
  <2>1. UNCHANGED <<stage[r], query[r], rest[r], held[r], reasons[r]>>
    BY <1>4, OthersStay
  <2>2. CASE stage[r] = "idle"
    <3>1. reasons'[r] = <<>> /\ stage'[r] = "idle"
      BY <2>1, <2>2 DEF StageInv
    <3>2. QED
      BY <3>1 DEF Unmoved
  <2>3. CASE stage[r] # "idle"
    <3>1. Steady(r)' \subseteq Steady(r)
      BY <1>4, <2>3, OthersStay DEF Steady
    <3>2. QED
      BY <1>1, <2>1, <3>1, UnmovedStays
  <2>4. QED
    BY <2>2, <2>3
<1>5. QED
  BY <1>2, <1>3, <1>4

LEMMA SteadyInvariant == Spec => []SteadyInv
<1>1. Init => SteadyInv
  <2> SUFFICES ASSUME Init PROVE SteadyInv
    OBVIOUS
  <2>1. \A r \in Request : reasons[r] = <<>> /\ stage[r] = "idle"
    BY DEF Init
  <2>2. QED
    BY <2>1 DEF SteadyInv
<1>2. QED
  BY <1>1, SteadyStep, TypeInvariant, PTL DEF Spec

(* Rows that stay untouched from the request to its answer, and by         *)
(* themselves make RBAC, ACL or ReBAC grant where that model was enabled   *)
(* all along, get through: no edit around the queries hides them.          *)
THEOREM SteadyGrants == Spec => []SteadyGrantAllows
<1>1. TypeInv /\ ConfigInv /\ SteadyInv => SteadyGrantAllows
  <2> SUFFICES ASSUME TypeInv, ConfigInv, SteadyInv,
                      NEW r \in Request, answer[r] = "denied",
                      NEW model \in {"RBAC", "ACL", "ReBAC"},
                      \A models \in configs[r] : \E i \in DOMAIN models : models[i] = model
               PROVE  ~Grants(Steady(r), query[r], model)
    BY DEF SteadyGrantAllows, Steady
  <2>1. PICK models \in configs[r] \ {Unregistered} : Covers(r, models)
    BY DEF ConfigInv
  <2>2. rest[r] = <<>> /\ Misses(r, Len(reasons[r]))
    BY DEF ConfigInv
  <2>3. models \in Seq(STRING)
    BY EngineAssumption DEF TypeInv, TypeOK
  <2>4. /\ Evaluable(models) \in Seq(Known)
        /\ \E k \in DOMAIN Evaluable(models) : Evaluable(models)[k] = model
    BY <2>3, EvaluableModels DEF Known
  <2>5. PICK k \in DOMAIN Evaluable(models) : Evaluable(models)[k] = model
    BY <2>4
  <2>6. Len(Evaluable(models)) = Len(reasons[r]) /\ Len(reasons[r]) \in Nat
    BY <2>1, <2>2 DEF Covers, TypeInv, TypeOK
  <2>7. k \in 1..Len(reasons[r])
    BY <2>4, <2>5, <2>6
  <2>8. Model(r, k) = model /\ reasons[r][k][2] = "MISS"
    BY <2>1, <2>2, <2>5, <2>7 DEF Covers, Misses
  <2>9. QED
    BY <2>7, <2>8 DEF SteadyInv
<1>2. QED
  BY <1>1, TypeInvariant, ConfigInvariant, SteadyInvariant, PTL
=============================================================================
