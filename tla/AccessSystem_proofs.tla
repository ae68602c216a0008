------------------------- MODULE AccessSystem_proofs -------------------------
(***************************************************************************)
(* Proofs about access decisions as they are deployed: the engine with     *)
(* PbacService and its cache in it implements the engine with the contract *)
(* of AuthorizationEngine, so that what is proved of the two parts apart   *)
(* holds of them together.                                                 *)
(***************************************************************************)
EXTENDS AccessSystem, FiniteSetTheorems, TLAPS

\* The two parts once more, with what is proved about them.
EngineP == INSTANCE AuthorizationEngine_proofs WITH recent <- Recent

CacheP == INSTANCE PolicyCache_proofs WITH
  Request <- Request \cup Guarded,
  Policy <- From(Row, "policies"), policies <- From(db, "policies"),
  stage <- at, query <- asked

-----------------------------------------------------------------------------
(* The inductive invariant: the ones of the two parts, and what ties a     *)
(* request inside PbacService to the evaluation that waits for it.         *)

PbacInv == \A r \in Request : at[r] # "idle" =>
  /\ Engine!Evaluates(r, "PBAC")
  /\ asked[r] = <<Engine!TargetOf(query[r]), query[r].input>>
  /\ verdict[r] = "none"

Parts == EngineP!TypeInv /\ CacheP!CacheInv /\ CacheP!TypeOK

SystemInv == Parts /\ PbacInv

-----------------------------------------------------------------------------
(* An operator of Engine and that of EngineP, or of Cache and CacheP,      *)
(* are the same definition under two names; the provers have to be told.   *)

LEMMA SameEngineCardinality ==
  \A rows : Engine!Cardinality(rows) = EngineP!Cardinality(rows)
BY Zenon DEF Engine!Cardinality, EngineP!Cardinality

LEMMA SameEngineEvaluable ==
  \A models : Engine!Evaluable(models) = EngineP!Evaluable(models)
BY DEF Engine!Evaluable, EngineP!Evaluable, Engine!Keep, EngineP!Keep,
       Engine!Known, EngineP!Known

LEMMA SameEngineValues ==
  \A rows, q, path :
    Engine!Values(rows, q, path) = EngineP!Values(rows, q, path)
BY DEF Engine!Values, EngineP!Values, Engine!NoId, EngineP!NoId,
       Engine!Undefined, EngineP!Undefined

LEMMA SameEngineEdges == \A rows : Engine!Edges(rows) = EngineP!Edges(rows)
BY DEF Engine!Edges, EngineP!Edges, Engine!Node, EngineP!Node, Engine!From,
       EngineP!From

LEMMA SameEngineGrants ==
  \A rows, q, model :
    Engine!Grants(rows, q, model) <=> EngineP!Grants(rows, q, model)
BY SameEngineValues, SameEngineEdges DEF Engine!Grants, EngineP!Grants,
       Engine!PermissionName, EngineP!PermissionName, Engine!From,
       EngineP!From, Engine!RolePermission, EngineP!RolePermission,
       Engine!NoId, EngineP!NoId, Engine!Node, EngineP!Node, Engine!UserType,
       EngineP!UserType, Engine!OrgType, EngineP!OrgType

LEMMA SameEngineGranting ==
  \A rows, q : Engine!Granting(rows, q) = EngineP!Granting(rows, q)
BY SameEngineGrants DEF Engine!Granting, EngineP!Granting, Engine!Known,
       EngineP!Known

LEMMA SameEngineByPriority ==
  \A rows : Engine!ByPriority(rows) = EngineP!ByPriority(rows)
BY SameEngineCardinality DEF Engine!ByPriority, EngineP!ByPriority

LEMMA SameEngineDecision ==
  \A rows, input : Engine!Decision(rows, input) = EngineP!Decision(rows, input)
BY DEF Engine!Decision, EngineP!Decision, Engine!Stops, EngineP!Stops,
       Engine!Outcome, EngineP!Outcome

LEMMA SameEngineArrive ==
  \A r, q : Engine!Arrive(r, q) <=> EngineP!Arrive(r, q)
BY SameEngineGranting DEF Engine!Arrive, EngineP!Arrive, Engine!tables,
       EngineP!tables

LEMMA SameEngineFindService ==
  \A r : Engine!FindService(r) <=> EngineP!FindService(r)
BY SameEngineEvaluable DEF Engine!FindService, EngineP!FindService,
       Engine!Unregistered, EngineP!Unregistered, Engine!Finish,
       EngineP!Finish, Engine!tables, EngineP!tables, Engine!history,
       EngineP!history

LEMMA SameEngineRbac == \A r : Engine!Rbac(r) <=> EngineP!Rbac(r)
BY DEF Engine!Rbac, EngineP!Rbac, Engine!Evaluates, EngineP!Evaluates,
       Engine!Conclude, EngineP!Conclude, Engine!Finish, EngineP!Finish,
       Engine!Remaining, EngineP!Remaining, Engine!Hold, EngineP!Hold,
       Engine!tables, EngineP!tables, Engine!history, EngineP!history,
       Engine!HasPermission, EngineP!HasPermission, Engine!From, EngineP!From,
       Engine!PermissionName, EngineP!PermissionName

LEMMA SameEngineAbacUser == \A r : Engine!AbacUser(r) <=> EngineP!AbacUser(r)
BY DEF Engine!AbacUser, EngineP!AbacUser, Engine!Evaluates, EngineP!Evaluates,
       Engine!UserRows, EngineP!UserRows, Engine!From, EngineP!From,
       Engine!NoId, EngineP!NoId, Engine!Continue, EngineP!Continue,
       Engine!Hold, EngineP!Hold, Engine!tables, EngineP!tables,
       Engine!history, EngineP!history, Engine!AbacOutcomes,
       EngineP!AbacOutcomes, Engine!AnyRule, EngineP!AnyRule, Engine!Resolve,
       EngineP!Resolve, Engine!Undefined, EngineP!Undefined, Engine!Scopes,
       EngineP!Scopes, Engine!UserScope, EngineP!UserScope, Engine!FromEntries,
       EngineP!FromEntries, Engine!Conclude, EngineP!Conclude, Engine!Finish,
       EngineP!Finish, Engine!Remaining, EngineP!Remaining

LEMMA SameEngineAbacResource ==
  \A r : Engine!AbacResource(r) <=> EngineP!AbacResource(r)
BY DEF Engine!AbacResource, EngineP!AbacResource, Engine!Evaluates,
       EngineP!Evaluates, Engine!ResourceRows, EngineP!ResourceRows,
       Engine!From, EngineP!From, Engine!NoId, EngineP!NoId,
       Engine!AbacOutcomes, EngineP!AbacOutcomes, Engine!AnyRule,
       EngineP!AnyRule, Engine!Resolve, EngineP!Resolve, Engine!Undefined,
       EngineP!Undefined, Engine!Scopes, EngineP!Scopes, Engine!UserScope,
       EngineP!UserScope, Engine!FromEntries, EngineP!FromEntries,
       Engine!Conclude, EngineP!Conclude, Engine!Finish, EngineP!Finish,
       Engine!Remaining, EngineP!Remaining, Engine!Hold, EngineP!Hold,
       Engine!tables, EngineP!tables, Engine!history, EngineP!history

LEMMA SameEngineAcl == \A r : Engine!Acl(r) <=> EngineP!Acl(r)
BY DEF Engine!Acl, EngineP!Acl, Engine!Evaluates, EngineP!Evaluates,
       Engine!Conclude, EngineP!Conclude, Engine!Finish, EngineP!Finish,
       Engine!Remaining, EngineP!Remaining, Engine!Hold, EngineP!Hold,
       Engine!tables, EngineP!tables, Engine!history, EngineP!history,
       Engine!AclAllows, EngineP!AclAllows, Engine!NoId, EngineP!NoId,
       Engine!AclEntry, EngineP!AclEntry, Engine!PermissionName,
       EngineP!PermissionName

LEMMA SameEngineRebacDirect ==
  \A r : Engine!RebacDirect(r) <=> EngineP!RebacDirect(r)
BY DEF Engine!RebacDirect, EngineP!RebacDirect, Engine!Evaluates,
       EngineP!Evaluates, Engine!NoId, EngineP!NoId, Engine!Conclude,
       EngineP!Conclude, Engine!Finish, EngineP!Finish, Engine!Remaining,
       EngineP!Remaining, Engine!Hold, EngineP!Hold, Engine!tables,
       EngineP!tables, Engine!history, EngineP!history, Engine!Direct,
       EngineP!Direct, Engine!From, EngineP!From, Engine!IsSubject,
       EngineP!IsSubject, Engine!UserType, EngineP!UserType, Engine!IsObject,
       EngineP!IsObject, Engine!Continue, EngineP!Continue

LEMMA SameEngineRebacViaOrg ==
  \A r : Engine!RebacViaOrg(r) <=> EngineP!RebacViaOrg(r)
BY DEF Engine!RebacViaOrg, EngineP!RebacViaOrg, Engine!Evaluates,
       EngineP!Evaluates, Engine!Conclude, EngineP!Conclude, Engine!Finish,
       EngineP!Finish, Engine!Remaining, EngineP!Remaining, Engine!Hold,
       EngineP!Hold, Engine!tables, EngineP!tables, Engine!history,
       EngineP!history, Engine!ViaOrg, EngineP!ViaOrg, Engine!From,
       EngineP!From, Engine!IsSubject, EngineP!IsSubject, Engine!UserType,
       EngineP!UserType, Engine!OrgType, EngineP!OrgType,
       Engine!NextRelationship, EngineP!NextRelationship, Engine!IsObject,
       EngineP!IsObject

LEMMA SameEngineAlike ==
  \A target, targets : Engine!Alike(target, targets) = EngineP!Alike(target, targets)
BY DEF Engine!Alike, EngineP!Alike, Engine!Joined, EngineP!Joined

LEMMA SameEnginePbac == \A r : Engine!Pbac(r) <=> EngineP!Pbac(r)
<1>1. \A r, allowed : Engine!Conclude(r, allowed) <=> EngineP!Conclude(r, allowed)
  BY DEF Engine!Conclude, EngineP!Conclude, Engine!Finish, EngineP!Finish,
         Engine!Remaining, EngineP!Remaining, Engine!Hold, EngineP!Hold,
         Engine!tables, EngineP!tables, Engine!history, EngineP!history
<1>2. /\ \A q : Engine!TargetOf(q) = EngineP!TargetOf(q)
      /\ \A rows, target : Engine!PoliciesFor(rows, target) = EngineP!PoliciesFor(rows, target)
  BY DEF Engine!PoliciesFor, EngineP!PoliciesFor, Engine!TargetOf, EngineP!TargetOf
<1>3. QED
  BY <1>1, <1>2, SameEngineByPriority, SameEngineAlike, SameEngineDecision
     DEF Engine!Pbac, EngineP!Pbac, Engine!Evaluates, EngineP!Evaluates

LEMMA SameEnginePbacThrows ==
  \A r : Engine!PbacThrows(r) <=> EngineP!PbacThrows(r)
BY SameEngineByPriority, SameEngineDecision, SameEngineAlike
   DEF Engine!PbacThrows, EngineP!PbacThrows, Engine!Evaluates, EngineP!Evaluates,
       Engine!PoliciesFor, EngineP!PoliciesFor, Engine!TargetOf,
       EngineP!TargetOf, Engine!Abort, EngineP!Abort, Engine!Finish,
       EngineP!Finish, Engine!tables, EngineP!tables, Engine!history,
       EngineP!history

LEMMA SameEngineFail == \A r : Engine!Fail(r) <=> EngineP!Fail(r)
BY DEF Engine!Fail, EngineP!Fail, Engine!Running, EngineP!Running,
       Engine!Abort, EngineP!Abort, Engine!Finish, EngineP!Finish,
       Engine!tables, EngineP!tables, Engine!history, EngineP!history

LEMMA SameEngineEdit == Engine!Edit <=> EngineP!Edit
BY SameEngineGranting DEF Engine!Edit, EngineP!Edit, Engine!EditRow,
       EngineP!EditRow, Engine!Legal, EngineP!Legal, Engine!From, EngineP!From,
       Engine!RecordEdit, EngineP!RecordEdit, Engine!Running, EngineP!Running,
       Engine!handler, EngineP!handler

LEMMA SameEngineReconfigure == Engine!Reconfigure <=> EngineP!Reconfigure
BY DEF Engine!Reconfigure, EngineP!Reconfigure, Engine!Running,
       EngineP!Running, Engine!handler, EngineP!handler

LEMMA SameEngineForget == Engine!Forget <=> EngineP!Forget
BY DEF Engine!Forget, EngineP!Forget, Engine!From, EngineP!From,
       Engine!handler, EngineP!handler, Engine!history, EngineP!history

LEMMA SameEngineNext == Engine!Next <=> EngineP!Next
BY SameEngineArrive, SameEngineFindService, SameEngineRbac, SameEngineAbacUser,
       SameEngineAbacResource, SameEngineAcl, SameEngineRebacDirect,
       SameEngineRebacViaOrg, SameEnginePbac, SameEnginePbacThrows,
       SameEngineFail, SameEngineEdit, SameEngineReconfigure, SameEngineForget
       DEF Engine!Next, EngineP!Next, Engine!Authorize, EngineP!Authorize,
       Engine!Guard, EngineP!Guard, Engine!GuardQueries, EngineP!GuardQueries,
       Engine!GuardQuery, EngineP!GuardQuery, Engine!SplitPermission,
       EngineP!SplitPermission, Engine!DefaultRules, EngineP!DefaultRules,
       Engine!Handler, EngineP!Handler, Engine!OwnQuery, EngineP!OwnQuery

LEMMA SameEngineInit == Engine!Init <=> EngineP!Init
BY DEF Engine!Init, EngineP!Init, Engine!Legal, EngineP!Legal, Engine!From,
       EngineP!From, Engine!Unregistered, EngineP!Unregistered, Engine!Queries,
       EngineP!Queries, Engine!GuardQueries, EngineP!GuardQueries,
       Engine!GuardQuery, EngineP!GuardQuery, Engine!SplitPermission,
       EngineP!SplitPermission, Engine!DefaultRules, EngineP!DefaultRules

LEMMA SameEngineTypeOK == Engine!TypeOK <=> EngineP!TypeOK
BY DEF Engine!TypeOK, EngineP!TypeOK, Engine!Legal, EngineP!Legal, Engine!From,
       EngineP!From, Engine!Unregistered, EngineP!Unregistered, Engine!Queries,
       EngineP!Queries, Engine!GuardQueries, EngineP!GuardQueries,
       Engine!GuardQuery, EngineP!GuardQuery, Engine!SplitPermission,
       EngineP!SplitPermission, Engine!DefaultRules, EngineP!DefaultRules,
       Engine!Known, EngineP!Known, Engine!TwoQueries, EngineP!TwoQueries

LEMMA SameCacheCardinality ==
  \A rows : Cache!Cardinality(rows) = CacheP!Cardinality(rows)
BY Zenon DEF Cache!Cardinality, CacheP!Cardinality

LEMMA SameCacheByPriority ==
  \A rows : Cache!ByPriority(rows) = CacheP!ByPriority(rows)
BY SameCacheCardinality DEF Cache!ByPriority, CacheP!ByPriority

LEMMA SameCacheDecision ==
  \A rows, input : Cache!Decision(rows, input) = CacheP!Decision(rows, input)
BY DEF Cache!Decision, CacheP!Decision, Cache!Stops, CacheP!Stops,
       Cache!Outcome, CacheP!Outcome

LEMMA SameCacheEvaluate ==
  \A r, target, input :
    Cache!Evaluate(r, target, input) <=> CacheP!Evaluate(r, target, input)
BY DEF Cache!Evaluate, CacheP!Evaluate, Cache!table, CacheP!table

LEMMA SameCacheCacheGet == \A r : Cache!CacheGet(r) <=> CacheP!CacheGet(r)
BY SameCacheDecision DEF Cache!CacheGet, CacheP!CacheGet, Cache!KeyOf,
       CacheP!KeyOf, Cache!CacheKey, CacheP!CacheKey, Cache!Hit, CacheP!Hit,
       Cache!Decide, CacheP!Decide, Cache!Return, CacheP!Return, Cache!table,
       CacheP!table

LEMMA SameCacheFind == \A r : Cache!Find(r) <=> CacheP!Find(r)
BY SameCacheByPriority DEF Cache!Find, CacheP!Find, Cache!Matching,
       CacheP!Matching, Cache!table, CacheP!table

LEMMA SameCacheFill == \A r : Cache!Fill(r) <=> CacheP!Fill(r)
BY SameCacheDecision DEF Cache!Fill, CacheP!Fill, Cache!KeyOf, CacheP!KeyOf,
       Cache!CacheKey, CacheP!CacheKey, Cache!EntryExpiry, CacheP!EntryExpiry,
       Cache!SetEx, CacheP!SetEx, Cache!Decide, CacheP!Decide, Cache!Return,
       CacheP!Return, Cache!table, CacheP!table

LEMMA SameCacheFail == \A r : Cache!Fail(r) <=> CacheP!Fail(r)
BY DEF Cache!Fail, CacheP!Fail, Cache!Return, CacheP!Return, Cache!table,
       CacheP!table

LEMMA SameCacheRedisLoses ==
  \A key : Cache!RedisLoses(key) <=> CacheP!RedisLoses(key)
BY DEF Cache!RedisLoses, CacheP!RedisLoses, Cache!Empty, CacheP!Empty,
       Cache!Absent, CacheP!Absent, Cache!table, CacheP!table, Cache!requests,
       CacheP!requests

LEMMA SameCacheEdit == Cache!Edit <=> CacheP!Edit
BY SameCacheCardinality DEF Cache!Edit, CacheP!Edit, Cache!requests, CacheP!requests

LEMMA SameCacheTick == Cache!Tick <=> CacheP!Tick
BY DEF Cache!Tick, CacheP!Tick, Cache!Recently, CacheP!Recently, Cache!Window,
       CacheP!Window, Cache!requests, CacheP!requests

LEMMA SameCacheNext == Cache!Next <=> CacheP!Next
BY SameCacheEvaluate, SameCacheCacheGet, SameCacheFind, SameCacheFill,
       SameCacheFail, SameCacheRedisLoses, SameCacheEdit, SameCacheTick DEF
       Cache!Next, CacheP!Next, Cache!Asks, CacheP!Asks, Cache!Key, CacheP!Key,
       Cache!CacheKey, CacheP!CacheKey

LEMMA SameCacheInit == Cache!Init <=> CacheP!Init
BY DEF Cache!Init, CacheP!Init, Cache!Key, CacheP!Key, Cache!CacheKey,
       CacheP!CacheKey, Cache!Empty, CacheP!Empty, Cache!Absent, CacheP!Absent

LEMMA SameCacheTypeOK == Cache!TypeOK <=> CacheP!TypeOK
BY SameCacheCardinality DEF Cache!TypeOK, CacheP!TypeOK, Cache!Key, CacheP!Key,
       Cache!CacheKey, CacheP!CacheKey, Cache!Lists, CacheP!Lists,
       Cache!Expiry, CacheP!Expiry

-----------------------------------------------------------------------------
(* What the parts bring.                                                   *)

\* The assumptions of the parts, under the names their proofs have.
LEMMA PartsAssume ==
  /\ CacheP!PolicyCacheAssumption /\ CacheP!TableAssumption /\ CacheP!NeverAssumption
  /\ EngineP!EngineAssumption /\ EngineP!SchemaAssumption
<1>1. Cache!IsFiniteSet(From(Row, "policies")) <=> CacheP!IsFiniteSet(From(Row, "policies"))
  BY Zenon DEF Cache!IsFiniteSet, CacheP!IsFiniteSet
<1>2. CacheP!PolicyCacheAssumption /\ CacheP!TableAssumption
  BY <1>1, PartsAssumption
<1>3. CacheP!NeverAssumption
  BY PartsAssumption
<1>4. EngineP!EngineAssumption
  BY PartsAssumption
     DEF Engine!IsPath, EngineP!IsPath, Engine!Unregistered, EngineP!Unregistered
<1>5. EngineP!SchemaAssumption
  BY PartsAssumption
     DEF Engine!RolePermission, EngineP!RolePermission,
         Engine!AclEntry, EngineP!AclEntry,
         Engine!UserAttribute, EngineP!UserAttribute,
         Engine!ResourceAttribute, EngineP!ResourceAttribute
<1>6. QED
  BY <1>2, <1>3, <1>4, <1>5

\* What the parts' invariants say of the variables both read.
LEMMA Shape ==
  ASSUME Parts
  PROVE  /\ db \subseteq Row /\ now \in Nat
         /\ stage = [r \in Request |-> stage[r]]
         /\ query = [r \in Request |-> query[r]]
         /\ rest = [r \in Request |-> rest[r]]
         /\ reasons = [r \in Request |-> reasons[r]]
         /\ \A r \in Request : query[r] \in Engine!Queries /\ Len(reasons[r]) \in Nat
         /\ at = [r \in Request \cup Guarded |-> at[r]]
         /\ asked = [r \in Request \cup Guarded |-> asked[r]]
         /\ verdict = [r \in Request \cup Guarded |-> verdict[r]]
         /\ <<now, From(db, "policies")>> \in seen
<1>1. Engine!TypeOK /\ CacheP!TypeOK
  BY SameEngineTypeOK DEF Parts, EngineP!TypeInv
<1>2. /\ db \subseteq Row
      /\ stage = [r \in Request |-> stage[r]]
      /\ query = [r \in Request |-> query[r]]
      /\ rest = [r \in Request |-> rest[r]]
      /\ reasons = [r \in Request |-> reasons[r]]
      /\ \A r \in Request : query[r] \in Engine!Queries /\ Len(reasons[r]) \in Nat
  BY <1>1 DEF Engine!TypeOK
<1>3. /\ now \in Nat
      /\ at = [r \in Request \cup Guarded |-> at[r]]
      /\ asked = [r \in Request \cup Guarded |-> asked[r]]
      /\ verdict = [r \in Request \cup Guarded |-> verdict[r]]
  BY <1>1 DEF CacheP!TypeOK
<1>4. <<now, From(db, "policies")>> \in seen
  BY DEF Parts, CacheP!CacheInv, CacheP!HistoryInv
<1>5. QED
  BY <1>2, <1>3, <1>4

-----------------------------------------------------------------------------
(* Every step of the system is a step of the cache, or none.               *)

\* An edit of any row is, for the cache, one that may leave the policies alone.
LEMMA EditCache == SystemInv /\ Edit => Cache!Edit
<1> SUFFICES ASSUME SystemInv, Edit PROVE Cache!Edit
  OBVIOUS
<1>1. db \subseteq Row
  BY Shape DEF SystemInv
<1>2. From(db', "policies") \in SUBSET From(Row, "policies")
  BY <1>1 DEF Edit, Engine!EditRow, From
<1>3. \A set : Cache!Cardinality(set) = Cardinality(set)
  BY Zenon DEF Cache!Cardinality, Cardinality
<1>4. QED
  BY <1>2, <1>3 DEF Edit, Cache!Edit, Cache!requests

LEMMA CacheStep == SystemInv /\ [Next]_vars => [Cache!Next]_(Cache!vars)
<1> SUFFICES ASSUME SystemInv, [Next]_vars PROVE [Cache!Next]_(Cache!vars)
  OBVIOUS
<1> USE DEF Cache!vars, Cache!table, Cache!requests
<1>1. ASSUME NEW r \in Request, Arrive(r) \/ OwnQuery(r)
      PROVE  UNCHANGED Cache!vars
  BY <1>1 DEF Arrive, OwnQuery, pbac, Engine!Authorize, Engine!Guard, Engine!Arrive,
     Engine!OwnQuery, Engine!FindService, Engine!Rbac, Engine!AbacUser,
     Engine!AbacResource, Engine!Acl, Engine!RebacDirect, Engine!RebacViaOrg,
     Engine!Conclude, Engine!Continue, Engine!tables
<1>2. ASSUME NEW r \in Request, PbacCall(r)
      PROVE  Cache!Asks(r)
  <2>1. Engine!TargetOf(query[r]) \in Target /\ query[r].input \in Input
    BY Shape, TargetsAssumption DEF SystemInv
  <2>2. QED
    BY <1>2, <2>1 DEF PbacCall, Cache!Asks
<1>3. ASSUME NEW r \in Request, Fail(r)
      PROVE  Cache!Fail(r) \/ UNCHANGED Cache!vars
  BY <1>3 DEF Fail, pbac
<1>4. ASSUME Reconfigure
      PROVE  UNCHANGED Cache!vars
  BY <1>4 DEF Reconfigure, Engine!Reconfigure, pbac
<1>5. CASE UNCHANGED vars
  BY <1>5 DEF vars, engine, pbac
<1>6. QED
  BY <1>1, <1>2, <1>3, <1>4, <1>5, EditCache
     DEF Next, Handler, PbacQuery, PbacStep, PolicyGuard, RedisLoses, Tick, Cache!Next

-----------------------------------------------------------------------------
(* What PbacService answers is the decision of a table in Recent, for the   *)
(* target asked about or for one of the same key.                          *)

Recalled(r) == \E table \in Recent, target \in Alike(asked[r][1], Target) :
  \E rows \in ByPriority({row \in table : row.target = target}) :
    verdict'[r] = Decision(rows, asked[r][2])

\* All the parts sort and decide alike.
LEMMA OneOrder ==
  /\ \A rows : CacheP!ByPriority(rows) = ByPriority(rows)
  /\ \A rows : Engine!ByPriority(rows) = ByPriority(rows)
  /\ \A rows, input : Cache!Decision(rows, input) = Decision(rows, input)
  /\ \A rows, input : Engine!Decision(rows, input) = Decision(rows, input)
  /\ \A target, targets : CacheP!Alike(target, targets) = Alike(target, targets)
  /\ \A target, targets : Engine!Alike(target, targets) = Alike(target, targets)
<1>1. /\ \A rows : CacheP!Cardinality(rows) = Cardinality(rows)
      /\ \A rows : Engine!Cardinality(rows) = Cardinality(rows)
  BY Zenon DEF CacheP!Cardinality, Engine!Cardinality, Cardinality
<1>2. /\ \A rows : CacheP!ByPriority(rows) = ByPriority(rows)
      /\ \A rows : Engine!ByPriority(rows) = ByPriority(rows)
  BY <1>1 DEF CacheP!ByPriority, Engine!ByPriority, ByPriority
<1>3. /\ \A rows, input : Cache!Decision(rows, input) = Decision(rows, input)
      /\ \A rows, input : Engine!Decision(rows, input) = Decision(rows, input)
  BY DEF Cache!Decision, Cache!Stops, Cache!Outcome, Engine!Decision, Engine!Stops,
     Engine!Outcome, Decision, Stops, Outcome
<1>4. /\ \A target, targets : CacheP!Alike(target, targets) = Alike(target, targets)
      /\ \A target, targets : Engine!Alike(target, targets) = Alike(target, targets)
  BY DEF CacheP!Alike, CacheP!Joined, Engine!Alike, Engine!Joined, Alike, Joined
<1>5. QED
  BY <1>2, <1>3, <1>4

LEMMA PastRecalled ==
  ASSUME NEW r, NEW past \in seen, NEW target \in Alike(asked[r][1], Target),
         NEW rows, CacheP!Reads(rows, past, target),
         verdict'[r] = Decision(rows, asked[r][2])
  PROVE  Recalled(r)
<1>1. past[2] \in Recent
  BY DEF Recent
<1>2. rows \in ByPriority({row \in past[2] : row.target = target})
  BY OneOrder DEF CacheP!Reads, CacheP!Promise!ForTarget
<1>3. QED
  BY <1>1, <1>2 DEF Recalled

\* A step of PbacService answers what it recalls, or does not answer yet.
LEMMA CacheAnswers ==
  ASSUME SystemInv, NEW r \in Request \cup Guarded, PbacStep(r), verdict[r] = "none"
  PROVE  /\ UNCHANGED <<seen, asked>>
         /\ verdict'[r] # "none" => Recalled(r) /\ at'[r] = "idle"
         /\ verdict' = [verdict EXCEPT ![r] = verdict'[r]]
         /\ at' = [at EXCEPT ![r] = at'[r]]
<1> DEFINE Answers(rows) ==
             /\ verdict' = [verdict EXCEPT ![r] = Decision(rows, asked[r][2])]
             /\ at' = [at EXCEPT ![r] = "idle"]
<1> USE Shape DEF SystemInv
<1>1. UNCHANGED <<seen, asked>>
  BY DEF PbacStep, Cache!CacheGet, Cache!Find, Cache!Fill, Cache!table
<1>2. CASE Cache!Find(r)
  BY <1>1, <1>2 DEF Cache!Find
<1>3. CASE Cache!CacheGet(r) /\ ~Cache!Hit(cached[Cache!KeyOf(r)].expiry, now)
  BY <1>1, <1>3 DEF Cache!CacheGet
<1>4. CASE Cache!CacheGet(r) /\ Cache!Hit(cached[Cache!KeyOf(r)].expiry, now)
  <2> DEFINE entry == cached[Cache!KeyOf(r)]
  <2>1. Answers(entry.list)
    BY <1>4, OneOrder DEF Cache!CacheGet, Cache!Decide, Cache!Return
  <2>2. asked[r][1] \in Target
    BY DEF Parts, CacheP!TypeOK
  <2>3. PICK past \in seen, target \in Alike(asked[r][1], Target) :
          CacheP!Reads(entry.list, past, target)
    BY <1>4, <2>2, OneOrder
       DEF Parts, CacheP!CacheInv, CacheP!EntryOK, Cache!KeyOf, Cache!CacheKey,
           CacheP!CacheKey, Cache!Hit, CacheP!Hit
  <2>4. QED
    BY <1>1, <2>1, <2>3, PastRecalled
<1>5. CASE Cache!Fill(r)
  <2>1. Answers(list[r])
    BY <1>5, OneOrder DEF Cache!Fill, Cache!Decide, Cache!Return
  <2>2. PICK past \in seen : CacheP!Reads(list[r], past, asked[r][1])
    BY <1>5 DEF Parts, CacheP!CacheInv, CacheP!FillOK, Cache!Fill
  <2>3. asked[r][1] \in Alike(asked[r][1], Target)
    BY DEF Alike
  <2>4. QED
    BY <1>1, <2>1, <2>2, <2>3, PastRecalled
<1>6. QED
  BY <1>2, <1>3, <1>4, <1>5 DEF PbacStep

-----------------------------------------------------------------------------
(* Every step of the system is a step of the engine with the contract, or  *)
(* none: the cache never answers what the contract does not allow.         *)

\* The engine concludes, throws or waits, as the contract has it.
LEMMA PbacRefines ==
  ASSUME SystemInv, NEW r \in Request, PbacQuery(r)
  PROVE  Engine!Pbac(r) \/ Engine!PbacThrows(r) \/ UNCHANGED Engine!vars
<1> USE DEF PbacQuery
<1>1. CASE verdict[r] # "none" \/ at[r] = "idle"
  BY <1>1 DEF SystemInv, PbacInv, PbacStep, Cache!CacheGet, Cache!Find, Cache!Fill
<1>2. CASE verdict[r] = "none" /\ at[r] # "idle"
  <2>1. /\ Engine!Evaluates(r, "PBAC")
        /\ asked[r] = <<Engine!TargetOf(query[r]), query[r].input>>
    BY <1>2 DEF SystemInv, PbacInv
  <2>2. UNCHANGED <<seen, asked>> /\ (verdict'[r] # "none" => Recalled(r))
    BY <1>2, CacheAnswers
  <2>3. CASE verdict'[r] = "none"
    BY <2>2, <2>3 DEF Resume, engine, Recent, Engine!vars, Engine!tables,
                      Engine!handler, Engine!history
  <2>4. CASE verdict'[r] # "none"
    <3>1. PICK table \in Recent, target \in Engine!Alike(Engine!TargetOf(query[r]), Target) :
            \E rows \in Engine!ByPriority(Engine!PoliciesFor(table, target)) :
              verdict'[r] = Engine!Decision(rows, query[r].input)
      BY <2>1, <2>2, <2>4, OneOrder DEF Recalled, Engine!PoliciesFor
    <3> PICK rows \in Engine!ByPriority(Engine!PoliciesFor(table, target)) :
          verdict'[r] = Engine!Decision(rows, query[r].input)
      BY <3>1
    <3>2. CASE verdict'[r] = "error"
      BY <2>1, <2>4, <3>1, <3>2 DEF Resume, Engine!PbacThrows
    <3>3. CASE verdict'[r] # "error"
      <4>1. Engine!Conclude(r, Engine!Decision(rows, query[r].input) = "ALLOW")
        BY <2>4, <3>1, <3>3 DEF Resume, Engine!Conclude, Engine!Finish
      <4>2. QED
        BY <2>1, <3>1, <3>3, <4>1 DEF Engine!Pbac
    <3>4. QED
      BY <3>2, <3>3
  <2>5. QED
    BY <2>3, <2>4
<1>3. QED
  BY <1>1, <1>2

Tables(pairs) == {past[2] : past \in pairs}

LEMMA TablesAdd ==
  ASSUME NEW pairs, NEW time, NEW table
  PROVE  Tables(pairs \cup {<<time, table>>}) = Tables(pairs) \cup {table}
<1> DEFINE all == pairs \cup {<<time, table>>}
<1>1. <<time, table>> \in all /\ <<time, table>>[2] = table
  OBVIOUS
<1>2. table \in Tables(all)
  BY <1>1 DEF Tables
<1>3. ASSUME NEW past \in all PROVE past[2] \in Tables(pairs) \cup {table}
  BY DEF Tables
<1>4. QED
  BY <1>2, <1>3 DEF Tables

\* As time goes by, tables are forgotten, but for the one in force.
LEMMA TickRefines == Tick => Engine!Forget \/ UNCHANGED Engine!vars
<1> SUFFICES ASSUME Tick PROVE Engine!Forget \/ UNCHANGED Engine!vars
  OBVIOUS
<1> DEFINE kept == Tables(Cache!Recently(seen, now'))
<1>1. /\ UNCHANGED engine
      /\ seen' = Cache!Recently(seen, now') \cup {<<now', From(db, "policies")>>}
  BY DEF Tick, Cache!Tick
<1>2. Recent = Tables(seen) /\ Recent' = Tables(seen')
  BY DEF Recent, Tables
<1>3. Recent' = kept \cup {From(db, "policies")}
  BY <1>1, <1>2, TablesAdd
<1>4. kept \in SUBSET Recent
  BY <1>2 DEF Tables, Cache!Recently
<1> HIDE DEF kept
<1>5. QED
  BY <1>1, <1>3, <1>4 DEF engine, From, Engine!From, Engine!Forget, Engine!vars,
                          Engine!tables, Engine!handler, Engine!history

LEMMA EngineStep == SystemInv /\ [Next]_vars => [Engine!Next]_(Engine!vars)
<1> SUFFICES ASSUME SystemInv, [Next]_vars PROVE [Engine!Next]_(Engine!vars)
  OBVIOUS
<1> USE DEF Engine!Next
<1>1. CASE \E r \in Request : Arrive(r) \/ OwnQuery(r) \/ Fail(r)
  BY <1>1 DEF Arrive, OwnQuery, Fail, Engine!Handler
<1>2. CASE \E r \in Request : PbacQuery(r)
  BY <1>2, PbacRefines DEF Engine!Handler
<1>3. CASE Edit
  <2>1. Recent' = Recent \cup {From(db', "policies")}
    <3>1. Recent = Tables(seen) /\ Recent' = Tables(seen')
      BY DEF Recent, Tables
    <3>2. QED
      BY <1>3, <3>1, TablesAdd DEF Edit
  <2>2. QED
    BY <1>3, <2>1 DEF Edit, Engine!Edit, From, Engine!From
<1>4. CASE Reconfigure
  BY <1>4 DEF Reconfigure
<1>5. CASE Tick
  BY <1>5, TickRefines
<1>6. ASSUME UNCHANGED <<engine, seen>> PROVE UNCHANGED Engine!vars
  BY <1>6 DEF engine, Recent, Engine!vars, Engine!tables, Engine!handler, Engine!history
<1>7. CASE \/ \E r \in Request : PbacCall(r)
           \/ \E g \in Guarded : PolicyGuard(g)
           \/ \E key \in Cache!Key : RedisLoses(key)
           \/ UNCHANGED vars
  BY <1>6, <1>7 DEF PbacCall, PolicyGuard, RedisLoses, vars, pbac, PbacStep, Cache!Asks,
     Cache!Evaluate, Cache!CacheGet, Cache!Find, Cache!Fill, Cache!Fail, Cache!RedisLoses,
     Cache!table
<1>8. QED
  BY <1>1, <1>2, <1>3, <1>4, <1>5, <1>7 DEF Next, Handler

-----------------------------------------------------------------------------
(* The invariant is inductive.                                             *)

\* The engine touches no request but the one it serves, and while that one
\* is inside PbacService none of its own actions has a turn.
LEMMA EngineElsewhere ==
  ASSUME Parts, NEW r \in Request, NEW s \in Request, Engine!Evaluates(s, "PBAC"),
         Arrive(r) \/ OwnQuery(r) \/ (PbacQuery(r) /\ r # s) \/ (Fail(r) /\ r # s)
  PROVE  UNCHANGED <<stage[s], query[s], rest[s], reasons[s]>>
<1> USE Shape DEF Engine!Evaluates
<1>1. CASE Arrive(r)
  BY <1>1 DEF Arrive, Engine!Authorize, Engine!Guard, Engine!Arrive
<1>2. CASE OwnQuery(r)
  BY <1>2 DEF OwnQuery, Engine!OwnQuery, Engine!FindService, Engine!Rbac,
     Engine!AbacUser, Engine!AbacResource, Engine!Acl, Engine!RebacDirect,
     Engine!RebacViaOrg, Engine!Conclude, Engine!Continue, Engine!Finish
<1>3. CASE PbacQuery(r) /\ r # s
  BY <1>3 DEF PbacQuery, Resume, engine, Engine!Abort, Engine!Conclude, Engine!Finish
<1>4. CASE Fail(r) /\ r # s
  BY <1>4 DEF Fail, Engine!Fail, Engine!Abort, Engine!Finish
<1>5. QED
  BY <1>1, <1>2, <1>3, <1>4

LEMMA PbacStays ==
  ASSUME NEW s \in Request, PbacInv,
         UNCHANGED <<stage[s], query[s], rest[s], at[s], asked[s], verdict[s]>>
  PROVE  at'[s] # "idle" =>
           /\ Engine!Evaluates(s, "PBAC")'
           /\ asked'[s] = <<Engine!TargetOf(query'[s]), query'[s].input>>
           /\ verdict'[s] = "none"
BY DEF PbacInv, Engine!Evaluates, Engine!TargetOf

LEMMA PbacInvStep == SystemInv /\ [Next]_vars => PbacInv'
<1> SUFFICES ASSUME SystemInv, [Next]_vars, NEW s \in Request, at'[s] # "idle"
             PROVE  /\ Engine!Evaluates(s, "PBAC")'
                    /\ asked'[s] = <<Engine!TargetOf(query'[s]), query'[s].input>>
                    /\ verdict'[s] = "none"
  BY DEF PbacInv, Engine!Evaluates, Engine!TargetOf
<1> USE Shape DEF SystemInv
<1> DEFINE Same == UNCHANGED <<stage[s], query[s], rest[s], at[s], asked[s], verdict[s]>>
<1>1. CASE \E r \in Request : Arrive(r) \/ OwnQuery(r)
  BY <1>1, EngineElsewhere, PbacStays DEF PbacInv, Arrive, OwnQuery, pbac
<1>2. CASE \E r \in Request : PbacCall(r)
  BY <1>2, PbacStays DEF PbacCall, engine, Cache!Evaluate, Engine!Evaluates, Engine!TargetOf
<1>3. CASE \E r \in Request : PbacQuery(r)
  <2> PICK r \in Request : PbacQuery(r)
    BY <1>3
  <2>1. /\ at[r] # "idle" /\ verdict[r] = "none"
    BY DEF PbacInv, PbacQuery, PbacStep, Cache!CacheGet, Cache!Find, Cache!Fill
  <2>2. /\ UNCHANGED <<seen, asked>>
        /\ verdict'[r] # "none" => at'[r] = "idle"
        /\ verdict' = [verdict EXCEPT ![r] = verdict'[r]]
        /\ at' = [at EXCEPT ![r] = at'[r]]
    BY <2>1, CacheAnswers DEF PbacQuery
  <2>3. CASE r # s
    BY <2>2, <2>3, EngineElsewhere, PbacStays DEF PbacInv
  <2>4. CASE r = s
    BY <2>1, <2>2, <2>4 DEF PbacInv, PbacQuery, Resume, engine, Engine!Evaluates,
                            Engine!TargetOf
  <2>5. QED
    BY <2>3, <2>4
<1>4. CASE \E r \in Request : Fail(r)
  <2> PICK r \in Request : Fail(r)
    BY <1>4
  <2>1. CASE r = s
    BY <2>1 DEF Fail, Cache!Fail, Cache!Return, pbac
  <2>2. CASE r # s
    BY <2>2, EngineElsewhere, PbacStays DEF PbacInv, Fail, Cache!Fail, Cache!Return, pbac
  <2>3. QED
    BY <2>1, <2>2
<1>5. CASE \E g \in Guarded : PolicyGuard(g)
  BY <1>5, SystemAssumption, PbacStays
     DEF PolicyGuard, engine, PbacStep, Cache!Asks, Cache!Evaluate, Cache!CacheGet,
         Cache!Find, Cache!Fill, Cache!Fail, Cache!Decide, Cache!Return
<1>6. CASE Edit \/ Reconfigure \/ Tick \/ (\E key \in Cache!Key : RedisLoses(key))
           \/ UNCHANGED vars
  BY <1>6, PbacStays
     DEF Edit, Engine!RecordEdit, Engine!handler, Reconfigure, Engine!Reconfigure, pbac,
         Tick, Cache!Tick, engine, RedisLoses, Cache!RedisLoses, Cache!requests, vars
<1>7. QED
  BY <1>1, <1>2, <1>3, <1>4, <1>5, <1>6 DEF Next, Handler

LEMMA InitInv == Init => SystemInv
<1> SUFFICES ASSUME Init PROVE SystemInv
  OBVIOUS
<1>1. EngineP!Init /\ CacheP!Init
  BY SameEngineInit, SameCacheInit DEF Init
<1>2. Parts
  BY <1>1, PartsAssume, EngineP!InitTypeInv, CacheP!InitInv, CacheP!InitType DEF Parts
<1>3. PbacInv
  BY DEF Init, Cache!Init, PbacInv
<1>4. QED
  BY <1>2, <1>3 DEF SystemInv

LEMMA NextInv == SystemInv /\ [Next]_vars => SystemInv'
<1> SUFFICES ASSUME SystemInv, [Next]_vars PROVE SystemInv'
  OBVIOUS
<1>1. [EngineP!Next]_(EngineP!vars)
  BY EngineStep, SameEngineNext
     DEF Engine!vars, Engine!tables, Engine!handler, Engine!history,
         EngineP!vars, EngineP!tables, EngineP!handler, EngineP!history
<1>2. [CacheP!Next]_(CacheP!vars)
  BY CacheStep, SameCacheNext
     DEF Cache!vars, Cache!table, Cache!requests, CacheP!vars, CacheP!table, CacheP!requests
<1>3. Parts'
  BY <1>1, <1>2, PartsAssume, EngineP!NextTypeInv, CacheP!NextInv, CacheP!NextType
     DEF SystemInv, Parts
<1>4. QED
  BY <1>3, PbacInvStep DEF SystemInv

LEMMA Invariant == Spec => []SystemInv
BY InitInv, NextInv, PTL DEF Spec

-----------------------------------------------------------------------------
(* The results.                                                            *)

\* Both parts hold values of their kinds, and an evaluation is inside
\* PbacService only while the engine waits for PBAC.
THEOREM TypeCorrect == Spec => []TypeOK
<1>1. SystemInv => TypeOK
  BY SameEngineTypeOK, SameCacheTypeOK
     DEF SystemInv, Parts, PbacInv, EngineP!TypeInv, TypeOK
<1>2. QED
  BY <1>1, Invariant, PTL

\* The engine with the cache in it does nothing that the engine with the
\* contract would not do (AuthorizationEngineService and PbacService).
THEOREM Contract == Spec => EngineContract
<1>1. Init => Engine!Init
  BY DEF Init
<1>2. QED
  BY <1>1, EngineStep, Invariant, PTL DEF Spec, EngineContract, Engine!Spec

LEMMA EngineRuns == Spec => EngineP!Spec
<1>1. Init => EngineP!Init
  BY SameEngineInit DEF Init
<1>2. SystemInv /\ [Next]_vars => [EngineP!Next]_(EngineP!vars)
  BY EngineStep, SameEngineNext
     DEF Engine!vars, Engine!tables, Engine!handler, Engine!history,
         EngineP!vars, EngineP!tables, EngineP!handler, EngineP!history
<1>3. QED
  BY <1>1, <1>2, Invariant, PTL DEF Spec, EngineP!Spec

LEMMA CacheRuns == Spec => CacheP!Spec
<1>1. Init => CacheP!Init
  BY SameCacheInit DEF Init
<1>2. SystemInv /\ [Next]_vars => [CacheP!Next]_(CacheP!vars)
  BY CacheStep, SameCacheNext
     DEF Cache!vars, Cache!table, Cache!requests, CacheP!vars, CacheP!table, CacheP!requests
<1>3. QED
  BY <1>1, <1>2, Invariant, PTL DEF Spec, CacheP!Spec

\* Every answer PBAC gives, to the engine or to PolicyGuard, is the decision
\* of a policy table in force within the last CacheTtl + MaxFill ticks, for
\* the target asked about or for one of the same key.
THEOREM Staleness == Spec => CacheP!BoundedStaleness
BY CacheRuns, CacheP!Staleness, PartsAssume, PTL

\* What is proved of the engine with the contract holds of the engine as it
\* is deployed: an ALLOW of RBAC, ACL or ABAC was granted by the rows at a
\* moment between request and answer, and rows left alone get through.
THEOREM AnswersStand ==
  Spec => [](/\ EngineP!RbacAndAclAreGrounded /\ EngineP!AbacAllowIsGrounded
             /\ EngineP!OneConfiguration /\ EngineP!SteadyGrantAllows)
BY EngineRuns, EngineP!RbacAndAclGrounded, EngineP!AbacGrounded,
   EngineP!SingleConfiguration, EngineP!SteadyGrants, PartsAssume, PTL

\* So was an ALLOW of ReBAC, where organisations share their ids with no
\* other kind of node.
THEOREM RebacStands == EngineP!OrgsApart => (Spec => []EngineP!AllowIsGrounded)
BY EngineRuns, EngineP!Grounded, PartsAssume, PTL

-----------------------------------------------------------------------------
(* Policies left alone.                                                    *)

\* A single recent table is the one in the database.
LEMMA OnlyTable ==
  ASSUME SystemInv, Cardinality(Recent) = 1
  PROVE  Recent = {From(db, "policies")}
<1>1. IsFiniteSet(From(Row, "policies"))
  <2>1. \A set : Cache!IsFiniteSet(set) <=> IsFiniteSet(set)
    BY Zenon DEF Cache!IsFiniteSet, IsFiniteSet
  <2>2. QED
    BY <2>1, PartsAssumption
<1>2. Recent \subseteq SUBSET From(Row, "policies")
  BY DEF SystemInv, Parts, CacheP!CacheInv, CacheP!HistoryInv, Recent
<1>3. IsFiniteSet(Recent)
  BY <1>1, <1>2, FS_SUBSET, FS_Subset
<1>4. From(db, "policies") \in Recent
  BY Shape DEF SystemInv, Recent
<1>5. QED
  BY <1>3, <1>4, FS_Singleton

\* No other step adds a reason to an evaluation that waits for PBAC.
LEMMA NoAnswerElsewhere ==
  ASSUME SystemInv, [Next]_vars, NEW s \in Request, Engine!Evaluates(s, "PBAC"),
         ~PbacQuery(s)
  PROVE  reasons'[s] = reasons[s]
<1> USE Shape DEF SystemInv
<1>1. CASE \E r \in Request : Arrive(r) \/ OwnQuery(r) \/ (PbacQuery(r) /\ r # s)
  BY <1>1, EngineElsewhere
<1>2. CASE \E r \in Request : Fail(r)
  BY <1>2 DEF Fail, Engine!Fail, Engine!Abort
<1>3. CASE \/ \E r \in Request : PbacCall(r)
           \/ \E g \in Guarded : PolicyGuard(g)
           \/ \E key \in Cache!Key : RedisLoses(key)
           \/ Edit \/ Reconfigure \/ Tick \/ UNCHANGED vars
  BY <1>3 DEF PbacCall, PolicyGuard, RedisLoses, Edit, Engine!RecordEdit, Engine!handler,
     Reconfigure, Engine!Reconfigure, Tick, engine, vars
<1>4. QED
  BY <1>1, <1>2, <1>3 DEF Next, Handler

\* Once the policies have been left alone for CacheTtl + MaxFill ticks, PBAC
\* answers the engine as the policies in the database say, of its target or
\* of one that shares its key, whatever has been cached before and by whom.
THEOREM Settled == Spec => SettledPoliciesDecide
<1> DEFINE Settles(r) ==
      /\ Len(reasons'[r]) > Len(reasons[r]) /\ Engine!Evaluates(r, "PBAC")
      /\ Cardinality(Recent) = 1
      => \E target \in Alike(Engine!TargetOf(query[r]), Target) :
         \E rows \in ByPriority(Cache!Matching(target)) :
           Decision(rows, query[r].input) = verdict'[r]
<1>1. SystemInv /\ [Next]_vars => [\A r \in Request : Settles(r)]_vars
  <2> SUFFICES ASSUME SystemInv, [Next]_vars, NEW r \in Request,
                      Len(reasons'[r]) > Len(reasons[r]), Engine!Evaluates(r, "PBAC"),
                      Cardinality(Recent) = 1
               PROVE  \E target \in Alike(Engine!TargetOf(query[r]), Target) :
                      \E rows \in ByPriority(Cache!Matching(target)) :
                        Decision(rows, query[r].input) = verdict'[r]
    OBVIOUS
  <2>1. PbacQuery(r) /\ reasons'[r] # reasons[r]
    <3>1. reasons'[r] # reasons[r]
      BY Shape DEF SystemInv
    <3>2. QED
      BY <3>1, NoAnswerElsewhere
  <2>2. at[r] # "idle" /\ verdict'[r] # "none"
    BY <2>1 DEF PbacQuery, Resume, engine, PbacStep, Cache!CacheGet, Cache!Find, Cache!Fill
  <2>3. asked[r] = <<Engine!TargetOf(query[r]), query[r].input>> /\ verdict[r] = "none"
    BY <2>2 DEF SystemInv, PbacInv
  <2>4. Recalled(r)
    BY <2>1, <2>2, <2>3, CacheAnswers DEF PbacQuery
  <2>5. PICK target \in Alike(asked[r][1], Target) :
          \E rows \in ByPriority({row \in From(db, "policies") : row.target = target}) :
            verdict'[r] = Decision(rows, asked[r][2])
    BY <2>4, OnlyTable DEF Recalled
  <2>6. asked[r][1] = Engine!TargetOf(query[r]) /\ asked[r][2] = query[r].input
    BY <2>3
  <2>7. Cache!Matching(target) = {row \in From(db, "policies") : row.target = target}
    BY DEF Cache!Matching
  <2>8. QED
    BY <2>5, <2>6, <2>7
<1>2. QED
  BY <1>1, Invariant, PTL DEF Spec, SettledPoliciesDecide
=============================================================================
