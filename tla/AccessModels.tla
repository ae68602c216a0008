---------------------------- MODULE AccessModels ----------------------------
(***************************************************************************)
(* The five access models as functions of the database: RbacService,       *)
(* AbacService, PbacService's decision loop, AclService and RebacService,  *)
(* with the split of a permission name in PermissionGuard.                 *)
(*                                                                         *)
(* The database is a set of rows, each naming its table.  Service,         *)
(* resource and action names are sequences of dot-separated segments, so   *)
(* that joining and splitting them does what the code's strings do.        *)
(*                                                                         *)
(* A few definitions state a mistake (LastMatch, NextBySubject, ...) that  *)
(* no action uses: PROJECT.json names the property that notices each.      *)
(***************************************************************************)
EXTENDS Naturals, Sequences, FiniteSets

NoId      == "no id"        \* resourceId left out of the request
Undefined == "undefined"    \* a path Jexl cannot resolve

(* Rows, as far as a query looks at their columns.                         *)
Role(name, service) == [name |-> name, service |-> service]

UserRole(user, role) == [table |-> "user_roles", user |-> user, role |-> role]

RolePermission(role, permission) ==
  [table |-> "role_permissions", role |-> role, permission |-> permission]

AclEntry(user, type, id, permission) ==
  [table |-> "acl_entries", user |-> user, type |-> type, id |-> id,
   permission |-> permission]

Relationship(subjectType, subjectId, objectType, objectId) ==
  [table |-> "relationships", subjectType |-> subjectType, subjectId |-> subjectId,
   objectType |-> objectType, objectId |-> objectId]

UserAttribute(user, key, value) ==
  [table |-> "user_attributes", user |-> user, key |-> key, value |-> value]

ResourceAttribute(service, type, id, key, value) ==
  [table |-> "resource_attributes", service |-> service, type |-> type, id |-> id,
   key |-> key, value |-> value]

\* A condition is the inputs it is true of and those it throws on.
PolicyRow(target, effect, priority, matches, throws) ==
  [table |-> "policies", target |-> target, effect |-> effect,
   priority |-> priority, matches |-> matches, throws |-> throws]

From(db, table) == {row \in db : row.table = table}

\* `${service}.${resource}.${action}`
PermissionName(service, resource, action) == service \o resource \o action

\* permission.split('.') destructured: of more than three segments the rest
\* is dropped.
SplitPermission(permission) ==
  [service |-> <<permission[1]>>, resource |-> <<permission[2]>>,
   action |-> <<permission[3]>>]

-----------------------------------------------------------------------------
(* RBAC: a role of this very service, holding the permission by name.      *)
HasPermissionAnywhere(db, user, permission, service) ==
  \E entry \in From(db, "user_roles"), grant \in From(db, "role_permissions") :
    entry.user = user /\ grant.role = entry.role /\ grant.permission = permission

HasPermission(db, user, permission, service) ==
  \E entry \in From(db, "user_roles"), grant \in From(db, "role_permissions") :
    /\ entry.user = user /\ entry.role.service = service
    /\ grant.role = entry.role /\ grant.permission = permission

\* hasRole(): the role itself, whatever it permits.
HasRole(db, user, name, service) == UserRole(user, Role(name, service)) \in db

-----------------------------------------------------------------------------
(* ABAC: rules are equalities between two paths, a path is a scope and a   *)
(* key.  An attribute named id takes the place of the user's own id.       *)
UserRows(db, user) ==
  {row \in From(db, "user_attributes") : row.user = user}

ResourceRowsAnywhere(db, service, type, id) ==
  {row \in From(db, "resource_attributes") : row.type = type /\ row.id = id}

ResourceRows(db, service, type, id) ==
  {row \in From(db, "resource_attributes") :
     id # NoId /\ row.service = service /\ row.type = type /\ row.id = id}

\* Object.fromEntries(): of several rows with one key the last one read wins.
FromEntries(rows) ==
  {obj \in [{row.key : row \in rows} -> {row.value : row \in rows}] :
     \A key \in DOMAIN obj : \E row \in rows : row.key = key /\ row.value = obj[key]}

UserScope(user, attributes) ==
  [key \in {"id"} \cup DOMAIN attributes |->
     IF key \in DOMAIN attributes THEN attributes[key] ELSE user]

Resolve(scopes, path) ==
  LET scope == scopes[path[1]]
  IN  IF path[2] \in DOMAIN scope THEN scope[path[2]] ELSE Undefined

AnyRule(rules, scopes) ==
  \E rule \in rules : Resolve(scopes, rule[1]) = Resolve(scopes, rule[2])

DefaultRules == {<<<<"user", "id">>, <<"resource", "ownerId">>>>}

\* The request's context is the environment scope.
Scopes(user, attributes, resource, context) ==
  [user |-> UserScope(user, attributes), resource |-> resource, environment |-> context]

\* The outcomes evaluate() can have on these rows: more than one only when a
\* key is stored twice.
AbacOutcomes(user, userRows, resourceRows, rules, context) ==
  {AnyRule(rules, Scopes(user, attributes, resource, context)) :
     attributes \in FromEntries(userRows), resource \in FromEntries(resourceRows)}

-----------------------------------------------------------------------------
(* PBAC: policies of one target, read in the order of their priority; the  *)
(* order among equal priorities is the database's.                         *)
ByPriority(rows) ==
  {list \in [1..Cardinality(rows) -> rows] :
     /\ \A i, j \in DOMAIN list : i # j => list[i] # list[j]
     /\ \A i, j \in DOMAIN list : i < j => list[i].priority <= list[j].priority}

\* Targets for which a cache that joins the three names has a single key: a
\* colon is as good inside a name as between two.
Joined(target) == target.service \o target.resource \o target.action

Alike(target, targets) ==
  {target} \cup {other \in targets : Joined(other) = Joined(target)}

Stops(policy, input) == input \in policy.matches \cup policy.throws

OutcomeSwallowed(policy, input) ==
  IF input \in policy.throws THEN "undefined" ELSE policy.effect

Outcome(policy, input) ==
  IF input \in policy.throws THEN "error" ELSE policy.effect

LastMatch(list, input) ==
  IF \E i \in DOMAIN list : Stops(list[i], input)
  THEN LET last == CHOOSE i \in DOMAIN list :
             /\ Stops(list[i], input)
             /\ \A j \in DOMAIN list : j > i => ~Stops(list[j], input)
       IN  Outcome(list[last], input)
  ELSE "DENY"

Decision(list, input) ==
  IF \E i \in DOMAIN list : Stops(list[i], input)
  THEN LET first == CHOOSE i \in DOMAIN list :
             /\ Stops(list[i], input)
             /\ \A j \in DOMAIN list : j < i => ~Stops(list[j], input)
       IN  Outcome(list[first], input)
  ELSE "DENY"

-----------------------------------------------------------------------------
(* ACL and ReBAC.  The query behind ViaOrg joins on the organisation's id   *)
(* and tests the object type of the first row only.                        *)
AclAllows(db, user, type, id, permission) ==
  id # NoId /\ AclEntry(user, type, id, permission) \in db

UserType == <<"user">>
OrgType  == <<"org">>

IsSubject(row, type, id) == row.subjectType = type /\ row.subjectId = id
IsObject(row, type, id)  == row.objectType = type /\ row.objectId = id

Direct(db, user, type, id) ==
  \E row \in From(db, "relationships") :
    IsSubject(row, UserType, user) /\ IsObject(row, type, id)

NextBySubject(row, next) == row.objectId = next.objectId
NextRelationship(row, next) == row.objectId = next.subjectId

ViaOrg(db, user, type, id) ==
  \E row, next \in From(db, "relationships") :
    /\ IsSubject(row, UserType, user) /\ row.objectType = OrgType
    /\ NextRelationship(row, next)
    /\ IsObject(next, type, id)
=============================================================================
