------------------------ MODULE AuthorizationEngine ------------------------
(***************************************************************************)
(* AuthorizationEngineService.evaluateAccess(), reached from POST          *)
(* authorize and from PermissionGuard.  The service's configuration is     *)
(* read once; then each enabled model asks the database its one or two     *)
(* questions, every one an await at which operators may have changed the   *)
(* rows.  PBAC is used by the contract PolicyCache is shown to keep, a     *)
(* decision of some recent policy table, for the target asked about or for *)
(* one that shares its cache key: see AccessSystem.                        *)
(*                                                                         *)
(* RemainingLive and HeldOn are mistakes no action uses.                   *)
(***************************************************************************)
EXTENDS AccessModels, SequencesExt

CONSTANTS
  Request,        \* evaluations, each made at most once
  Service,        \* names of services
  Query,          \* bodies of POST authorize
  GuardCall,      \* handlers behind PermissionGuard and who calls them
  Row,            \* rows operators may store
  Config,         \* enabledModels of a registered service
  Target,         \* what anybody asks PbacService about
  MaxEdits,       \* bound on the changes to rows and configurations
  NoRows

Known == {"RBAC", "ABAC", "PBAC", "ACL", "ReBAC"}
Unregistered == <<"not registered">>

\* A path a rule may compare: a scope evaluate() hands to Jexl, and a key.
IsPath(path) == /\ path = <<path[1], path[2]>>
                /\ path[1] \in {"user", "resource", "environment"}

ASSUME EngineAssumption ==
  /\ MaxEdits \in Nat
  /\ \A q \in Query : /\ q.service \in Service
                      /\ \A rule \in q.rules : IsPath(rule[1]) /\ IsPath(rule[2])
  /\ \A g \in GuardCall : /\ Len(g.permission) >= 3
                          /\ <<g.permission[1]>> \in Service
  /\ Config \subseteq Seq(STRING)
  /\ Unregistered \notin Config /\ \A rows \in SUBSET Row : rows # NoRows

\* The columns of the tables, as the entities declare them.
ASSUME SchemaAssumption == \A row \in Row :
  /\ row.table = "role_permissions" => row = RolePermission(row.role, row.permission)
  /\ row.table = "acl_entries" =>
       row = AclEntry(row.user, row.type, row.id, row.permission)
  /\ row.table = "user_attributes" => row = UserAttribute(row.user, row.key, row.value)
  /\ row.table = "resource_attributes" =>
       row = ResourceAttribute(row.service, row.type, row.id, row.key, row.value)

VARIABLES
  db,             \* the rows of all tables
  services,       \* enabledModels of each service, in order
  recent,         \* policy tables a cached decision may still stem from
  edits,          \* number of edits so far
  stage,          \* of each request: "idle", "find", "loop" or "done"
  query,          \* of each request: what it asks
  rest,           \* of each request: models still to evaluate
  held,           \* of each request: what the first of two queries returned
  reasons,        \* of each request: pairs <<model, "ALLOW" or "MISS">>
  answer,         \* of each request: its answer
  granted,        \* history: models that granted at a moment since it arrived
  touched,        \* history: rows stored or removed since it arrived
  configs         \* history: configurations in force since it arrived

tables  == <<db, services, recent, edits>>
handler == <<stage, query, rest, held, reasons, answer>>
history == <<granted, touched, configs>>
vars    == <<tables, handler, history>>

-----------------------------------------------------------------------------
(* What the documentation says a model grants, independently of how the    *)
(* services query it: RBAC, ABAC, ACL and ReBAC in README.md.              *)
Node(type, id) == <<type, id>>
Edges(rows) == {<<Node(row.subjectType, row.subjectId), Node(row.objectType, row.objectId)>> :
                  row \in From(rows, "relationships")}

Values(rows, q, path) ==
  LET stored == {row \in rows : /\ "key" \in DOMAIN row /\ row.key = path[2]
                                /\ \/ /\ path[1] = "user" /\ row.table = "user_attributes"
                                      /\ row.user = q.user
                                   \/ /\ path[1] = "resource" /\ q.id # NoId
                                      /\ row.table = "resource_attributes"
                                      /\ <<row.service, row.type, row.id>> =
                                           <<q.service, q.resource, q.id>>}
  IN  CASE path[1] = "environment" /\ path[2] \in DOMAIN q.context -> {q.context[path[2]]}
        [] stored # {} -> {row.value : row \in stored}
        [] stored = {} /\ path = <<"user", "id">> -> {q.user}
        [] OTHER -> {Undefined}

Grants(rows, q, model) ==
  LET name == PermissionName(q.service, q.resource, q.action)
  IN  CASE model = "RBAC" -> \E row \in From(rows, "user_roles") :
             /\ row.user = q.user /\ row.role.service = q.service
             /\ RolePermission(row.role, name) \in rows
        [] model = "ABAC" -> \E rule \in q.rules :
             Values(rows, q, rule[1]) \cap Values(rows, q, rule[2]) # {}
        [] model = "ACL" -> q.id # NoId /\ \E row \in From(rows, "acl_entries") :
             <<row.user, row.type, row.id, row.permission>> = <<q.user, q.resource, q.id, name>>
        [] model = "ReBAC" -> q.id # NoId /\
             LET from == Node(UserType, q.user)
                 to   == Node(q.resource, q.id)
                 orgs == {edge[2] : edge \in {e \in Edges(rows) : e[1] = from /\ e[2][1] = OrgType}}
             IN  <<from, to>> \in Edges(rows) \/ \E org \in orgs : <<org, to>> \in Edges(rows)
        [] OTHER -> FALSE

Granting(rows, q) == {model \in Known : Grants(rows, q, model)}

-----------------------------------------------------------------------------
\* UNIQUE (user, key) on user_attributes; resource_attributes has no such key.
Legal(rows) == \A a, b \in From(rows, "user_attributes") :
  a.user = b.user /\ a.key = b.key => a = b

GuardQuery(g) ==
  LET name == SplitPermission(g.permission)
  IN  [user |-> g.user, service |-> name.service, resource |-> name.resource,
       action |-> name.action, id |-> g.id, rules |-> DefaultRules,
       context |-> g.context, input |-> g.input]

GuardQueries == {GuardQuery(g) : g \in GuardCall}
Queries      == Query \cup GuardQueries

Init ==
  /\ db \in {rows \in SUBSET Row : Legal(rows)}
  /\ services \in [Service -> Config \cup {Unregistered}]
  /\ recent = {From(db, "policies")} /\ edits = 0
  /\ stage = [r \in Request |-> "idle"]
  /\ \E q \in Queries : query = [r \in Request |-> q]
  /\ rest = [r \in Request |-> <<>>]
  /\ held = [r \in Request |-> NoRows]
  /\ reasons = [r \in Request |-> <<>>]
  /\ answer = [r \in Request |-> "none"]
  /\ granted = [r \in Request |-> {}]
  /\ touched = [r \in Request |-> {}]
  /\ configs = [r \in Request |-> {}]

Arrive(r, q) ==
  /\ stage[r] = "idle"
  /\ stage' = [stage EXCEPT ![r] = "find"]
  /\ query' = [query EXCEPT ![r] = q]
  /\ granted' = [granted EXCEPT ![r] = Granting(db, q)]
  /\ configs' = [configs EXCEPT ![r] = {services[q.service]}]
  /\ UNCHANGED <<tables, rest, held, reasons, answer, touched>>

Authorize(r) == \E q \in Query : Arrive(r, q)
Guard(r)     == \E q \in GuardQueries : Arrive(r, q)

Finish(r, outcome) ==
  /\ stage' = [stage EXCEPT ![r] = "done"]
  /\ answer' = [answer EXCEPT ![r] = outcome]

\* An exception leaves the handler where it stands.
Abort(r) == /\ Finish(r, "error")
            /\ UNCHANGED <<tables, query, rest, held, reasons, history>>

Running(r) == stage[r] \in {"find", "loop"}

\* Names that are no model fall through the switch without a trace.
Keep(models, model) == IF model \in Known THEN Append(models, model) ELSE models

Evaluable(models) ==
  LET kept[i \in 0..Len(models)] ==
        IF i = 0 THEN <<>> ELSE Keep(kept[i - 1], models[i])
  IN  kept[Len(models)]

FindService(r) ==
  /\ stage[r] = "find"
  /\ LET models == services[query[r].service]
     IN  \/ /\ models = Unregistered
            /\ Finish(r, "notFound") /\ UNCHANGED rest
         \/ /\ models # Unregistered /\ Evaluable(models) = <<>>
            /\ Finish(r, "denied") /\ UNCHANGED rest
         \/ /\ models # Unregistered /\ Evaluable(models) # <<>>
            /\ rest' = [rest EXCEPT ![r] = Evaluable(models)]
            /\ stage' = [stage EXCEPT ![r] = "loop"] /\ UNCHANGED answer
  /\ UNCHANGED <<tables, query, held, reasons, history>>

-----------------------------------------------------------------------------
(* One pass of the loop: the model at hand and the queries it makes.       *)
Evaluates(r, model) == stage[r] = "loop" /\ Head(rest[r]) = model

RemainingLive(r) == LET models == Evaluable(services[query[r].service])
                    IN  SubSeq(models, Len(reasons[r]) + 2, Len(models))
Remaining(r) == Tail(rest[r])

HeldOn(r, rows) == held' = [held EXCEPT ![r] = IF rows = NoRows THEN @ ELSE rows]
Hold(r, rows) == held' = [held EXCEPT ![r] = rows]

\* The model has answered: stop at the first ALLOW or at the end.
Conclude(r, allowed) ==
  /\ reasons' = [reasons EXCEPT ![r] =
                   Append(@, <<Head(rest[r]), IF allowed THEN "ALLOW" ELSE "MISS">>)]
  /\ \/ allowed /\ Finish(r, "allowed")
     \/ ~allowed /\ Remaining(r) = <<>> /\ Finish(r, "denied")
     \/ ~allowed /\ Remaining(r) # <<>> /\ UNCHANGED <<stage, answer>>
  /\ rest' = [rest EXCEPT ![r] = Remaining(r)]
  /\ Hold(r, NoRows)
  /\ UNCHANGED <<tables, query, history>>

\* The first of a model's two queries has returned.
Continue(r, rows) == /\ Hold(r, rows)
                     /\ UNCHANGED <<tables, stage, query, rest, reasons, answer, history>>

Rbac(r) ==
  /\ Evaluates(r, "RBAC")
  /\ LET q == query[r]
     IN  Conclude(r, HasPermission(db, q.user,
                       PermissionName(q.service, q.resource, q.action), q.service))

AbacUser(r) ==
  /\ Evaluates(r, "ABAC") /\ held[r] = NoRows
  /\ LET q    == query[r]
         rows == UserRows(db, q.user)
     IN  \/ q.id # NoId /\ Continue(r, rows)
         \/ /\ q.id = NoId
            /\ \E allowed \in AbacOutcomes(q.user, rows, {}, q.rules, q.context) :
                 Conclude(r, allowed)

AbacResource(r) ==
  /\ Evaluates(r, "ABAC") /\ held[r] # NoRows
  /\ LET q    == query[r]
         rows == ResourceRows(db, q.service, q.resource, q.id)
     IN  \E allowed \in AbacOutcomes(q.user, held[r], rows, q.rules, q.context) :
           Conclude(r, allowed)

TargetOf(q) == [service |-> q.service, resource |-> q.resource, action |-> q.action]

PoliciesFor(table, target) == {row \in table : row.target = target}

\* A condition that throws ends the whole evaluation.
Pbac(r) ==
  /\ Evaluates(r, "PBAC")
  /\ \E table \in recent, target \in Alike(TargetOf(query[r]), Target) :
     \E list \in ByPriority(PoliciesFor(table, target)) :
       /\ Decision(list, query[r].input) # "error"
       /\ Conclude(r, Decision(list, query[r].input) = "ALLOW")

PbacThrows(r) ==
  /\ Evaluates(r, "PBAC")
  /\ \E table \in recent, target \in Alike(TargetOf(query[r]), Target) :
     \E list \in ByPriority(PoliciesFor(table, target)) :
       Decision(list, query[r].input) = "error"
  /\ Abort(r)

Acl(r) ==
  /\ Evaluates(r, "ACL")
  /\ LET q == query[r]
     IN  Conclude(r, AclAllows(db, q.user, q.resource, q.id,
                       PermissionName(q.service, q.resource, q.action)))

RebacDirect(r) ==
  /\ Evaluates(r, "ReBAC") /\ held[r] = NoRows
  /\ LET q == query[r]
     IN  \/ q.id = NoId /\ Conclude(r, FALSE)
         \/ /\ q.id # NoId /\ Direct(db, q.user, q.resource, q.id)
            /\ Conclude(r, TRUE)
         \/ /\ q.id # NoId /\ ~Direct(db, q.user, q.resource, q.id)
            /\ Continue(r, {})

RebacViaOrg(r) ==
  /\ Evaluates(r, "ReBAC") /\ held[r] # NoRows
  /\ LET q == query[r]
     IN  Conclude(r, ViaOrg(db, q.user, q.resource, q.id))

\* PostgreSQL or Redis rejects a query.
Fail(r) ==
  /\ Running(r)
  /\ Abort(r)

-----------------------------------------------------------------------------
(* What changes underneath.                                                *)

\* INSERT, DELETE or UPDATE of one row, committed by an operator.
EditRow ==
  /\ edits < MaxEdits /\ edits' = edits + 1
  /\ \/ \E row \in Row \ db : db' = db \cup {row}
     \/ \E row \in db : db' = db \ {row}
     \/ \E old \in db, new \in Row \ db :
          old.table = new.table /\ db' = (db \ {old}) \cup {new}
  /\ Legal(db')

\* What the edit means for the requests that are under way.
RecordEdit ==
  /\ granted' = [r \in Request |-> IF Running(r) THEN granted[r] \cup Granting(db', query[r])
                                                 ELSE granted[r]]
  /\ touched' = [r \in Request |-> IF stage[r] = "idle" THEN {}
                   ELSE touched[r] \cup (db \ db') \cup (db' \ db)]
  /\ UNCHANGED <<services, handler, configs>>

Edit ==
  /\ EditRow /\ RecordEdit
  /\ recent' = recent \cup {From(db', "policies")}

\* registerService() stores another configuration: see ServiceRegistry.
Reconfigure ==
  /\ edits < MaxEdits /\ edits' = edits + 1
  /\ \E s \in Service, models \in Config :
       /\ services' = [services EXCEPT ![s] = models]
       /\ configs' = [r \in Request |-> IF Running(r) /\ query[r].service = s
                        THEN configs[r] \cup {models} ELSE configs[r]]
  /\ UNCHANGED <<db, recent, handler, granted, touched>>

\* Cached decisions of old policy tables run out, some sooner than others.
Forget ==
  /\ \E kept \in SUBSET recent : recent' = kept \cup {From(db, "policies")}
  /\ recent' # recent
  /\ UNCHANGED <<db, services, edits, handler, history>>

OwnQuery(r) ==
  \/ FindService(r) \/ Rbac(r) \/ AbacUser(r) \/ AbacResource(r)
  \/ Acl(r) \/ RebacDirect(r) \/ RebacViaOrg(r)

Handler(r) == OwnQuery(r) \/ Pbac(r) \/ PbacThrows(r)

Next ==
  \/ \E r \in Request : Authorize(r) \/ Guard(r) \/ Handler(r) \/ Fail(r)
  \/ Edit \/ Reconfigure \/ Forget

Spec == Init /\ [][Next]_vars
-----------------------------------------------------------------------------
(* Properties.                                                             *)

TwoQueries == {"ABAC", "ReBAC"}

\* Every variable holds a value of its kind, and rows are held only between
\* the two queries of a model that makes two.
TypeOK ==
  /\ db \subseteq Row /\ Legal(db)
  /\ services \in [Service -> Config \cup {Unregistered}]
  /\ recent \subseteq SUBSET Row
  /\ edits \in 0..MaxEdits
  /\ stage \in [Request -> {"idle", "find", "loop", "done"}]
  /\ query \in [Request -> Queries]
  /\ rest \in [Request -> Seq(Known)] /\ reasons \in [Request -> Seq(Known \X {"ALLOW", "MISS"})]
  /\ held \in [Request -> (SUBSET Row) \cup {NoRows}]
  /\ \A r \in Request : /\ stage[r] = "loop" => rest[r] # <<>>
                        /\ stage[r] = "loop" /\ held[r] # NoRows => Head(rest[r]) \in TwoQueries
  /\ answer \in [Request -> {"none", "allowed", "denied", "notFound", "error"}]
  /\ granted \in [Request -> SUBSET Known]
  /\ touched \in [Request -> SUBSET Row]
  /\ configs \in [Request -> SUBSET (Config \cup {Unregistered})]

Model(r, i) == reasons[r][i][1]
Allower(r)  == Last(reasons[r])[1]

\* An ALLOW of RBAC, ACL or ReBAC was true: at some one moment between the
\* request and its answer the rows granted it, whatever was edited around
\* the queries.
AllowIsGrounded == \A r \in Request :
  answer[r] = "allowed" /\ Allower(r) \in {"RBAC", "ACL", "ReBAC"} =>
    Allower(r) \in granted[r]

\* So is an ALLOW of ABAC, which reads two tables, unless an attribute of
\* the user changed while the request was under way.
AbacAllowIsGrounded == \A r \in Request :
  /\ answer[r] = "allowed" /\ Allower(r) = "ABAC"
  /\ UserRows(touched[r], query[r].user) = {}
  => "ABAC" \in granted[r]

\* Rows that stay untouched from the request to its answer, and by
\* themselves make a model grant that was enabled all along, get through.
SteadyGrantAllows == \A r \in Request : answer[r] = "denied" =>
  \A model \in {"RBAC", "ACL", "ReBAC"} :
    (\A models \in configs[r] : \E i \in DOMAIN models : models[i] = model) =>
      ~Grants(db \ touched[r], query[r], model)

\* The models evaluated are those of one configuration that was in force
\* while the request was under way, in its order, all of them unless the
\* last one allowed.
OneConfiguration == \A r \in Request :
  answer[r] \in {"allowed", "denied"} =>
    \E models \in configs[r] \ {Unregistered} :
      LET evaluated == [i \in DOMAIN reasons[r] |-> Model(r, i)]
      IN  /\ IsPrefix(evaluated, Evaluable(models))
          /\ answer[r] = "denied" => evaluated = Evaluable(models)
          /\ \A i \in DOMAIN reasons[r] :
               reasons[r][i][2] = "ALLOW" <=> answer[r] = "allowed" /\ i = Len(reasons[r])

-----------------------------------------------------------------------------
(* What the documentation says and the code does not do.                   *)

\* README.md, step 6: a request whose context says that the resource's
\* ownerId is the user is allowed by ABAC.
OwnerInContextAllowed == \A r \in Request :
  LET context == query[r].context
  IN  /\ \E models \in configs[r] : \E i \in DOMAIN models : models[i] = "ABAC"
      /\ Cardinality(configs[r]) = 1
      /\ "resource.ownerId" \in DOMAIN context
      /\ context["resource.ownerId"] = query[r].user
      => answer[r] # "denied"

\* ReBAC follows relationships user -> resource and user -> org -> resource.
ChainsThroughOrganisations == \A r \in Request :
  answer[r] = "allowed" /\ Allower(r) = "ReBAC" => "ReBAC" \in granted[r]
=============================================================================
