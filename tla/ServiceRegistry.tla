--------------------------- MODULE ServiceRegistry ---------------------------
(***************************************************************************)
(* ServicesService.registerService(): find the service by name, merge the  *)
(* payload into the row or create one, save, publish service.registered.   *)
(* TypeORM's save() of a row that has an id is two queries: it selects the *)
(* row again and updates the columns in which the merged entity differs    *)
(* from what it selected.  Concurrent registrations interleave at all four *)
(* awaits.  Services with different names share nothing.                   *)
(*                                                                         *)
(* MergedBackwards, AlwaysUpdated and FoundModels are mistakes no action    *)
(* uses.                                                                   *)
(***************************************************************************)
EXTENDS Naturals, SequencesExt

CONSTANTS
  Request,        \* calls of POST services/register, each made at most once
  Name,           \* names of services
  Payload,        \* what a call sends besides the name, by column
  NoRow

\* The columns registerService() writes; nothing writes active.
Column == {"enabledModels", "resources", "actions"}

Value(column) == {p[column] : p \in Payload}
Row == {row \in [Column -> UNION {Value(c) : c \in Column}] :
          \A c \in Column : row[c] \in Value(c)}

ASSUME RegistryAssumption ==
  /\ \A p \in Payload : p = [c \in Column |-> p[c]]
  /\ NoRow \notin Row

VARIABLES
  rows,           \* the services table, by name
  events,         \* service.registered messages, in the order confirmed
  brokerUp,       \* whether the AMQP connection is established
  stage,          \* of each request: the await it stands at
  name, payload,  \* of each request: its arguments
  entity,         \* of each request: the entity it saves
  found,          \* of each request: the row findOne(), then save(), selected
  reply,          \* of each request: its answer
  alone           \* history: requests no other for the service overlapped

http == <<stage, name, payload, entity, found, reply>>
vars == <<rows, events, brokerUp, http, alone>>

Init ==
  /\ rows = [n \in Name |-> NoRow]
  /\ events = <<>> /\ brokerUp = TRUE
  /\ stage = [r \in Request |-> "idle"]
  /\ \E n \in Name : name = [r \in Request |-> n]
  /\ \E p \in Payload : payload = [r \in Request |-> p]
  /\ entity = payload
  /\ found = [r \in Request |-> NoRow]
  /\ reply = [r \in Request |-> "none"]
  /\ alone = {}

-----------------------------------------------------------------------------
InFlight(r) == stage[r] \notin {"idle", "done"}
Rivals(n)   == {r \in Request : InFlight(r) /\ name[r] = n}

Goto(r, at) == stage' = [stage EXCEPT ![r] = at] /\ UNCHANGED reply

Answer(r, code) ==
  /\ stage' = [stage EXCEPT ![r] = "done"]
  /\ reply' = [reply EXCEPT ![r] = code]

Register(r, n, p) ==
  /\ stage[r] = "idle"
  /\ Goto(r, "findOne")
  /\ name' = [name EXCEPT ![r] = n]
  /\ payload' = [payload EXCEPT ![r] = p]
  /\ alone' = IF Rivals(n) = {} THEN alone \cup {r} ELSE alone \ Rivals(n)
  /\ UNCHANGED <<rows, events, brokerUp, entity, found>>

\* merge(existing, payload): the columns of the payload win.
MergedBackwards(existing, sent) ==
  [c \in Column |-> IF c \in DOMAIN existing THEN existing[c] ELSE sent[c]]
Merged(existing, sent) ==
  [c \in Column |-> IF c \in DOMAIN sent THEN sent[c] ELSE existing[c]]

\* A service that is found is saved under its id, another is created.
AlwaysUpdated(row) == "select"
SaveStage(row) == IF row = NoRow THEN "insert" ELSE "select"

FindOne(r) ==
  /\ stage[r] = "findOne"
  /\ LET row == rows[name[r]]
     IN  /\ found' = [found EXCEPT ![r] = row]
         /\ entity' = [entity EXCEPT ![r] = IF row = NoRow THEN payload[r]
                                            ELSE Merged(row, payload[r])]
         /\ Goto(r, SaveStage(row))
  /\ UNCHANGED <<rows, events, brokerUp, name, payload, alone>>

\* The UNIQUE constraint on name turns the loser of a race into a 500.
Insert(r) ==
  /\ stage[r] = "insert"
  /\ IF rows[name[r]] = NoRow
     THEN /\ rows' = [rows EXCEPT ![name[r]] = entity[r]]
          /\ Goto(r, "publish")
     ELSE Answer(r, "uniqueViolation") /\ UNCHANGED rows
  /\ UNCHANGED <<events, brokerUp, name, payload, entity, found, alone>>

SaveSelect(r) ==
  /\ stage[r] = "select"
  /\ found' = [found EXCEPT ![r] = rows[name[r]]]
  /\ Goto(r, "update")
  /\ UNCHANGED <<rows, events, brokerUp, name, payload, entity, alone>>

\* UPDATE services SET the columns that differ WHERE id = ...  Whether the
\* ORM also takes equal arrays for different is left open.
SaveUpdate(r) ==
  /\ stage[r] = "update"
  /\ \E changed \in SUBSET Column :
       /\ \A c \in Column \ changed : entity[r][c] = found[r][c]
       /\ rows' = [rows EXCEPT ![name[r]] =
            [c \in Column |-> IF c \in changed THEN entity[r][c] ELSE @[c]]]
  /\ Goto(r, "publish")
  /\ UNCHANGED <<events, brokerUp, name, payload, entity, found, alone>>

FoundModels(r) == IF found[r] = NoRow THEN entity[r]["enabledModels"]
                                      ELSE found[r]["enabledModels"]
Models(r) == entity[r]["enabledModels"]

\* The message waits in memory until the broker confirms it; the response
\* may be lost after that.
Publish(r) ==
  /\ stage[r] = "publish" /\ brokerUp
  /\ events' = Append(events, [name |-> name[r], enabledModels |-> Models(r)])
  /\ Answer(r, "created") \/ Answer(r, "error")
  /\ UNCHANGED <<rows, brokerUp, name, payload, entity, found, alone>>

\* A call rejects, or the process restarts under the request.
Fail(r) ==
  /\ InFlight(r)
  /\ Answer(r, "error")
  /\ UNCHANGED <<rows, events, brokerUp, name, payload, entity, found, alone>>

Broker == /\ brokerUp' = ~brokerUp
          /\ UNCHANGED <<rows, events, http, alone>>

Next ==
  \/ \E r \in Request :
       \/ \E n \in Name, p \in Payload : Register(r, n, p)
       \/ FindOne(r) \/ Insert(r) \/ SaveSelect(r) \/ SaveUpdate(r)
       \/ Publish(r) \/ Fail(r)
  \/ Broker

Spec == Init /\ [][Next]_vars
-----------------------------------------------------------------------------
(* Properties.                                                             *)

\* Every variable holds a value of its kind; a row under update was found.
TypeOK ==
  /\ rows \in [Name -> Row \cup {NoRow}]
  /\ events \in Seq([name : Name, enabledModels : Value("enabledModels")])
  /\ brokerUp \in BOOLEAN
  /\ stage \in [Request -> {"idle", "findOne", "insert", "select", "update",
                            "publish", "done"}]
  /\ name \in [Request -> Name]
  /\ payload \in [Request -> Payload] /\ entity \in [Request -> Row]
  /\ found \in [Request -> Row \cup {NoRow}]
  /\ \A r \in Request : stage[r] \in {"select", "update"} =>
       found[r] # NoRow /\ rows[name[r]] # NoRow
  /\ reply \in [Request -> {"none", "created", "uniqueViolation", "error"}]
  /\ alone \subseteq Request

\* A registration that no other one for the service overlapped is answered
\* when the row is what it sent and the latest message announces it.
UndisturbedIsStored == [][\A r \in alone :
  reply'[r] = "created" /\ reply[r] = "none" =>
    /\ rows[name[r]] = payload[r]
    /\ Last(events') = [name |-> name[r], enabledModels |-> payload[r]["enabledModels"]]
  ]_vars

Announced(n, models) == \E i \in DOMAIN events :
  events[i] = [name |-> n, enabledModels |-> models]

\* The models stored for a service have been announced, or a registration
\* that sent them is about to announce them or was answered with an error:
\* however registrations race, none that succeeded is kept quiet.
StoredModelsAnnounced == \A n \in Name : rows[n] # NoRow =>
  \/ Announced(n, rows[n]["enabledModels"])
  \/ \E r \in Request : /\ name[r] = n /\ Models(r) = rows[n]["enabledModels"]
                        /\ stage[r] = "publish" \/ reply[r] = "error"
=============================================================================
