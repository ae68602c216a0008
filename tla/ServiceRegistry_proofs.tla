------------------------ MODULE ServiceRegistry_proofs ------------------------
(***************************************************************************)
(* Proofs about ServiceRegistry, for any number of services, registrations *)
(* and payloads.                                                           *)
(***************************************************************************)
EXTENDS ServiceRegistry, TLAPS

-----------------------------------------------------------------------------
(* The inductive invariant.                                                *)

\* A request is unanswered until it is done.
ReplyInv == \A r \in Request : stage[r] # "done" => reply[r] = "none"

\* A registration nothing overlaps has the row for itself: it saves what it
\* was sent, over the row it found.
AloneInv == \A r \in alone : stage[r] # "idle" /\ (InFlight(r) =>
  /\ \A q \in Request \ {r} : InFlight(q) => name[q] # name[r]
  /\ stage[r] # "findOne" => entity[r] = payload[r]
  /\ stage[r] = "insert" => rows[name[r]] = NoRow
  /\ stage[r] = "update" => found[r] = rows[name[r]]
  /\ stage[r] = "publish" => rows[name[r]] = payload[r])

IInv == TypeOK /\ ReplyInv /\ AloneInv /\ StoredModelsAnnounced

-----------------------------------------------------------------------------
\* A payload is a row as good as any.
LEMMA PayloadIsRow ==
  ASSUME NEW p \in Payload
  PROVE  p \in Row /\ DOMAIN p = Column
<1>1. p = [c \in Column |-> p[c]]
  BY RegistryAssumption
<1>2. \A c \in Column : p[c] \in Value(c)
  BY DEF Value
<1>3. \A c \in Column : p[c] \in UNION {Value(d) : d \in Column}
  BY <1>2
<1>4. p \in [Column -> UNION {Value(d) : d \in Column}]
  BY <1>1, <1>3
<1>5. QED
  BY <1>2, <1>4 DEF Row

\* The payload has every column, so it wins all of them.
LEMMA MergedIsPayload ==
  ASSUME NEW row \in Row, NEW p \in Payload
  PROVE  Merged(row, p) = p
<1>1. DOMAIN p = Column /\ p = [c \in Column |-> p[c]]
  BY PayloadIsRow, RegistryAssumption
<1>2. QED
  BY <1>1 DEF Merged

\* Nothing is registered and nothing is under way.
LEMMA InitIInv == Init => IInv
BY PayloadIsRow DEF Init, IInv, TypeOK, ReplyInv, AloneInv, StoredModelsAnnounced, InFlight

\* A message is not taken back.
LEMMA AppendAnnounces ==
  ASSUME IInv, NEW n \in Name, NEW models \in Value("enabledModels"),
         events' = Append(events, [name |-> n, enabledModels |-> models])
  PROVE  /\ Announced(n, models)'
         /\ \A m \in Name : \A other : Announced(m, other) => Announced(m, other)'
         /\ Last(events') = [name |-> n, enabledModels |-> models]
         /\ events' \in Seq([name : Name, enabledModels : Value("enabledModels")])
<1> DEFINE message == [name |-> n, enabledModels |-> models]
<1>1. events \in Seq([name : Name, enabledModels : Value("enabledModels")])
  BY DEF IInv, TypeOK
<1>2. /\ Len(events') = Len(events) + 1
      /\ events'[Len(events) + 1] = message
      /\ \A i \in 1..Len(events) : events'[i] = events[i]
      /\ events' \in Seq([name : Name, enabledModels : Value("enabledModels")])
  BY <1>1
<1>3. DOMAIN events = 1..Len(events) /\ DOMAIN events' = 1..Len(events')
      /\ Len(events) \in Nat
  BY <1>1, <1>2
<1>4. QED
  BY <1>2, <1>3 DEF Announced, Last

-----------------------------------------------------------------------------
(* One lemma per action.                                                   *)

LEMMA RegisterStep ==
  ASSUME IInv, NEW r \in Request, NEW n \in Name, NEW p \in Payload,
         Register(r, n, p)
  PROVE  IInv'
<1>1. TypeOK'
  BY DEF IInv, TypeOK, Register, Goto
<1>2. ReplyInv'
  BY DEF IInv, TypeOK, ReplyInv, Register, Goto
<1>3. AloneInv'
  <2>0. \A q \in alone' : stage'[q] # "idle"
    BY DEF IInv, TypeOK, AloneInv, Register, Goto
  <2> SUFFICES ASSUME NEW q \in alone', InFlight(q)'
               PROVE  /\ \A s \in Request \ {q} : InFlight(s)' => name'[s] # name'[q]
                      /\ stage'[q] # "findOne" => entity'[q] = payload'[q]
                      /\ stage'[q] = "insert" => rows'[name'[q]] = NoRow
                      /\ stage'[q] = "update" => found'[q] = rows'[name'[q]]
                      /\ stage'[q] = "publish" => rows'[name'[q]] = payload'[q]
    BY <2>0 DEF AloneInv
  <2>1. CASE q = r
    <3>1. Rivals(n) = {} /\ stage'[q] = "findOne" /\ name'[q] = n
      BY <2>1 DEF IInv, TypeOK, AloneInv, Register, Goto
    <3>2. ASSUME NEW s \in Request \ {q}, InFlight(s)'
          PROVE  name'[s] # name'[q]
      BY <2>1, <3>1, <3>2 DEF IInv, TypeOK, Register, Goto, Rivals, InFlight
    <3>3. QED
      BY <3>1, <3>2
  <2>2. CASE q # r
    BY <2>2 DEF IInv, TypeOK, AloneInv, Register, Goto, Rivals, InFlight
  <2>3. QED
    BY <2>1, <2>2
<1>4. StoredModelsAnnounced'
  BY DEF IInv, TypeOK, ReplyInv, StoredModelsAnnounced, Announced, Models, Register, Goto
<1>5. QED
  BY <1>1, <1>2, <1>3, <1>4 DEF IInv

LEMMA FindOneStep ==
  ASSUME IInv, NEW r \in Request, FindOne(r)
  PROVE  IInv'
<1>1. entity'[r] = payload[r] /\ payload[r] \in Row
  BY MergedIsPayload, PayloadIsRow DEF IInv, TypeOK, FindOne
<1>2. TypeOK'
  BY <1>1 DEF IInv, TypeOK, FindOne, Goto, SaveStage
<1>3. ReplyInv'
  BY DEF IInv, TypeOK, ReplyInv, FindOne, Goto
<1>4. AloneInv'
  BY <1>1 DEF IInv, TypeOK, AloneInv, InFlight, FindOne, Goto, SaveStage
<1>5. StoredModelsAnnounced'
  BY DEF IInv, TypeOK, ReplyInv, StoredModelsAnnounced, Announced, Models, FindOne, Goto
<1>6. QED
  BY <1>2, <1>3, <1>4, <1>5 DEF IInv

LEMMA InsertStep ==
  ASSUME IInv, NEW r \in Request, Insert(r)
  PROVE  IInv'
<1>1. TypeOK'
  <2>1. CASE rows[name[r]] = NoRow
    <3>1. entity[r] \in Row /\ entity[r] # NoRow /\ name[r] \in Name
      BY RegistryAssumption DEF IInv, TypeOK
    <3>2. rows' = [rows EXCEPT ![name[r]] = entity[r]]
          /\ stage' = [stage EXCEPT ![r] = "publish"] /\ UNCHANGED reply
      BY <2>1 DEF Insert, Goto
    <3>3. rows' \in [Name -> Row \cup {NoRow}]
      BY <3>1, <3>2 DEF IInv, TypeOK
    <3>4. \A m \in Name : rows[m] # NoRow => rows'[m] # NoRow
      BY <3>1, <3>2 DEF IInv, TypeOK
    <3>5. QED
      BY <3>2, <3>3, <3>4 DEF IInv, TypeOK, Insert
  <2>2. CASE rows[name[r]] # NoRow
    BY <2>2 DEF IInv, TypeOK, Insert, Answer
  <2>3. QED
    BY <2>1, <2>2
<1>2. ReplyInv'
  BY DEF IInv, TypeOK, ReplyInv, Insert, Goto, Answer
<1>3. AloneInv'
  BY DEF IInv, TypeOK, AloneInv, InFlight, Insert, Goto, Answer
<1>4. StoredModelsAnnounced'
  BY DEF IInv, TypeOK, ReplyInv, StoredModelsAnnounced, Announced, Models, Insert,
         Goto, Answer
<1>5. QED
  BY <1>1, <1>2, <1>3, <1>4 DEF IInv

LEMMA SaveSelectStep ==
  ASSUME IInv, NEW r \in Request, SaveSelect(r)
  PROVE  IInv'
<1>1. TypeOK'
  BY DEF IInv, TypeOK, SaveSelect, Goto
<1>2. ReplyInv'
  BY DEF IInv, TypeOK, ReplyInv, SaveSelect, Goto
<1>3. AloneInv'
  BY DEF IInv, TypeOK, AloneInv, InFlight, SaveSelect, Goto
<1>4. StoredModelsAnnounced'
  BY DEF IInv, TypeOK, ReplyInv, StoredModelsAnnounced, Announced, Models, SaveSelect, Goto
<1>5. QED
  BY <1>1, <1>2, <1>3, <1>4 DEF IInv

\* Columns that are not written hold what was found when nothing overlaps,
\* and what is written came with the payload.
LEMMA SaveUpdateStep ==
  ASSUME IInv, NEW r \in Request, SaveUpdate(r)
  PROVE  IInv'
<1> DEFINE n == name[r]
<1>1. /\ n \in Name /\ rows[n] \in Row /\ rows[n] # NoRow
      /\ entity[r] \in Row /\ found[r] \in Row
  BY DEF IInv, TypeOK, SaveUpdate
<1>2. PICK changed \in SUBSET Column :
        /\ \A c \in Column \ changed : entity[r][c] = found[r][c]
        /\ rows' = [rows EXCEPT ![n] = [c \in Column |->
                      IF c \in changed THEN entity[r][c] ELSE rows[n][c]]]
  BY DEF SaveUpdate
<1>3. \A c \in Column : /\ entity[r][c] \in Value(c)
                        /\ rows[n][c] \in Value(c)
  BY <1>1 DEF Row
<1>4. /\ \A c \in Column :
           rows'[n][c] = IF c \in changed THEN entity[r][c] ELSE rows[n][c]
      /\ rows'[n] = [c \in Column |-> rows'[n][c]]
      /\ \A m \in Name \ {n} : rows'[m] = rows[m]
  BY <1>1, <1>2 DEF IInv, TypeOK
<1>5. rows'[n] \in Row
  <2>1. \A c \in Column : rows'[n][c] \in Value(c)
    BY <1>3, <1>4
  <2>2. rows'[n] \in [Column -> UNION {Value(c) : c \in Column}]
    BY <1>4, <2>1
  <2>3. QED
    BY <2>1, <2>2 DEF Row
<1>6. TypeOK'
  BY <1>2, <1>5, RegistryAssumption DEF IInv, TypeOK, SaveUpdate, Goto
<1>7. ReplyInv'
  BY DEF IInv, TypeOK, ReplyInv, SaveUpdate, Goto
<1>8. AloneInv'
  <2>1. ASSUME r \in alone PROVE rows'[n] = payload[r]
    <3>1. found[r] = rows[n] /\ entity[r] = payload[r] /\ payload[r] \in Payload
      BY <2>1 DEF IInv, TypeOK, AloneInv, InFlight, SaveUpdate
    <3>2. \A c \in Column : rows'[n][c] = payload[r][c]
      BY <1>2, <1>4, <3>1
    <3>3. QED
      BY <1>4, <3>1, <3>2, RegistryAssumption
  <2>2. QED
    BY <1>4, <2>1 DEF IInv, TypeOK, AloneInv, InFlight, SaveUpdate, Goto
<1>9. StoredModelsAnnounced'
  <2> SUFFICES ASSUME NEW m \in Name, rows'[m] # NoRow
               PROVE  \/ Announced(m, rows'[m]["enabledModels"])
                      \/ \E q \in Request :
                           /\ name[q] = m
                           /\ entity[q]["enabledModels"] = rows'[m]["enabledModels"]
                           /\ stage'[q] = "publish" \/ reply[q] = "error"
    BY DEF StoredModelsAnnounced, Announced, Models, SaveUpdate, Goto
  <2>1. CASE m = n /\ "enabledModels" \in changed
    <3>1. rows'[m]["enabledModels"] = entity[r]["enabledModels"]
      BY <1>4, <2>1 DEF Column
    <3>2. stage'[r] = "publish"
      BY DEF IInv, TypeOK, SaveUpdate, Goto
    <3>3. QED
      BY <2>1, <3>1, <3>2
  <2>2. CASE m # n \/ "enabledModels" \notin changed
    <3>1. rows'[m]["enabledModels"] = rows[m]["enabledModels"] /\ rows[m] # NoRow
      BY <1>1, <1>4, <2>2 DEF Column
    <3>2. \A q \in Request : stage[q] = "publish" => stage'[q] = "publish"
      BY DEF IInv, TypeOK, SaveUpdate, Goto
    <3>3. QED
      BY <3>1, <3>2 DEF IInv, StoredModelsAnnounced, Models
  <2>3. QED
    BY <2>1, <2>2
<1>10. QED
  BY <1>6, <1>7, <1>8, <1>9 DEF IInv

LEMMA PublishStep ==
  ASSUME IInv, NEW r \in Request, Publish(r)
  PROVE  IInv'
<1>1. name[r] \in Name /\ Models(r) \in Value("enabledModels")
  BY DEF IInv, TypeOK, Models, Row, Column
<1>2. PICK n \in Name, models \in Value("enabledModels") :
        n = name[r] /\ models = Models(r)
  BY <1>1
<1>3. /\ Announced(n, models)'
      /\ \A m \in Name : \A other : Announced(m, other) => Announced(m, other)'
      /\ events' \in Seq([name : Name, enabledModels : Value("enabledModels")])
  <2>1. events' = Append(events, [name |-> n, enabledModels |-> models])
    BY <1>2 DEF Publish
  <2>2. QED
    BY <2>1, AppendAnnounces
<1>4. TypeOK'
  BY <1>3 DEF IInv, TypeOK, Publish, Answer
<1>5. ReplyInv'
  BY DEF IInv, TypeOK, ReplyInv, Publish, Answer
<1>6. AloneInv'
  <2>1. stage' = [stage EXCEPT ![r] = "done"]
    BY DEF Publish, Answer
  <2>2. QED
    BY <2>1 DEF IInv, TypeOK, AloneInv, InFlight, Publish
<1>7. StoredModelsAnnounced'
  <2>1. /\ stage' = [stage EXCEPT ![r] = "done"]
        /\ \A q \in Request \ {r} : reply'[q] = reply[q]
        /\ UNCHANGED <<rows, name, entity>>
    BY DEF IInv, TypeOK, Publish, Answer
  <2>2. reply[r] # "error"
    BY DEF IInv, ReplyInv, Publish
  <2>3. ASSUME NEW m \in Name, rows[m] # NoRow
        PROVE  \/ Announced(m, rows[m]["enabledModels"])'
               \/ \E q \in Request :
                    /\ name[q] = m /\ Models(q) = rows[m]["enabledModels"]
                    /\ stage'[q] = "publish" \/ reply'[q] = "error"
    <3>1. PICK stored : stored = rows[m]["enabledModels"]
      OBVIOUS
    <3>2. CASE Announced(m, stored)
      BY <1>3, <2>1, <2>3, <3>1, <3>2 DEF Announced
    <3>3. CASE \E q \in Request \ {r} :
                 /\ name[q] = m /\ Models(q) = stored
                 /\ stage[q] = "publish" \/ reply[q] = "error"
      BY <2>1, <3>1, <3>3 DEF IInv, TypeOK
    <3>4. CASE name[r] = m /\ Models(r) = stored
      BY <1>2, <1>3, <2>1, <3>1, <3>4 DEF Announced
    <3>5. QED
      BY <2>3, <3>1, <3>2, <3>3, <3>4 DEF IInv, StoredModelsAnnounced
  <2>4. QED
    BY <2>1, <2>3 DEF StoredModelsAnnounced, Models
<1>8. QED
  BY <1>4, <1>5, <1>6, <1>7 DEF IInv

LEMMA FailStep ==
  ASSUME IInv, NEW r \in Request, Fail(r)
  PROVE  IInv'
<1>1. TypeOK'
  BY DEF IInv, TypeOK, Fail, Answer
<1>2. ReplyInv'
  BY DEF IInv, TypeOK, ReplyInv, Fail, Answer
<1>3. AloneInv'
  BY DEF IInv, TypeOK, AloneInv, InFlight, Fail, Answer
<1>4. StoredModelsAnnounced'
  BY DEF IInv, TypeOK, ReplyInv, StoredModelsAnnounced, Announced, Models, InFlight,
         Fail, Answer
<1>5. QED
  BY <1>1, <1>2, <1>3, <1>4 DEF IInv

LEMMA QuietStep ==
  ASSUME IInv, Broker \/ UNCHANGED vars
  PROVE  IInv'
<1>1. UNCHANGED <<rows, events, stage, name, payload, entity, found, reply, alone>>
  BY DEF Broker, vars, http
<1>2. brokerUp' \in BOOLEAN
  BY DEF IInv, TypeOK, Broker, vars
<1>3. TypeOK'
  BY <1>1, <1>2 DEF IInv, TypeOK
<1>4. (ReplyInv /\ AloneInv)'
  BY <1>1 DEF IInv, ReplyInv, AloneInv, InFlight
<1>5. StoredModelsAnnounced'
  BY <1>1 DEF IInv, StoredModelsAnnounced, Announced, Models
<1>6. QED
  BY <1>3, <1>4, <1>5 DEF IInv

\* Every step keeps the invariant.
LEMMA NextIInv == IInv /\ [Next]_vars => IInv'
BY RegisterStep, FindOneStep, InsertStep, SaveSelectStep, SaveUpdateStep, PublishStep,
   FailStep, QuietStep DEF Next

\* What every reachable state satisfies.
LEMMA Invariant == Spec => []IInv
BY InitIInv, NextIInv, PTL DEF Spec

-----------------------------------------------------------------------------
(* The properties.                                                         *)

\* Rows are complete, and a row under update was found (registerService()).
THEOREM TypeCorrect == Spec => []TypeOK
<1>1. IInv => TypeOK
  BY DEF IInv
<1>2. QED
  BY <1>1, Invariant, PTL

\* However registrations race, the models that are stored were announced, or
\* are about to be, or the registration that sent them failed.
THEOREM Announcement == Spec => []StoredModelsAnnounced
<1>1. IInv => StoredModelsAnnounced
  BY DEF IInv
<1>2. QED
  BY <1>1, Invariant, PTL

\* A registration that nothing overlaps is stored and announced as it was
\* sent, whatever was registered before.
THEOREM Undisturbed == Spec => UndisturbedIsStored
<1> DEFINE Kept == \A r \in alone :
      reply'[r] = "created" /\ reply[r] = "none" =>
        /\ rows[name[r]] = payload[r]
        /\ Last(events') = [name |-> name[r],
                            enabledModels |-> payload[r]["enabledModels"]]
<1>1. IInv /\ [Next]_vars => [Kept]_vars
  <2> SUFFICES ASSUME IInv, Next, NEW r \in alone,
                      reply'[r] = "created", reply[r] = "none"
               PROVE  /\ rows[name[r]] = payload[r]
                      /\ Last(events') = [name |-> name[r],
                                          enabledModels |-> payload[r]["enabledModels"]]
    OBVIOUS
  <2>1. r \in Request
    BY DEF IInv, TypeOK
  <2>2. Publish(r)
    BY <2>1 DEF IInv, TypeOK, Next, Register, FindOne, Insert, SaveSelect, SaveUpdate,
       Publish, Fail, Broker, Goto, Answer, http
  <2>3. rows[name[r]] = payload[r] /\ entity[r] = payload[r]
    BY <2>1, <2>2 DEF IInv, AloneInv, InFlight, Publish
  <2>4. name[r] \in Name /\ Models(r) \in Value("enabledModels")
    BY <2>1 DEF IInv, TypeOK, Models, Row, Column
  <2>5. PICK n \in Name, models \in Value("enabledModels") :
          n = name[r] /\ models = Models(r)
    BY <2>4
  <2>6. events' = Append(events, [name |-> n, enabledModels |-> models])
    BY <2>2, <2>5 DEF Publish
  <2>7. Last(events') = [name |-> n, enabledModels |-> models]
    BY <2>6, AppendAnnounces
  <2>8. QED
    BY <2>3, <2>5, <2>7 DEF Models
<1>2. QED
  BY <1>1, Invariant, PTL DEF Spec, UndisturbedIsStored
=============================================================================
