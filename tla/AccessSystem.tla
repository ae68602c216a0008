---------------------------- MODULE AccessSystem ----------------------------
(***************************************************************************)
(* Access decisions as they are deployed: AuthorizationEngine with the     *)
(* policy cache in the place of the contract it assumes, and requests      *)
(* behind PolicyGuard that fill the same cache.  The policies are rows of  *)
(* the same database as everything else, and an evaluation that reaches    *)
(* PBAC waits for the steps of PbacService.                                *)
(*                                                                         *)
(* ResumeUnlessError and FailOutside are mistakes no action uses.          *)
(***************************************************************************)
EXTENDS AccessModels

CONSTANTS
  Request,        \* evaluations by the engine
  Guarded,        \* requests to handlers behind PolicyGuard
  Service, Query, GuardCall, Row, Config, MaxEdits, NoRows,     \* of the engine
  Target, Input, CacheTtl, MaxFill, MaxTime, MaxSeen, Never     \* of the cache

ASSUME SystemAssumption == Request \cap Guarded = {}

VARIABLES
  db, services, edits,                          \* PostgreSQL
  stage, query, rest, held, reasons, answer,    \* evaluations
  granted, touched, configs,                    \* history of evaluations
  now, cached,                                  \* the clock and Redis
  at, asked, list, readAt, verdict,             \* requests inside PbacService
  seen                                          \* history of the policies

Cache == INSTANCE PolicyCache WITH
  Request <- Request \cup Guarded,
  Policy <- From(Row, "policies"), policies <- From(db, "policies"),
  stage <- at, query <- asked

\* The tables a cached decision may stem from.
Recent == {past[2] : past \in seen}

Engine == INSTANCE AuthorizationEngine WITH recent <- Recent

ASSUME PartsAssumption ==
  /\ Cache!PolicyCacheAssumption /\ Cache!TableAssumption
  /\ Cache!NeverAssumption
  /\ Engine!EngineAssumption /\ Engine!SchemaAssumption

\* The cache is asked about what the engine is asked about, and more.
ASSUME TargetsAssumption == \A q \in Engine!Queries :
  Engine!TargetOf(q) \in Target /\ q.input \in Input

pbac   == <<now, cached, at, asked, list, readAt, verdict, seen>>
engine == <<db, services, edits, stage, query, rest, held, reasons, answer,
            granted, touched, configs>>
vars   == <<engine, pbac>>

Init ==
  /\ now = 1
  /\ seen \in {{<<1, rows>>} : rows \in SUBSET From(Row, "policies")}
  /\ Engine!Init /\ Cache!Init

-----------------------------------------------------------------------------
\* What the engine does on its own.
Arrive(r) == UNCHANGED pbac /\ (Engine!Authorize(r) \/ Engine!Guard(r))

OwnQuery(r) == UNCHANGED pbac /\ Engine!OwnQuery(r)

\* Its turn has come: the engine calls pbacService.evaluate() ...
PbacCall(r) ==
  /\ UNCHANGED engine
  /\ Engine!Evaluates(r, "PBAC")
  /\ Cache!Evaluate(r, Engine!TargetOf(query[r]), query[r].input)

\* ... and goes on when that has an answer.
ResumeUnlessError(r) ==
  \/ verdict'[r] \in {"none", "error"} /\ UNCHANGED engine
  \/ verdict'[r] \in {"ALLOW", "DENY"} /\ Engine!Conclude(r, verdict'[r] = "ALLOW")

Resume(r) ==
  \/ verdict'[r] = "none" /\ UNCHANGED engine
  \/ verdict'[r] = "error" /\ Engine!Abort(r)
  \/ verdict'[r] \in {"ALLOW", "DENY"} /\ Engine!Conclude(r, verdict'[r] = "ALLOW")

PbacStep(r) == Cache!CacheGet(r) \/ Cache!Find(r) \/ Cache!Fill(r)

PbacQuery(r) == UNCHANGED db /\ PbacStep(r) /\ Resume(r)

Handler(r) == OwnQuery(r) \/ PbacCall(r) \/ PbacQuery(r)

\* A query rejects, inside PbacService or outside.
FailOutside(r) == UNCHANGED pbac /\ Engine!Fail(r)

Fail(r) ==
  /\ UNCHANGED db
  /\ \/ at[r] # "idle" /\ Cache!Fail(r)
     \/ at[r] = "idle" /\ UNCHANGED pbac
  /\ Engine!Fail(r)

\* A handler behind PolicyGuard asks PbacService directly.
PolicyGuard(g) ==
  /\ UNCHANGED engine
  /\ Cache!Asks(g) \/ PbacStep(g) \/ Cache!Fail(g)

-----------------------------------------------------------------------------
\* An operator changes a row, be it a policy or any other.
Edit ==
  /\ Engine!EditRow
  /\ seen' = seen \cup {<<now, From(db', "policies")>>}
  /\ Cardinality(seen') <= MaxSeen
  /\ UNCHANGED <<now, cached, at, asked, list, readAt, verdict>>
  /\ Engine!RecordEdit

Reconfigure == UNCHANGED pbac /\ Engine!Reconfigure

Tick == UNCHANGED engine /\ Cache!Tick

RedisLoses(key) == UNCHANGED engine /\ Cache!RedisLoses(key)

Next ==
  \/ \E r \in Request : Arrive(r) \/ Handler(r) \/ Fail(r)
  \/ \E g \in Guarded : PolicyGuard(g)
  \/ \E key \in Cache!Key : RedisLoses(key)
  \/ Edit \/ Reconfigure \/ Tick

Spec == Init /\ [][Next]_vars

\* Node runs every callback that is ready, and a call on PostgreSQL or Redis
\* settles: an evaluation that can go on does, whatever happens around it.
FairSpec == Spec /\ \A r \in Request : WF_vars(Handler(r))
-----------------------------------------------------------------------------
(* Properties.                                                             *)

\* Both parts hold values of their kinds, and an evaluation is inside
\* PbacService only while the engine waits for PBAC.
TypeOK ==
  /\ Engine!TypeOK /\ Cache!TypeOK
  /\ \A r \in Request : at[r] # "idle" => Engine!Evaluates(r, "PBAC")

\* The engine with the cache does nothing that the engine with the contract
\* would not do: in particular, whatever the cache answers is the decision
\* of a table in Recent, at the time of the answer, for the input of the
\* evaluation that asked, and for its target or one that shares its key.
EngineContract == Engine!Spec

\* Once the policies have been left alone for CacheTtl + MaxFill ticks, PBAC
\* answers the engine as the policies in the database say, of its target or
\* of one that shares its key.
SettledPoliciesDecide ==
  [][\A r \in Request :
       /\ Len(reasons'[r]) > Len(reasons[r]) /\ Engine!Evaluates(r, "PBAC")
       /\ Cardinality(Recent) = 1
       => \E target \in Alike(Engine!TargetOf(query[r]), Target) :
          \E rows \in ByPriority(Cache!Matching(target)) :
            Decision(rows, query[r].input) = verdict'[r]]_vars

\* No evaluation is under way for ever, though others fill and lose the keys
\* it waits for and operators edit between its queries: no outcome of
\* PbacService leaves it asking again.
EvaluationEnds == \A r \in Request : []<>(stage[r] \in {"idle", "done"})
=============================================================================
