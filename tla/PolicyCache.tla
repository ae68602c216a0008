----------------------------- MODULE PolicyCache -----------------------------
(***************************************************************************)
(* PbacService.evaluate(): policies read through a Redis cache that no     *)
(* write invalidates.  A request misses, reads the table, fills the cache  *)
(* and decides; the table may change, and other requests may fill the same *)
(* key, between any two of these.  Rows are written by operators with SQL: *)
(* the service has no endpoint for them.                                   *)
(*                                                                         *)
(* The names of a target are sequences of colon-separated segments.  They  *)
(* come from requests as they are, so two targets may share a key, and one *)
(* finds what was filed for the other.  KeyWithoutAction and ForgottenTtl  *)
(* are mistakes no action uses: see PROJECT.json.                          *)
(***************************************************************************)
EXTENDS AccessModels, CacheLayer, Integers

CONSTANTS
  Request,        \* evaluations, each of which may run again and again
  Target,         \* [service, resource, action] records asked about
  Input,          \* what a request tells the conditions
  Policy,         \* rows operators may store
  CacheTtl,       \* 300
  MaxFill,        \* bound on the ticks from reading the table to the fill
  MaxTime,        \* bound on the clock
  MaxSeen         \* bound on the states of the table looked back on

\* `policies:${service}:${resource}:${action}`
KeyWithoutAction(target) == target.service \o target.resource
CacheKey(target) == target.service \o target.resource \o target.action

ASSUME PolicyCacheAssumption ==
  /\ CacheTtl \in Nat \ {0} /\ MaxFill \in Nat /\ MaxTime \in Nat /\ MaxSeen \in Nat
  /\ \A policy \in Policy : /\ policy.target \in Target
                            /\ policy.effect \in {"ALLOW", "DENY"}

\* A table holds finitely many rows; priority is an integer column.
ASSUME TableAssumption ==
  /\ IsFiniteSet(Policy) /\ \A policy \in Policy : policy.priority \in Int

VARIABLES
  now,            \* the clock
  policies,       \* rows of the policies table
  cached,         \* Redis: by key, the JSON list and when it expires
  stage,          \* of each request: the await it stands at
  query,          \* of each request: target and input
  list,           \* of each request: the rows its find() returned
  readAt,         \* of each request: when find() returned
  verdict,        \* of each request: its answer
  seen            \* history: pairs <<t, table>> of the recent past

table    == <<policies, seen>>
requests == <<stage, query, list, readAt, verdict>>
vars     == <<now, table, cached, requests>>

Key     == {CacheKey(target) : target \in Target}
Empty   == [list |-> <<>>, expiry |-> Absent]
Window  == CacheTtl + MaxFill

\* Tables that have not fallen out of the window.
Recently(pairs, time) == {past \in pairs : time < past[1] + Window}

Init ==
  /\ now = 1
  /\ policies \in SUBSET Policy /\ seen = {<<1, policies>>}
  /\ cached = [key \in Key |-> Empty]
  /\ stage = [r \in Request |-> "idle"]
  /\ \E q \in Target \X Input : query = [r \in Request |-> q]
  /\ list = [r \in Request |-> <<>>]
  /\ readAt = [r \in Request |-> 1]
  /\ verdict = [r \in Request |-> "none"]

-----------------------------------------------------------------------------
KeyOf(r) == CacheKey(query[r][1])

\* The request is over, and with it what its handler held.
Return(r, outcome) ==
  /\ verdict' = [verdict EXCEPT ![r] = outcome]
  /\ stage' = [stage EXCEPT ![r] = "idle"]
  /\ list' = [list EXCEPT ![r] = <<>>]
  /\ readAt' = [readAt EXCEPT ![r] = 1]

Decide(r, rows) == Return(r, Decision(rows, query[r][2]))

Evaluate(r, target, input) ==
  /\ stage[r] = "idle"
  /\ stage' = [stage EXCEPT ![r] = "get"]
  /\ query' = [query EXCEPT ![r] = <<target, input>>]
  /\ verdict' = [verdict EXCEPT ![r] = "none"]
  /\ UNCHANGED <<now, table, cached, list, readAt>>

\* An empty list is a hit like any other: only null is falsy.
CacheGet(r) ==
  /\ stage[r] = "get"
  /\ LET entry == cached[KeyOf(r)]
     IN  IF Hit(entry.expiry, now)
         THEN Decide(r, entry.list)
         ELSE /\ stage' = [stage EXCEPT ![r] = "find"]
              /\ UNCHANGED <<list, readAt, verdict>>
  /\ UNCHANGED <<now, table, cached, query>>

Matching(target) == {policy \in policies : policy.target = target}

Find(r) ==
  /\ stage[r] = "find"
  /\ \E rows \in ByPriority(Matching(query[r][1])) :
       list' = [list EXCEPT ![r] = rows]
  /\ readAt' = [readAt EXCEPT ![r] = now]
  /\ stage' = [stage EXCEPT ![r] = "fill"]
  /\ UNCHANGED <<now, table, cached, query, verdict>>

ForgottenTtl == SetEx(now, 0)
EntryExpiry == SetEx(now, CacheTtl)

Fill(r) ==
  /\ stage[r] = "fill"
  /\ cached' = [cached EXCEPT ![KeyOf(r)] =
                  [list |-> list[r], expiry |-> EntryExpiry]]
  /\ Decide(r, list[r])
  /\ UNCHANGED <<now, table, query>>

\* Redis or PostgreSQL rejects: there is no fallback from one to the other.
Fail(r) ==
  /\ stage[r] # "idle"
  /\ Return(r, "error")
  /\ UNCHANGED <<now, table, cached, query>>

-----------------------------------------------------------------------------
\* An operator inserts, updates or deletes policies.
Edit ==
  /\ \E rows \in SUBSET Policy :
       /\ policies' = rows
       /\ seen' = seen \cup {<<now, rows>>}
  /\ Cardinality(seen') <= MaxSeen
  /\ UNCHANGED <<now, cached, requests>>

RedisLoses(key) ==
  /\ cached[key] # Empty
  /\ cached' = [cached EXCEPT ![key] = Empty]
  /\ UNCHANGED <<now, table, requests>>

\* No fill takes longer than MaxFill.
Tick ==
  /\ now < MaxTime
  /\ \A r \in Request : stage[r] = "fill" => now < readAt[r] + MaxFill
  /\ now' = now + 1
  /\ seen' = Recently(seen, now') \cup {<<now', policies>>}
  /\ UNCHANGED <<policies, cached, requests>>

Asks(r) == \E target \in Target, input \in Input : Evaluate(r, target, input)

Next ==
  \/ \E r \in Request :
       Asks(r) \/ CacheGet(r) \/ Find(r) \/ Fill(r) \/ Fail(r)
  \/ \E key \in Key : RedisLoses(key)
  \/ Edit \/ Tick

Spec == Init /\ [][Next]_vars
-----------------------------------------------------------------------------
(* Properties.                                                             *)

Lists == UNION {[1..n -> Policy] : n \in 0..Cardinality(Policy)}

\* Every variable holds a value of its kind.
TypeOK ==
  /\ now \in Nat \ {0}
  /\ policies \subseteq Policy
  /\ seen \subseteq (1..now) \X SUBSET Policy
  /\ cached \in [Key -> [list : Lists, expiry : Expiry]]
  /\ stage \in [Request -> {"idle", "get", "find", "fill"}]
  /\ query \in [Request -> Target \X Input]
  /\ list \in [Request -> Lists]
  /\ readAt \in [Request -> 1..now]
  /\ verdict \in [Request -> {"none", "ALLOW", "DENY", "error"}]

\* The list a request decides on, in whatever order the database breaks
\* ties, yields the effect of a policy that matches with the least priority
\* number, and denies when none matches.
TopPriorityDecides == \A target \in Target, input \in Input :
  LET stopping == {policy \in Matching(target) : Stops(policy, input)}
      top      == {policy \in stopping :
                     \A other \in stopping : policy.priority <= other.priority}
  IN  \A rows \in ByPriority(Matching(target)) :
        Decision(rows, input) \in IF stopping = {} THEN {"DENY"}
                                 ELSE {Outcome(policy, input) : policy \in top}

Promise == INSTANCE StalePolicies

\* Every answer is the decision of a table in force within the last
\* CacheTtl + MaxFill ticks, for the target asked about or for one of the
\* same key: a fill that raced with an edit can keep the old table alive for
\* longer than the five minutes of the cache alone.
BoundedStaleness == Promise!Spec
=============================================================================
