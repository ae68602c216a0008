------------------------- MODULE PolicyCache_proofs -------------------------
(***************************************************************************)
(* Proofs that the policy cache keeps the promise of StalePolicies, and    *)
(* that the least priority number decides, for any policies, any targets,  *)
(* those that share a key included, any number of requests and any time    *)
(* to live.                                                                *)
(***************************************************************************)
EXTENDS PolicyCache, AccessModels_proofs, TLAPS

\* The list is a reading of a table that was in force at the time of past.
Reads(rows, past, target) ==
  rows \in ByPriority(Promise!ForTarget(past[2], target))

\* History reaches up to now, and requests ask about targets there are.
HistoryInv ==
  /\ now \in Nat
  /\ seen \subseteq Nat \X SUBSET Policy
  /\ policies \subseteq Policy
  /\ <<now, policies>> \in seen
  /\ query \in [Request -> Target \X Input]
  /\ stage \in [Request -> {"idle", "get", "find", "fill"}]
  /\ list = [r \in Request |-> list[r]]
  /\ readAt = [r \in Request |-> readAt[r]]

\* A fill under way is not older than MaxFill, and what it holds was read
\* from the table of that time.
FillOK(r) ==
  stage[r] = "fill" =>
    /\ readAt[r] \in Nat /\ now <= readAt[r] + MaxFill
    /\ \E past \in seen : past[1] = readAt[r] /\ Reads(list[r], past, query[r][1])

\* A live entry was read, for its own target or for one of the same key, from
\* a table that stays in the window for as long as the entry lives.
EntryOK(target) ==
  LET entry == cached[CacheKey(target)]
  IN  Hit(entry.expiry, now) =>
        \E past \in seen, other \in Alike(target, Target) :
          /\ entry.expiry \in Nat
          /\ entry.expiry <= past[1] + Window
          /\ Reads(entry.list, past, other)

CacheInv ==
  /\ HistoryInv
  /\ cached = [key \in Key |-> cached[key]]
  /\ \A target \in Target : cached[CacheKey(target)].expiry \in Expiry
  /\ \A r \in Request : FillOK(r)
  /\ \A target \in Target : EntryOK(target)

-----------------------------------------------------------------------------
(* Window outlasts a fill and a live entry.                                *)
LEMMA WindowNat == Window \in Nat /\ MaxFill < Window
BY PolicyCacheAssumption DEF Window

\* The history is the table of the first moment; nothing is cached or under way.
LEMMA InitInv == Init => CacheInv
<1> SUFFICES ASSUME Init PROVE CacheInv
  OBVIOUS
<1>1. HistoryInv
  BY DEF Init, HistoryInv
<1>2. ASSUME NEW r \in Request PROVE FillOK(r)
  BY DEF Init, FillOK
<1>3. ASSUME NEW target \in Target PROVE EntryOK(target)
  <2>1. cached[CacheKey(target)].expiry = 0 /\ now = 1
    BY DEF Init, Key, Empty, Absent
  <2>2. QED
    BY <2>1, NeverAssumption DEF EntryOK, Hit
<1>4. ASSUME NEW target \in Target PROVE cached[CacheKey(target)].expiry \in Expiry
  BY DEF Init, Key, Empty, Absent, Expiry
<1>5. QED
  BY <1>1, <1>2, <1>3, <1>4 DEF CacheInv, Init

\* Asking, missing and failing leave the table, the history and the cache
\* alone, and no fill is under way at the request that does it.
LEMMA QuietStep ==
  ASSUME CacheInv, NEW r \in Request, UNCHANGED <<now, table, cached>>,
         query' \in [Request -> Target \X Input],
         stage' \in [Request -> {"idle", "get", "find", "fill"}],
         list' = [q \in Request |-> list'[q]],
         readAt' = [q \in Request |-> readAt'[q]],
         stage'[r] # "fill",
         \A q \in Request \ {r} :
           /\ stage'[q] = stage[q] /\ query'[q] = query[q]
           /\ list'[q] = list[q] /\ readAt'[q] = readAt[q]
  PROVE  CacheInv'
<1>1. HistoryInv'
  BY DEF CacheInv, HistoryInv, table
<1>2. ASSUME NEW q \in Request PROVE FillOK(q)'
  BY DEF CacheInv, FillOK, table, Reads
<1>3. ASSUME NEW target \in Target PROVE EntryOK(target)'
  BY DEF CacheInv, EntryOK, table
<1>4. QED
  BY <1>1, <1>2, <1>3 DEF CacheInv

\* find() returns a list of the table of this moment.
LEMMA FindStep ==
  ASSUME CacheInv, NEW r \in Request, Find(r)
  PROVE  CacheInv'
<1>1. HistoryInv'
  BY DEF CacheInv, HistoryInv, Find, table
<1>2. ASSUME NEW q \in Request PROVE FillOK(q)'
  <2>1. CASE q = r
    <3>1. Reads(list'[r], <<now, policies>>, query[r][1])
      BY DEF CacheInv, HistoryInv, Find, Reads, Promise!ForTarget, Matching
    <3>2. readAt'[r] = now
      BY DEF CacheInv, HistoryInv, Find
    <3>3. QED
      BY <2>1, <3>1, <3>2, PolicyCacheAssumption
         DEF CacheInv, HistoryInv, Find, FillOK, Reads, table
  <2>2. CASE q # r
    BY <1>2, <2>2 DEF CacheInv, HistoryInv, FillOK, Find, Reads, table
  <2>3. QED
    BY <2>1, <2>2
<1>3. ASSUME NEW target \in Target PROVE EntryOK(target)'
  BY DEF CacheInv, EntryOK, Find, table
<1>4. QED
  BY <1>1, <1>2, <1>3 DEF CacheInv, Find

\* Targets of one key are those whose names read the same once joined.
LEMMA SameKeyAlike ==
  ASSUME NEW target \in Target, NEW other \in Target,
         CacheKey(target) = CacheKey(other)
  PROVE  other \in Alike(target, Target)
BY DEF CacheKey, Joined, Alike

\* Filling stores a list that is at most MaxFill old for CacheTtl more, and
\* leaves the targets of other keys alone.
LEMMA FillStep ==
  ASSUME CacheInv, NEW r \in Request, Fill(r)
  PROVE  CacheInv'
<1> DEFINE key == CacheKey(query[r][1])
<1>1. UNCHANGED <<now, policies, seen, query>>
  BY DEF Fill, table
<1>2. HistoryInv'
  BY <1>1 DEF CacheInv, HistoryInv, Fill, Decide, Return
<1>3. ASSUME NEW q \in Request PROVE FillOK(q)'
  BY <1>1 DEF CacheInv, HistoryInv, FillOK, Fill, Decide, Return, Reads
<1>4. query[r][1] \in Target /\ key \in Key
  BY DEF CacheInv, HistoryInv, Key
<1>5. ASSUME NEW target \in Target PROVE EntryOK(target)'
  <2>1. CASE CacheKey(target) = key
    <3>1. cached'[key] = [list |-> list[r], expiry |-> now + CacheTtl]
      BY <1>4, PolicyCacheAssumption
         DEF CacheInv, Fill, KeyOf, EntryExpiry, SetEx
    <3>2. PICK past \in seen : past[1] = readAt[r] /\ Reads(list[r], past, query[r][1])
      BY DEF CacheInv, FillOK, Fill
    <3>3. /\ now + CacheTtl \in Nat
          /\ now + CacheTtl <= past[1] + Window
      BY <3>2, PolicyCacheAssumption DEF CacheInv, HistoryInv, FillOK, Fill, Window
    <3>4. query[r][1] \in Alike(target, Target)
      BY <1>4, <2>1, SameKeyAlike
    <3>5. QED
      BY <1>1, <2>1, <3>1, <3>2, <3>3, <3>4 DEF EntryOK, Reads
  <2>2. CASE CacheKey(target) # key
    <3>1. CacheKey(target) \in Key
      BY DEF Key
    <3>2. cached'[CacheKey(target)] = cached[CacheKey(target)]
      BY <2>2, <3>1 DEF CacheInv, Fill, KeyOf
    <3>3. QED
      BY <1>1, <3>2 DEF CacheInv, EntryOK
  <2>3. QED
    BY <2>1, <2>2
<1>6. cached' = [k \in Key |-> cached'[k]]
  BY DEF CacheInv, Fill
<1>7. ASSUME NEW target \in Target
      PROVE  cached'[CacheKey(target)].expiry \in Expiry
  <2>1. now + CacheTtl \in Expiry /\ EntryExpiry = now + CacheTtl
    BY PolicyCacheAssumption DEF CacheInv, HistoryInv, EntryExpiry, SetEx, Expiry
  <2>2. CASE CacheKey(target) = key
    BY <1>4, <2>1, <2>2 DEF CacheInv, Fill, KeyOf
  <2>3. CASE CacheKey(target) # key
    BY <2>3 DEF CacheInv, Fill, KeyOf, Key
  <2>4. QED
    BY <2>2, <2>3
<1>8. QED
  BY <1>2, <1>3, <1>5, <1>6, <1>7 DEF CacheInv

\* An edit adds to the history and removes nothing from it.
LEMMA EditStep ==
  ASSUME CacheInv, Edit
  PROVE  CacheInv'
<1>1. HistoryInv' /\ seen \subseteq seen'
  BY DEF CacheInv, HistoryInv, Edit, requests
<1>2. ASSUME NEW q \in Request PROVE FillOK(q)'
  BY <1>1 DEF CacheInv, FillOK, Edit, requests, Reads
<1>3. ASSUME NEW target \in Target PROVE EntryOK(target)'
  BY <1>1 DEF CacheInv, EntryOK, Edit, Reads
<1>4. QED
  BY <1>1, <1>2, <1>3 DEF CacheInv, Edit

\* A key that Redis loses is not hit.
LEMMA RedisLosesStep ==
  ASSUME CacheInv, NEW key \in Key, RedisLoses(key)
  PROVE  CacheInv'
<1>1. HistoryInv'
  BY DEF CacheInv, HistoryInv, RedisLoses, table, requests
<1>2. ASSUME NEW q \in Request PROVE FillOK(q)'
  BY DEF CacheInv, FillOK, RedisLoses, table, requests, Reads
<1>3. ASSUME NEW target \in Target PROVE EntryOK(target)'
  <2>1. CASE CacheKey(target) = key
    <3>1. cached'[key].expiry = 0 /\ now' \in Nat
      BY DEF CacheInv, HistoryInv, RedisLoses, Empty, Absent
    <3>2. QED
      BY <2>1, <3>1, NeverAssumption DEF EntryOK, Hit
  <2>2. CASE CacheKey(target) # key
    BY <2>2 DEF CacheInv, EntryOK, RedisLoses, table, Key, Reads
  <2>3. QED
    BY <2>1, <2>2
<1>4. ASSUME NEW target \in Target
      PROVE  cached'[CacheKey(target)].expiry \in Expiry
  BY DEF CacheInv, RedisLoses, Key, Empty, Absent, Expiry
<1>5. QED
  BY <1>1, <1>2, <1>3, <1>4 DEF CacheInv, RedisLoses

\* The clock drops from the history only what no fill and no live entry
\* was read from.
LEMMA TickStep ==
  ASSUME CacheInv, Tick
  PROVE  CacheInv'
<1>1. now' = now + 1 /\ now \in Nat
  BY DEF CacheInv, HistoryInv, Tick
<1>2. HistoryInv'
  BY <1>1 DEF CacheInv, HistoryInv, Tick, Recently, requests
<1>3. ASSUME NEW q \in Request PROVE FillOK(q)'
  <2> SUFFICES ASSUME stage[q] = "fill" PROVE FillOK(q)'
    BY DEF FillOK, Tick, requests
  <2>1. PICK past \in seen : past[1] = readAt[q] /\ Reads(list[q], past, query[q][1])
    BY DEF CacheInv, FillOK
  <2>2. now' <= readAt[q] + MaxFill /\ readAt[q] \in Nat
    BY <1>1, PolicyCacheAssumption DEF CacheInv, FillOK, Tick
  <2>3. past \in seen'
    BY <1>1, <2>1, <2>2, WindowNat, PolicyCacheAssumption DEF Tick, Recently
  <2>4. QED
    BY <2>1, <2>2, <2>3 DEF FillOK, Reads, Tick, requests
<1>4. ASSUME NEW target \in Target PROVE EntryOK(target)'
  <2> DEFINE entry == cached[CacheKey(target)]
  <2>1. SUFFICES ASSUME Hit(entry.expiry, now + 1) PROVE EntryOK(target)'
    BY <1>1 DEF EntryOK, Tick
  <2>2. Hit(entry.expiry, now)
    <3>1. CASE entry.expiry = Never
      BY <3>1 DEF Hit
    <3>2. CASE entry.expiry # Never
      <4>1. entry.expiry \in Nat /\ now + 1 < entry.expiry
        BY <2>1, <3>2 DEF CacheInv, Expiry, Hit
      <4>2. QED
        BY <1>1, <3>2, <4>1 DEF Hit
    <3>3. QED
      BY <3>1, <3>2
  <2>3. PICK past \in seen, other \in Alike(target, Target) :
          /\ entry.expiry \in Nat
          /\ entry.expiry <= past[1] + Window
          /\ Reads(entry.list, past, other)
    BY <2>2 DEF CacheInv, EntryOK
  <2>4. now + 1 < past[1] + Window
    BY <1>1, <2>1, <2>3, WindowNat, NeverAssumption DEF CacheInv, HistoryInv, Hit
  <2>5. past \in seen'
    BY <1>1, <2>4 DEF Tick, Recently
  <2>6. QED
    BY <2>3, <2>5 DEF EntryOK, Reads, Tick
<1>5. QED
  BY <1>2, <1>3, <1>4 DEF CacheInv, Tick
-----------------------------------------------------------------------------
(* The invariant of the specification.                                     *)
LEMMA NextInv == CacheInv /\ [Next]_vars => CacheInv'
<1> SUFFICES ASSUME CacheInv, [Next]_vars PROVE CacheInv'
  OBVIOUS
<1>1. ASSUME NEW r \in Request, NEW target \in Target, NEW input \in Input,
             Evaluate(r, target, input)
      PROVE  CacheInv'
  BY <1>1, QuietStep DEF CacheInv, HistoryInv, Evaluate
<1>2. ASSUME NEW r \in Request, CacheGet(r)
      PROVE  CacheInv'
  BY <1>2, QuietStep DEF CacheInv, HistoryInv, CacheGet, Decide, Return
<1>3. ASSUME NEW r \in Request, Fail(r)
      PROVE  CacheInv'
  BY <1>3, QuietStep DEF CacheInv, HistoryInv, Fail, Return
<1>4. CASE UNCHANGED vars
  BY <1>4 DEF vars, table, requests, CacheInv, HistoryInv, FillOK, EntryOK, Reads
<1>5. QED
  BY <1>1, <1>2, <1>3, <1>4, FindStep, FillStep, EditStep, RedisLosesStep, TickStep
     DEF Next, Asks

\* What every reachable state satisfies.
LEMMA Invariant == Spec => []CacheInv
BY InitInv, NextInv, PTL DEF Spec

-----------------------------------------------------------------------------
(* Each step of the cache is a step of the promise, or none.               *)

\* The promise decides as PbacService does.
LEMMA SameDecision ==
  /\ \A rows : Promise!ByPriority(rows) = ByPriority(rows)
  /\ \A rows, input : Promise!Decision(rows, input) = Decision(rows, input)
  /\ \A target, targets : Promise!Alike(target, targets) = Alike(target, targets)
<1>1. \A rows : Promise!Cardinality(rows) = Cardinality(rows)
  BY Zenon DEF Cardinality, Promise!Cardinality
<1>2. \A rows : Promise!ByPriority(rows) = ByPriority(rows)
  BY <1>1 DEF ByPriority, Promise!ByPriority
<1>3. \A rows, input : Promise!Decision(rows, input) = Decision(rows, input)
  BY DEF Decision, Promise!Decision, Stops, Promise!Stops, Outcome, Promise!Outcome
<1>4. \A target, targets : Promise!Alike(target, targets) = Alike(target, targets)
  BY DEF Alike, Promise!Alike, Joined, Promise!Joined
<1>5. QED
  BY <1>2, <1>3, <1>4

\* A hit is the decision of a table that is still in the window.
LEMMA HitDecides ==
  ASSUME CacheInv, NEW r \in Request, CacheGet(r), Hit(cached[KeyOf(r)].expiry, now)
  PROVE  Promise!Decide(r)
<1>1. query[r][1] \in Target /\ now \in Nat
  BY DEF CacheInv, HistoryInv
<1>2. PICK past \in seen, target \in Alike(query[r][1], Target) :
        /\ cached[KeyOf(r)].expiry \in Nat
        /\ cached[KeyOf(r)].expiry <= past[1] + Window
        /\ Reads(cached[KeyOf(r)].list, past, target)
  BY <1>1 DEF CacheInv, EntryOK, KeyOf
<1>3. now < past[1] + Window
  BY <1>1, <1>2, WindowNat, NeverAssumption DEF CacheInv, HistoryInv, Hit
<1>4. /\ verdict' = [verdict EXCEPT ![r] =
                       Decision(cached[KeyOf(r)].list, query[r][2])]
      /\ UNCHANGED <<now, seen, query>>
  BY DEF CacheGet, Decide, Return, table
<1>5. QED
  BY <1>2, <1>3, <1>4, SameDecision DEF Promise!Decide, Reads

\* So is the decision on the rows that have just been cached.
LEMMA FillDecides ==
  ASSUME CacheInv, NEW r \in Request, Fill(r)
  PROVE  Promise!Decide(r)
<1>1. PICK past \in seen : /\ past[1] = readAt[r]
                           /\ Reads(list[r], past, query[r][1])
  BY DEF CacheInv, FillOK, Fill
<1>2. now < past[1] + Window
  BY <1>1, WindowNat, PolicyCacheAssumption
     DEF CacheInv, HistoryInv, FillOK, Fill
<1>3. /\ verdict' = [verdict EXCEPT ![r] = Decision(list[r], query[r][2])]
      /\ UNCHANGED <<now, seen, query>>
  BY DEF Fill, Decide, Return, table
<1>4. query[r][1] \in Alike(query[r][1], Target)
  BY DEF Alike
<1>5. QED
  BY <1>1, <1>2, <1>3, <1>4, SameDecision DEF Promise!Decide, Reads

LEMMA StepRefines == CacheInv /\ [Next]_vars => [Promise!Next]_(Promise!vars)
<1> SUFFICES ASSUME CacheInv, [Next]_vars PROVE [Promise!Next]_(Promise!vars)
  OBVIOUS
<1>1. ASSUME NEW r \in Request, NEW target \in Target, NEW input \in Input,
             Evaluate(r, target, input)
      PROVE  Promise!Ask(r)
  BY <1>1 DEF Evaluate, Promise!Ask, table
<1>2. ASSUME NEW r \in Request, CacheGet(r)
      PROVE  Promise!Decide(r) \/ UNCHANGED Promise!vars
  <2>1. CASE Hit(cached[KeyOf(r)].expiry, now)
    BY <1>2, <2>1, HitDecides
  <2>2. CASE ~Hit(cached[KeyOf(r)].expiry, now)
    BY <1>2, <2>2 DEF CacheGet, table, Promise!vars
  <2>3. QED
    BY <2>1, <2>2
<1>3. ASSUME NEW r \in Request, Find(r)
      PROVE  UNCHANGED Promise!vars
  BY <1>3 DEF Find, table, Promise!vars
<1>4. ASSUME NEW r \in Request, Fail(r)
      PROVE  Promise!Fail(r)
  BY <1>4 DEF Fail, Return, table, Promise!Fail
<1>5. ASSUME NEW key \in Key, RedisLoses(key)
      PROVE  UNCHANGED Promise!vars
  BY <1>5 DEF RedisLoses, table, requests, Promise!vars
<1>6. ASSUME Edit
      PROVE  Promise!Edit
  BY <1>6 DEF Edit, requests, Promise!Edit
<1>7. ASSUME Tick
      PROVE  Promise!Tick
  BY <1>7 DEF CacheInv, HistoryInv, Tick, Recently, requests, Promise!Tick
<1>8. CASE UNCHANGED vars
  BY <1>8 DEF vars, table, requests, Promise!vars
<1>9. QED
  BY <1>1, <1>2, <1>3, <1>4, <1>5, <1>6, <1>7, <1>8, FillDecides
     DEF Next, Asks, Promise!Next

\* Every answer of PBAC is the decision of a policy table in force within
\* the last CacheTtl + MaxFill ticks, for the target asked about or for one
\* of the same key (PbacService.evaluate and its cache).
THEOREM Staleness == Spec => BoundedStaleness
<1>1. Init => Promise!Init
  BY DEF Init, Promise!Init
<1>2. Spec => []CacheInv
  BY Invariant
<1>3. CacheInv /\ [Next]_vars => [Promise!Next]_(Promise!vars)
  BY StepRefines
<1>4. QED
  BY <1>1, <1>2, <1>3, PTL DEF Spec, BoundedStaleness, Promise!Spec

-----------------------------------------------------------------------------
(* Types.                                                                  *)

\* Lists of policies, the one a fresh handler holds included.
LEMMA ListType ==
  /\ <<>> \in Lists
  /\ \A rows \in SUBSET Policy : ByPriority(rows) \subseteq Lists
<1>1. Cardinality(Policy) \in Nat
  BY TableAssumption, FS_CardinalityType
<1>2. <<>> \in [1..0 -> Policy] /\ 0 \in 0..Cardinality(Policy)
  BY <1>1
<1>3. ASSUME NEW rows \in SUBSET Policy, NEW rowsInOrder \in ByPriority(rows)
      PROVE  rowsInOrder \in Lists
  <2>1. IsFiniteSet(rows) /\ Cardinality(rows) <= Cardinality(Policy)
    BY TableAssumption, FS_Subset
  <2>2. Cardinality(rows) \in 0..Cardinality(Policy)
    BY <1>1, <2>1, FS_CardinalityType
  <2>3. rowsInOrder \in [1..Cardinality(rows) -> Policy]
    BY DEF ByPriority
  <2>4. QED
    BY <2>2, <2>3 DEF Lists
<1>4. QED
  BY <1>2, <1>3 DEF Lists

LEMMA VerdictType ==
  ASSUME NEW rows \in Lists, NEW input
  PROVE  Decision(rows, input) \in {"ALLOW", "DENY", "error"}
<1>1. PICK n \in 0..Cardinality(Policy) : rows \in [1..n -> Policy]
  BY DEF Lists
<1>2. n \in Nat /\ DOMAIN rows = 1..n /\ \A i \in 1..n : rows[i].effect \in {"ALLOW", "DENY"}
  BY <1>1, PolicyCacheAssumption
<1>3. QED
  BY <1>2, DecisionType

LEMMA InitType == Init => TypeOK
<1> SUFFICES ASSUME Init PROVE TypeOK
  OBVIOUS
<1>1. Empty \in [list : Lists, expiry : Expiry]
  BY ListType DEF Empty, Absent, Expiry
<1>2. cached \in [Key -> [list : Lists, expiry : Expiry]]
  BY <1>1 DEF Init
<1>3. QED
  BY <1>2, ListType DEF Init, TypeOK

\* A request that is over has a verdict, and holds nothing.
LEMMA ReturnType ==
  ASSUME TypeOK, NEW r \in Request, NEW outcome \in {"ALLOW", "DENY", "error"},
         Return(r, outcome), UNCHANGED <<now, table, query>>,
         cached' \in [Key -> [list : Lists, expiry : Expiry]]
  PROVE  TypeOK'
BY ListType DEF TypeOK, Return, table

LEMMA NextType == TypeOK /\ [Next]_vars => TypeOK'
<1> SUFFICES ASSUME TypeOK, [Next]_vars PROVE TypeOK'
  OBVIOUS
<1>1. ASSUME NEW r \in Request, NEW target \in Target, NEW input \in Input,
             Evaluate(r, target, input)
      PROVE  TypeOK'
  BY <1>1 DEF TypeOK, Evaluate, table
<1>2. ASSUME NEW r \in Request, CacheGet(r) PROVE TypeOK'
  <2>1. KeyOf(r) \in Key
    BY DEF TypeOK, KeyOf, Key
  <2>2. Decision(cached[KeyOf(r)].list, query[r][2]) \in {"ALLOW", "DENY", "error"}
    BY <2>1, VerdictType DEF TypeOK
  <2>3. CASE Decide(r, cached[KeyOf(r)].list)
    BY <1>2, <2>2, <2>3, ReturnType DEF CacheGet, Decide, TypeOK, table
  <2>4. CASE ~Decide(r, cached[KeyOf(r)].list)
    BY <1>2, <2>4 DEF CacheGet, TypeOK, table
  <2>5. QED
    BY <2>3, <2>4
<1>3. ASSUME NEW r \in Request, Find(r) PROVE TypeOK'
  <2>1. Matching(query[r][1]) \in SUBSET Policy
    BY DEF TypeOK, Matching
  <2>2. PICK rows \in Lists : list' = [list EXCEPT ![r] = rows]
    BY <1>3, <2>1, ListType DEF Find
  <2>3. QED
    BY <1>3, <2>2 DEF Find, TypeOK, table
<1>4. ASSUME NEW r \in Request, Fill(r) PROVE TypeOK'
  <2>1. Decision(list[r], query[r][2]) \in {"ALLOW", "DENY", "error"}
    BY VerdictType DEF TypeOK
  <2>2. EntryExpiry \in Expiry
    BY PolicyCacheAssumption DEF TypeOK, EntryExpiry, SetEx, Expiry
  <2>3. cached' \in [Key -> [list : Lists, expiry : Expiry]]
    BY <1>4, <2>2 DEF Fill, TypeOK
  <2>4. QED
    BY <1>4, <2>1, <2>3, ReturnType DEF Fill, Decide
<1>5. ASSUME NEW r \in Request, Fail(r) PROVE TypeOK'
  BY <1>5, ReturnType DEF Fail, TypeOK
<1>6. ASSUME NEW key \in Key, RedisLoses(key) PROVE TypeOK'
  <2>1. Empty \in [list : Lists, expiry : Expiry]
    BY ListType DEF Empty, Absent, Expiry
  <2>2. QED
    BY <1>6, <2>1 DEF RedisLoses, TypeOK, table, requests
<1>7. CASE Edit
  <2>1. now \in 1..now
    BY DEF TypeOK
  <2>2. QED
    BY <1>7, <2>1 DEF Edit, TypeOK, requests
<1>8. CASE Tick
  <2>1. now' = now + 1 /\ now \in Nat /\ now' \in 1..now' /\ 1..now \subseteq 1..now'
    BY <1>8 DEF Tick, TypeOK
  <2>2. seen' \subseteq (1..now') \X SUBSET Policy
    BY <1>8, <2>1 DEF Tick, Recently, TypeOK
  <2>3. readAt' \in [Request -> 1..now']
    BY <1>8, <2>1 DEF Tick, TypeOK, requests
  <2>4. QED
    BY <1>8, <2>1, <2>2, <2>3 DEF Tick, TypeOK, requests
<1>9. CASE UNCHANGED vars
  BY <1>9 DEF vars, table, requests, TypeOK
<1>10. QED
  BY <1>1, <1>2, <1>3, <1>4, <1>5, <1>6, <1>7, <1>8, <1>9 DEF Next, Asks

(* Every variable keeps its type: what Redis and the handlers hold are     *)
(* lists of policies, and what evaluate() returns is a verdict.            *)
THEOREM TypeCorrect == Spec => []TypeOK
BY InitType, NextType, PTL DEF Spec

-----------------------------------------------------------------------------
(* The list a request decides on yields the effect of a policy that        *)
(* matches with the least priority number, and denies when none matches,   *)
(* in whatever order the database breaks ties.                             *)
THEOREM TopPriority == Spec => []TopPriorityDecides
<1>1. TypeOK => TopPriorityDecides
  <2> SUFFICES ASSUME TypeOK, NEW target \in Target, NEW input \in Input,
                      NEW rows \in ByPriority(Matching(target))
               PROVE  LET stopping == {policy \in Matching(target) : Stops(policy, input)}
                          top      == {policy \in stopping :
                                         \A other \in stopping :
                                           policy.priority <= other.priority}
                      IN  Decision(rows, input) \in
                            IF stopping = {} THEN {"DENY"}
                            ELSE {Outcome(policy, input) : policy \in top}
    BY DEF TopPriorityDecides
  <2>1. Matching(target) \in SUBSET Policy
    BY DEF TypeOK, Matching
  <2>2. IsFiniteSet(Matching(target))
    BY <2>1, TableAssumption, FS_Subset
  <2>3. \A policy \in Matching(target) : policy.priority \in Int
    BY <2>1, TableAssumption
  <2>4. QED
    BY <2>2, <2>3, LeastNumberDecides
<1>2. QED
  BY <1>1, TypeCorrect, PTL
=============================================================================
