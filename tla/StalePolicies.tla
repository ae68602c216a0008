---------------------------- MODULE StalePolicies ----------------------------
(***************************************************************************)
(* What a cached policy decision promises: it is the decision of a policy  *)
(* table that was in force within the last Window ticks, for the input     *)
(* that was asked about, and for the target, or for another target that    *)
(* reads the same once its names are joined.  No cache appears here.       *)
(***************************************************************************)
EXTENDS AccessModels

CONSTANTS Request, Policy, Target, Input, Window

VARIABLES
  now,          \* the clock
  seen,         \* pairs <<t, table>>: table was in force at time t
  query,        \* of each request: the target and the input asked about
  verdict       \* of each request: "none" until it is answered

vars == <<now, seen, query, verdict>>

ForTarget(table, target) == {policy \in table : policy.target = target}

Init == /\ now = 1
        /\ \E table \in SUBSET Policy : seen = {<<1, table>>}
        /\ \E q \in Target \X Input : query = [r \in Request |-> q]
        /\ verdict = [r \in Request |-> "none"]

Ask(r) ==
  /\ verdict' = [verdict EXCEPT ![r] = "none"]
  /\ \E target \in Target, input \in Input :
       query' = [query EXCEPT ![r] = <<target, input>>]
  /\ UNCHANGED <<now, seen>>

\* A decision of a table that is recent enough.
Decide(r) ==
  /\ \E past \in seen, target \in Alike(query[r][1], Target) :
       /\ now < past[1] + Window
       /\ \E list \in ByPriority(ForTarget(past[2], target)) :
            verdict' = [verdict EXCEPT ![r] = Decision(list, query[r][2])]
  /\ UNCHANGED <<now, seen, query>>

Fail(r) == /\ verdict' = [verdict EXCEPT ![r] = "error"]
           /\ UNCHANGED <<now, seen, query>>

Edit == /\ \E table \in SUBSET Policy : seen' = seen \cup {<<now, table>>}
        /\ UNCHANGED <<now, query, verdict>>

Tick == /\ now' = now + 1
        /\ \E past \in seen :
             seen' = {old \in seen : now' < old[1] + Window} \cup {<<now', past[2]>>}
        /\ UNCHANGED <<query, verdict>>

Next == Edit \/ Tick \/ \E r \in Request : Ask(r) \/ Decide(r) \/ Fail(r)

Spec == Init /\ [][Next]_vars
=============================================================================
