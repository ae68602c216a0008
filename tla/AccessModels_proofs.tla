------------------------- MODULE AccessModels_proofs -------------------------
(***************************************************************************)
(* Facts about the operators of AccessModels that the proofs of the        *)
(* modules built from them share.                                          *)
(***************************************************************************)
EXTENDS AccessModels, FiniteSetTheorems, WellFoundedInduction, TLAPS

\* Every non-empty set of naturals has a least element: what an induction
\* over a list looks for is the first place where the claim fails.
LEMMA LeastNatural ==
  ASSUME NEW T \in SUBSET Nat, T # {}
  PROVE  \E n \in T : \A m \in T : n <= m
<1> DEFINE Less == OpToRel(<, Nat)
<1>1. \A m, n \in Nat : <<m, n>> \in Less <=> m < n
  BY DEF OpToRel
<1>2. IsWellFoundedOn(Less, Nat)
  BY NatLessThanWellFounded
<1> HIDE DEF Less
<1>3. PICK n \in T : \A m \in T : ~ (<<m, n>> \in Less)
  BY <1>2, WFMin
<1>4. ASSUME NEW m \in T PROVE n <= m
  <2>1. m \in Nat /\ n \in Nat
    OBVIOUS
  <2>2. ~ (m < n)
    BY <1>1, <1>3, <2>1
  <2>3. QED
    BY <2>1, <2>2
<1>5. QED
  BY <1>4

-----------------------------------------------------------------------------
(* PBAC.                                                                   *)

\* A list by priority has every row of its set, and no other.
LEMMA ListHoldsAll ==
  ASSUME NEW rows, IsFiniteSet(rows), NEW list \in ByPriority(rows)
  PROVE  /\ Cardinality(rows) \in Nat /\ DOMAIN list = 1..Cardinality(rows)
         /\ \A i \in DOMAIN list : list[i] \in rows
         /\ \A row \in rows : \E i \in DOMAIN list : list[i] = row
<1> DEFINE n == Cardinality(rows)
<1>1. n \in Nat
  BY FS_CardinalityType
<1>2. /\ list \in [1..n -> rows]
      /\ \A i, j \in 1..n : i # j => list[i] # list[j]
  BY DEF ByPriority
<1>3. list \in Injection(1..n, rows)
  BY <1>2 DEF Injection, IsInjective
<1>4. Cardinality(1..n) = n
  BY <1>1, FS_Interval
<1>5. list \in Surjection(1..n, rows)
  BY <1>3, <1>4, FS_Injection
<1>6. \A row \in rows : \E i \in 1..n : list[i] = row
  BY <1>5 DEF Surjection
<1>7. QED
  BY <1>1, <1>2, <1>6

\* The loop over the policies stops at the first that matches or throws.
LEMMA FirstStops ==
  ASSUME NEW n \in Nat, NEW list, DOMAIN list = 1..n, NEW input
  PROVE  \/ /\ \A i \in 1..n : ~Stops(list[i], input)
            /\ Decision(list, input) = "DENY"
         \/ \E first \in 1..n :
              /\ Stops(list[first], input)
              /\ \A j \in 1..n : j < first => ~Stops(list[j], input)
              /\ Decision(list, input) = Outcome(list[first], input)
<1> DEFINE stopping == {i \in 1..n : Stops(list[i], input)}
           First(i) == /\ Stops(list[i], input)
                       /\ \A j \in DOMAIN list : j < i => ~Stops(list[j], input)
<1>1. CASE stopping = {}
  BY <1>1 DEF Decision
<1>2. CASE stopping # {}
  <2>1. PICK least \in stopping : \A m \in stopping : least <= m
    <3>1. stopping \in SUBSET Nat
      OBVIOUS
    <3> HIDE DEF stopping
    <3>2. QED
      BY <1>2, <3>1, LeastNatural
  <2>2. \E i \in DOMAIN list : First(i)
    BY <2>1
  <2>3. First(CHOOSE i \in DOMAIN list : First(i))
    BY <2>2
  <2>4. (CHOOSE i \in DOMAIN list : First(i)) \in 1..n
    BY <2>2
  <2>5. Decision(list, input) = Outcome(list[CHOOSE i \in DOMAIN list : First(i)], input)
    BY <2>1 DEF Decision
  <2>6. QED
    BY <2>3, <2>4, <2>5
<1>3. QED
  BY <1>1, <1>2

\* Whatever the list, a decision is a verdict.
LEMMA DecisionType ==
  ASSUME NEW n \in Nat, NEW list, DOMAIN list = 1..n, NEW input,
         \A i \in 1..n : list[i].effect \in {"ALLOW", "DENY"}
  PROVE  Decision(list, input) \in {"ALLOW", "DENY", "error"}
BY FirstStops DEF Outcome

\* Policies of one number are in any order, but a lesser number comes first:
\* the decision is that of a stopping policy with the least number.
LEMMA LeastNumberDecides ==
  ASSUME NEW rows, IsFiniteSet(rows), \A row \in rows : row.priority \in Int,
         NEW list \in ByPriority(rows), NEW input
  PROVE  LET stopping == {row \in rows : Stops(row, input)}
             top      == {row \in stopping :
                            \A other \in stopping : row.priority <= other.priority}
         IN  Decision(list, input) \in IF stopping = {} THEN {"DENY"}
                                      ELSE {Outcome(row, input) : row \in top}
<1> DEFINE n        == Cardinality(rows)
           stopping == {row \in rows : Stops(row, input)}
           top      == {row \in stopping :
                          \A other \in stopping : row.priority <= other.priority}
<1>1. /\ n \in Nat /\ DOMAIN list = 1..n
      /\ \A i \in 1..n : list[i] \in rows
      /\ \A row \in rows : \E i \in 1..n : list[i] = row
  BY ListHoldsAll
<1>2. \A i, j \in 1..n : i < j => list[i].priority <= list[j].priority
  BY <1>1 DEF ByPriority
<1>3. CASE stopping = {}
  BY <1>1, <1>3, FirstStops
<1>4. CASE stopping # {}
  <2>1. PICK first \in 1..n :
          /\ Stops(list[first], input)
          /\ \A j \in 1..n : j < first => ~Stops(list[j], input)
          /\ Decision(list, input) = Outcome(list[first], input)
    BY <1>1, <1>4, FirstStops
  <2>2. list[first] \in stopping
    BY <1>1, <2>1
  <2>3. ASSUME NEW other \in stopping PROVE list[first].priority <= other.priority
    <3>1. PICK j \in 1..n : list[j] = other
      BY <1>1, <2>3
    <3>2. first < j \/ first = j
      BY <2>1, <2>3, <3>1
    <3>3. list[first].priority \in Int /\ list[first].priority <= list[first].priority
      BY <1>1, <2>1
    <3>4. QED
      BY <1>2, <2>1, <3>1, <3>2, <3>3
  <2>4. list[first] \in top
    BY <2>2, <2>3
  <2>5. QED
    BY <1>4, <2>1, <2>4
<1>5. QED
  BY <1>3, <1>4
=============================================================================
