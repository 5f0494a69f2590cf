-------------------------- MODULE FlowManagerProofs --------------------------
(***************************************************************************)
(* What the positions of flows among the eligible ones come to, and which  *)
(* flows the arrow keys select.                                            *)
(***************************************************************************)
EXTENDS FlowManager, FiniteSetTheorems, WellFoundedInduction, TLAPS

(***************************************************************************)
(* A set of numbers that is not empty has a least one, and a greatest one  *)
(* where it is bounded.                                                    *)
(***************************************************************************)
LEMMA LeastOne ==
    ASSUME NEW S, S \subseteq Nat, S # {}
    PROVE  \E m \in S : \A j \in S : m <= j
<1>1. PICK m \in S : \A j \in S : ~(<<j, m>> \in OpToRel(<, Nat))
  BY WFMin, NatLessThanWellFounded
<1>2. \A j \in S : ~(j < m)
  BY <1>1 DEF OpToRel
<1> QED
  BY <1>2, SMT

\* A set of numbers with a bound has a greatest element.
LEMMA GreatestOne ==
    ASSUME NEW n \in Nat, NEW S, S \subseteq 0..n, S # {}
    PROVE  \E m \in S : \A j \in S : j <= m
<1> DEFINE T == {n - j : j \in S}
<1>0. \A j \in S : n - j \in Nat
  OBVIOUS
<1>1. T \subseteq Nat /\ T # {}
  BY <1>0
<1>2. PICK t \in T : \A u \in T : t <= u
  BY <1>1, LeastOne
<1>3. PICK m \in S : t = n - m
  OBVIOUS
<1>4. \A j \in S : n - j \in T
  OBVIOUS
<1>5. \A j \in S : n - m <= n - j
  BY <1>2, <1>3, <1>4
<1> QED
  BY <1>5

-----------------------------------------------------------------------------
(***************************************************************************)
(* Positions among finitely many eligible flows.                           *)
(***************************************************************************)
Before(E, i) == {j \in E : j < i}

\* The flows before one can be counted.
LEMMA BeforeFinite ==
    ASSUME NEW E, IsFiniteSet(E), NEW i
    PROVE  /\ IsFiniteSet(Before(E, i))
           /\ Position(E, i) = Cardinality(Before(E, i))
           /\ Position(E, i) \in Nat
           /\ Position(E, i) <= Cardinality(E)
<1>1. Before(E, i) \in SUBSET E
  BY DEF Before
<1>2. IsFiniteSet(Before(E, i)) /\ Cardinality(Before(E, i)) <= Cardinality(E)
  BY <1>1, FS_Subset
<1>3. Cardinality(Before(E, i)) \in Nat
  BY <1>2, FS_CardinalityType
<1> QED
  BY <1>2, <1>3 DEF Position, Before

\* From one eligible flow to the next the position grows by one.
LEMMA PositionNext ==
    ASSUME NEW E, E \subseteq Nat, IsFiniteSet(E), NEW i \in E, NEW j \in Nat, i < j,
           \A k \in E : ~(i < k /\ k < j)
    PROVE  Position(E, j) = Position(E, i) + 1
<1>0. \A k \in E : k \in Nat /\ (k < j <=> k < i \/ k = i)
  BY SMT
<1>1. Before(E, j) = Before(E, i) \cup {i}
  BY <1>0, Zenon DEF Before
<1>2. i \notin Before(E, i)
  BY SMT DEF Before
<1>3. IsFiniteSet(Before(E, i))
  BY BeforeFinite
<1>4. Cardinality(Before(E, j)) = Cardinality(Before(E, i)) + 1
  BY <1>1, <1>2, <1>3, FS_AddElement
<1> QED
  BY <1>4, BeforeFinite

\* A flow that is not eligible adds nothing.
LEMMA PositionSame ==
    ASSUME NEW E, E \subseteq Nat, IsFiniteSet(E), NEW i \in Nat, NEW j \in Nat, i <= j,
           \A k \in E : ~(i <= k /\ k < j)
    PROVE  Position(E, j) = Position(E, i)
<1>0. \A k \in E : k < j <=> k < i
  <2> TAKE k \in E
  <2> k \in Nat
    OBVIOUS
  <2> QED
    OBVIOUS
<1>1. Before(E, j) = Before(E, i)
  BY <1>0, Zenon DEF Before
<1> QED
  BY <1>1, BeforeFinite

\* A later flow stands at a later position.
LEMMA PositionGrows ==
    ASSUME NEW E, E \subseteq Nat, IsFiniteSet(E), NEW i \in E, NEW j \in Nat, i < j
    PROVE  Position(E, i) < Position(E, j)
<1>0. \A k \in E : k < i => k < j
  <2> TAKE k \in E
  <2> k \in Nat /\ i \in Nat
    OBVIOUS
  <2> QED
    OBVIOUS
<1>1. Before(E, i) \cup {i} \in SUBSET Before(E, j)
  BY <1>0, Zenon DEF Before
<1>2. i \notin Before(E, i)
  BY SMT DEF Before
<1>3. IsFiniteSet(Before(E, i)) /\ IsFiniteSet(Before(E, j))
  BY BeforeFinite
<1>4. Cardinality(Before(E, i) \cup {i}) = Cardinality(Before(E, i)) + 1
  BY <1>2, <1>3, FS_AddElement
<1>5. Cardinality(Before(E, i) \cup {i}) <= Cardinality(Before(E, j))
  BY <1>1, <1>3, FS_Subset
<1>6. /\ Position(E, i) = Cardinality(Before(E, i)) /\ Position(E, i) \in Nat
      /\ Position(E, j) = Cardinality(Before(E, j)) /\ Position(E, j) \in Nat
  BY BeforeFinite
<1> QED
  BY <1>4, <1>5, <1>6

\* The last one stands at the end, the others before it.
LEMMA PositionInside ==
    ASSUME NEW E, E \subseteq Nat, IsFiniteSet(E), NEW i \in E
    PROVE  /\ Position(E, i) \in 0..(Cardinality(E) - 1)
           /\ (\A k \in E : k <= i) => Position(E, i) = Cardinality(E) - 1
<1>1. /\ IsFiniteSet(Before(E, i)) /\ Position(E, i) = Cardinality(Before(E, i))
      /\ Position(E, i) \in Nat
  BY BeforeFinite
<1>2. Cardinality(E) \in Nat
  BY FS_CardinalityType
<1>3. i \notin Before(E, i)
  BY SMT DEF Before
<1>4. Cardinality(Before(E, i) \cup {i}) = Cardinality(Before(E, i)) + 1
  BY <1>1, <1>3, FS_AddElement
<1>5. Before(E, i) \cup {i} \in SUBSET E
  BY DEF Before
<1>6. Cardinality(Before(E, i) \cup {i}) <= Cardinality(E)
  BY <1>5, FS_Subset
<1>7. (\A k \in E : k <= i) => E = Before(E, i) \cup {i}
  <2> SUFFICES ASSUME \A k \in E : k <= i PROVE E = Before(E, i) \cup {i}
    OBVIOUS
  <2>1. \A k \in E : k < i \/ k = i
    BY SMT
  <2> QED
    BY <2>1, Zenon DEF Before
<1>8. Position(E, i) + 1 <= Cardinality(E)
  BY <1>1, <1>4, <1>6
<1>9. Position(E, i) \in 0..(Cardinality(E) - 1)
  BY <1>1, <1>2, <1>8
<1>10. ASSUME \A k \in E : k <= i
       PROVE  Position(E, i) = Cardinality(E) - 1
  <2>1. E = Before(E, i) \cup {i}
    BY <1>7, <1>10
  <2>2. Cardinality(E) = Cardinality(Before(E, i)) + 1
    BY <2>1, <1>4, Zenon
  <2> QED
    BY <2>2, <1>1
<1> QED
  BY <1>9, <1>10

\* Where an eligible flow stands, absoluteIndexes holds it.
LEMMA FlowAtPosition ==
    ASSUME NEW E, E \subseteq Nat, IsFiniteSet(E), NEW i \in E
    PROVE  AbsoluteIndex(E, Position(E, i)) = [kind |-> "flow", flow |-> i]
<1>1. Position(E, i) \in 0..(Cardinality(E) - 1)
  BY PositionInside
<1>2. \A j \in E : Position(E, j) = Position(E, i) => j = i
  <2> TAKE j \in E
  <2>1. i \in Nat /\ j \in Nat /\ Position(E, i) \in Nat /\ Position(E, j) \in Nat
    BY BeforeFinite
  <2>2. i < j => Position(E, i) < Position(E, j)
    BY <2>1, PositionGrows
  <2>3. j < i => Position(E, j) < Position(E, i)
    BY <2>1, PositionGrows
  <2> QED
    BY <2>1, <2>2, <2>3
<1>3. (CHOOSE j \in E : Position(E, j) = Position(E, i)) = i
  BY <1>2
<1> QED
  BY <1>1, <1>3 DEF AbsoluteIndex

-----------------------------------------------------------------------------
(***************************************************************************)
(* The next and the previous eligible flow, and what the keys select.      *)
(***************************************************************************)
LEMMA NextAfter ==
    ASSUME NEW E, E \subseteq Nat, NEW s \in Nat, NEW k \in E, s < k
    PROVE  \E m \in E : s < m /\ \A j \in E : ~(s < j /\ j < m)
<1> DEFINE S == {j \in E : s < j}
<1>1. S \subseteq Nat /\ k \in S
  OBVIOUS
<1>2. PICK m \in S : \A j \in S : m <= j
  BY <1>1, LeastOne, Zenon
<1>3. \A j \in S : j \in Nat
  BY <1>1
<1>4. \A j \in E : s < j => ~(j < m)
  BY <1>2, <1>3, SMT
<1> QED
  BY <1>4

\* Before a flow that has an eligible one before it, there is a nearest one.
LEMMA PreviousBefore ==
    ASSUME NEW E, E \subseteq Nat, NEW s \in Nat, NEW k \in E, k < s
    PROVE  \E m \in E : m < s /\ \A j \in E : ~(m < j /\ j < s)
<1> DEFINE S == {j \in E : j < s}
<1>1. S \subseteq 0..s /\ k \in S
  <2>1. \A j \in S : j \in 0..s
    OBVIOUS
  <2> QED
    BY <2>1, Zenon
<1>2. PICK m \in S : \A j \in S : j <= m
  BY <1>1, GreatestOne, Zenon
<1>3. \A j \in S : j \in Nat
  BY <1>1
<1>4. \A j \in E : j < s => ~(m < j)
  BY <1>2, <1>3, SMT
<1> QED
  BY <1>4

\* A place before some flow is a place after some eligible one, unless it is the first.
LEMMA NotFirst ==
    ASSUME NEW E, E \subseteq Nat, IsFiniteSet(E), NEW s \in Nat, Position(E, s) # 0
    PROVE  \E m \in E : /\ m < s
                        /\ \A j \in E : ~(m < j /\ j < s)
                        /\ Position(E, s) = Position(E, m) + 1
<1>1. Cardinality(Before(E, s)) # 0
  BY BeforeFinite
<1>2. PICK k \in E : k < s
  BY <1>1, BeforeFinite, FS_EmptySet DEF Before
<1>3. PICK m \in E : m < s /\ \A j \in E : ~(m < j /\ j < s)
  BY <1>2, PreviousBefore, Zenon
<1>4. Position(E, s) = Position(E, m) + 1
  BY <1>3, PositionNext, Zenon
<1> QED
  BY <1>3, <1>4

\* Flow i may be selected after flow s: it is eligible and skips no eligible flow.
Neighbour(E, s, i) ==
    /\ i \in E
    /\ \A k \in E :
        /\ ~(s < k /\ k < i)
        /\ i < k /\ k < s => s \notin E

\* The eligible flows can be counted.
LEMMA EligibleFinite ==
    ASSUME NEW flows, NEW old, NEW n \in Nat, DOMAIN flows = 1..n
    PROVE  /\ EligibleFlows(flows, old) \subseteq Nat
           /\ IsFiniteSet(EligibleFlows(flows, old))
           /\ Cardinality(EligibleFlows(flows, old)) \in Nat
<1>1. EligibleFlows(flows, old) \in SUBSET (1..n)
  BY DEF EligibleFlows
<1>2. IsFiniteSet(EligibleFlows(flows, old))
  BY <1>1, FS_Interval, FS_Subset
<1> QED
  BY <1>1, <1>2, FS_CardinalityType

(***************************************************************************)
(* SelectNextFlowIndex never leaves absoluteIndexes, and where it selects  *)
(* a flow it is a neighbour.                                               *)
(***************************************************************************)
LEMMA NextSelects ==
    ASSUME NEW flows, NEW old, NEW n \in Nat, DOMAIN flows = 1..n, NEW s \in Nat
    PROVE  LET E == EligibleFlows(flows, old)
               result == SelectNext(flows, old, s)
           IN  \/ result = Error
               \/ \E i \in E : result = [kind |-> "flow", flow |-> i] /\ Neighbour(E, s, i)
<1> DEFINE E == EligibleFlows(flows, old)
           relative == RelativeIndex(E, s)
           result == SelectNext(flows, old, s)
           Goal == \/ result = Error
                   \/ \E i \in E : result = [kind |-> "flow", flow |-> i] /\ Neighbour(E, s, i)
<1> SUFFICES Goal
  OBVIOUS
<1>1. E \subseteq Nat /\ IsFiniteSet(E) /\ Cardinality(E) \in Nat
  BY EligibleFinite
<1>2. Position(E, s) \in Nat
  BY <1>1, BeforeFinite
<1>3. result = IF Cardinality(E) - 1 <= 0 THEN Error
               ELSE IF relative.MatchType = "nextMatch" THEN AbsoluteIndex(E, relative.Index)
               ELSE IF relative.Index = Cardinality(E) - 1 THEN Error
               ELSE AbsoluteIndex(E, relative.Index + 1)
  BY DEF SelectNext
<1> HIDE DEF E, result
<1>4. CASE s \in E
  <2>1. relative = [Index |-> Position(E, s), MatchType |-> "exactMatch"]
    BY <1>4 DEF RelativeIndex
  <2>2. CASE \A k \in E : k <= s
    <3>1. Position(E, s) = Cardinality(E) - 1
      BY <1>1, <1>4, <2>2, PositionInside
    <3> QED
      BY <1>3, <2>1, <3>1
  <2>3. CASE \E k \in E : ~(k <= s)
    <3>1. PICK k \in E : s < k
      BY <1>1, <2>3
    <3>2. PICK m \in E : s < m /\ \A j \in E : ~(s < j /\ j < m)
      BY <1>1, <3>1, NextAfter, Zenon
    <3>3. m \in Nat
      BY <1>1
    <3>4. Position(E, m) = Position(E, s) + 1
      BY <1>1, <1>4, <3>2, <3>3, PositionNext, Zenon
    <3>5. AbsoluteIndex(E, Position(E, s) + 1) = [kind |-> "flow", flow |-> m]
      BY <1>1, <3>4, FlowAtPosition, Zenon
    <3>6. Neighbour(E, s, m)
      BY <1>1, <3>2, <3>3 DEF Neighbour
    <3> QED
      BY <1>3, <2>1, <3>5, <3>6
  <2> QED
    BY <2>2, <2>3
<1>5. CASE s \notin E /\ \E k \in E : k > s
  <2>1. relative = [Index |-> Position(E, s), MatchType |-> "nextMatch"]
    BY <1>5 DEF RelativeIndex
  <2>2. PICK k \in E : s < k
    BY <1>1, <1>5
  <2>3. PICK m \in E : s < m /\ \A j \in E : ~(s < j /\ j < m)
    BY <1>1, <2>2, NextAfter, Zenon
  <2>4. m \in Nat /\ s <= m /\ \A j \in E : ~(s <= j /\ j < m)
    BY <1>1, <1>5, <2>3
  <2>5. Position(E, m) = Position(E, s)
    BY <1>1, <2>4, PositionSame, Zenon
  <2>6. AbsoluteIndex(E, Position(E, s)) = [kind |-> "flow", flow |-> m]
    BY <1>1, <2>5, FlowAtPosition, Zenon
  <2>7. Neighbour(E, s, m)
    BY <1>1, <1>5, <2>3, <2>4 DEF Neighbour
  <2> QED
    BY <1>3, <2>1, <2>6, <2>7
<1>6. CASE s \notin E /\ ~\E k \in E : k > s
  <2>1. relative = [Index |-> -1, MatchType |-> "exactMatch"]
    BY <1>6 DEF RelativeIndex
  <2>2. CASE Cardinality(E) - 1 <= 0
    BY <1>3, <2>2
  <2>3. CASE ~(Cardinality(E) - 1 <= 0)
    <3>1. E # {}
      BY <1>1, <2>3, FS_EmptySet
    <3>2. PICK m \in E : \A j \in E : m <= j
      BY <1>1, <3>1, LeastOne
    <3>3. Before(E, m) = {}
      <4>1. \A j \in E : ~(j < m)
        BY <1>1, <3>2, SMT
      <4> QED
        BY <4>1 DEF Before
    <3>4. Position(E, m) = 0
      BY <1>1, <3>3, BeforeFinite, FS_EmptySet
    <3>5. AbsoluteIndex(E, 0) = [kind |-> "flow", flow |-> m]
      BY <1>1, <3>4, FlowAtPosition, Zenon
    <3>6. Neighbour(E, s, m)
      BY <1>1, <1>6, <3>2 DEF Neighbour
    <3>7. relative.Index + 1 = 0 /\ relative.Index # Cardinality(E) - 1
          /\ relative.MatchType # "nextMatch"
      BY <1>1, <2>1, <2>3
    <3> QED
      BY <1>3, <2>3, <3>5, <3>6, <3>7
  <2> QED
    BY <2>2, <2>3
<1> QED
  BY <1>4, <1>5, <1>6

(***************************************************************************)
(* SelectPreviousFlowIndex leaves absoluteIndexes only from a flow that is *)
(* not eligible, and where it selects a flow it is a neighbour.            *)
(***************************************************************************)
LEMMA PreviousSelects ==
    ASSUME NEW flows, NEW old, NEW n \in Nat, DOMAIN flows = 1..n, NEW s \in Nat
    PROVE  LET E == EligibleFlows(flows, old)
               result == SelectPrevious(flows, old, s)
           IN  \/ result = Error
               \/ result = [kind |-> "panic"] /\ s \notin E
               \/ \E i \in E : result = [kind |-> "flow", flow |-> i] /\ Neighbour(E, s, i)
<1> DEFINE E == EligibleFlows(flows, old)
           relative == RelativeIndex(E, s)
           index == IF relative.MatchType = "nextMatch" THEN relative.Index - 1
                    ELSE relative.Index
           result == SelectPrevious(flows, old, s)
           Goal == \/ result = Error
                   \/ result = [kind |-> "panic"] /\ s \notin E
                   \/ \E i \in E : result = [kind |-> "flow", flow |-> i] /\ Neighbour(E, s, i)
<1> SUFFICES Goal
  OBVIOUS
<1>1. E \subseteq Nat /\ IsFiniteSet(E) /\ Cardinality(E) \in Nat
  BY EligibleFinite
<1>2. Position(E, s) \in Nat
  BY <1>1, BeforeFinite
<1>3. result = IF Cardinality(E) <= 1 \/ index = 0 THEN Error ELSE AbsoluteIndex(E, index - 1)
  BY DEF SelectPrevious
<1> HIDE DEF E, result
<1>4. CASE s \in E
  <2>1. index = Position(E, s)
    BY <1>4 DEF RelativeIndex
  <2>2. CASE Position(E, s) = 0
    BY <1>3, <2>1, <2>2
  <2>3. CASE Position(E, s) # 0
    <3>1. PICK m \in E : /\ m < s
                         /\ \A j \in E : ~(m < j /\ j < s)
                         /\ Position(E, s) = Position(E, m) + 1
      BY <1>1, <2>3, NotFirst, Zenon
    <3>2. m \in Nat /\ Position(E, m) \in Nat
      BY <1>1, BeforeFinite
    <3>3. AbsoluteIndex(E, Position(E, m)) = [kind |-> "flow", flow |-> m]
      BY <1>1, FlowAtPosition, Zenon
    <3>4. index - 1 = Position(E, m)
      BY <2>1, <3>1, <3>2
    <3>5. Neighbour(E, s, m)
      BY <1>1, <3>1, <3>2 DEF Neighbour
    <3> QED
      BY <1>3, <3>3, <3>4, <3>5
  <2> QED
    BY <2>2, <2>3
<1>5. CASE s \notin E /\ \E k \in E : k > s
  <2>1. index = Position(E, s) - 1
    BY <1>5 DEF RelativeIndex
  <2>2. CASE Position(E, s) = 0
    <3>1. index - 1 \notin 0..(Cardinality(E) - 1)
      BY <2>1, <2>2
    <3> QED
      BY <1>3, <1>5, <3>1 DEF AbsoluteIndex
  <2>3. CASE Position(E, s) = 1
    BY <1>3, <2>1, <2>3
  <2>4. CASE Position(E, s) # 0 /\ Position(E, s) # 1
    <3>1. PICK k \in E : k < s /\ Position(E, s) = Position(E, k) + 1
      BY <1>1, <2>4, NotFirst, Zenon
    <3>2. k \in Nat /\ Position(E, k) \in Nat
      BY <1>1, BeforeFinite
    <3>3. Position(E, k) # 0
      BY <2>4, <3>1, <3>2
    <3>4. PICK m \in E : m < k /\ Position(E, k) = Position(E, m) + 1
      BY <1>1, <3>2, <3>3, NotFirst, Zenon
    <3>5. m \in Nat /\ Position(E, m) \in Nat
      BY <1>1, BeforeFinite
    <3>6. index - 1 = Position(E, m)
      BY <2>1, <3>1, <3>2, <3>4, <3>5
    <3>7. AbsoluteIndex(E, Position(E, m)) = [kind |-> "flow", flow |-> m]
      BY <1>1, FlowAtPosition, Zenon
    <3>8. Neighbour(E, s, m)
      BY <1>1, <1>5, <3>1, <3>2, <3>4, <3>5 DEF Neighbour
    <3> QED
      BY <1>3, <3>6, <3>7, <3>8
  <2> QED
    BY <2>2, <2>3, <2>4
<1>6. CASE s \notin E /\ ~\E k \in E : k > s
  <2>1. index = -1
    BY <1>6 DEF RelativeIndex
  <2>2. index - 1 \notin 0..(Cardinality(E) - 1)
    BY <2>1
  <2> QED
    BY <1>3, <1>6, <2>2 DEF AbsoluteIndex
<1> QED
  BY <1>4, <1>5, <1>6

=============================================================================
