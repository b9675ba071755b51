------------------------- MODULE RescuePipelineProofs ------------------------
(***************************************************************************)
(* Proofs about RescuePipeline: the plan is ordered, what it executes      *)
(* stands alone, and what is packaged or answered keeps to it.             *)
(*                                                                         *)
(* The plan is made by a recursive function on the rounds of the sort.     *)
(* That the function exists, and what its rounds have in common, is shown  *)
(* by a least counterexample (LeastNatural), and that the first of a set   *)
(* of actions exists by a least set (Minimal).                             *)
(***************************************************************************)
EXTENDS RescuePipeline, FiniteSetTheorems, FunctionTheorems, SequenceTheorems, WellFoundedInduction, TLAPS

-----------------------------------------------------------------------------
(* Least sets and least numbers.                                           *)

\* A family of subsets of a finite set has a member with none of the others in it.
LEMMA Minimal ==
  ASSUME NEW S, IsFiniteSet(S), NEW F \in SUBSET SUBSET S, F # {}
  PROVE  \E T \in F : \A U \in F : U \subseteq T => U = T
<1>1. IsWellFoundedOn(StrictSubsetOrdering(S), SUBSET S)
  BY FS_FiniteSubsetsOfFinite, FS_StrictSubsetOrderingWellFounded
<1>2. \E T \in F : \A U \in F : ~ (<<U, T>> \in StrictSubsetOrdering(S))
  BY <1>1, WFMin, Zenon
<1> QED
  BY <1>2 DEF StrictSubsetOrdering

\* A set of natural numbers has a least one.
LEMMA LeastNatural ==
  ASSUME NEW T \in SUBSET Nat, T # {}
  PROVE  \E m \in T : \A n \in T : m <= n
<1>1. PICK b \in T : TRUE
  OBVIOUS
<1> DEFINE F == {0 .. m : m \in {x \in T : x <= b}}
<1>2. IsFiniteSet(0 .. b)
  BY FS_Interval
<1>3. F \in SUBSET SUBSET (0 .. b)
  <2>1. SUFFICES ASSUME NEW m \in T, m <= b PROVE 0 .. m \subseteq 0 .. b
    BY Zenon
  <2>2. m \in Nat /\ b \in Nat
    OBVIOUS
  <2> QED
    BY <2>1, <2>2
<1>4. F # {}
  OBVIOUS
<1>5. PICK C \in F : \A U \in F : U \subseteq C => U = C
  <2> DEFINE B == 0 .. b
  <2>1. IsFiniteSet(B) /\ F \in SUBSET SUBSET B /\ F # {}
    BY <1>2, <1>3, <1>4
  <2> HIDE DEF F, B
  <2> QED
    BY <2>1, Minimal
<1>6. PICK m \in T : m <= b /\ C = 0 .. m
  BY <1>5
<1>7. ASSUME NEW n \in T PROVE m <= n
  <2>1. SUFFICES ASSUME n < m PROVE FALSE
    OBVIOUS
  <2>2. 0 .. n \in F /\ 0 .. n \subseteq C
    BY <1>6, <2>1
  <2>3. 0 .. n = 0 .. m
    BY <1>5, <1>6, <2>2
  <2>4. m \in 0 .. n
    BY <2>3
  <2> QED
    BY <2>1, <2>4
<1> QED
  BY <1>7

-----------------------------------------------------------------------------
(* The order of the actions.                                               *)

\* An action the planner orders: one with a place in actionTypeRank.
Orderable == {a \in Actions : Kind[a] # "PERMIT2"}

LEMMA RiskIsInteger == ASSUME NEW usd PROVE Risk(usd) \in Int
<1> DEFINE Steps == {t \in {100, 1000, 10000} : usd >= t}
<1>1. IsFiniteSet({100, 1000, 10000})
  <2>1. IsFiniteSet({100})
    BY FS_Singleton
  <2>2. IsFiniteSet({100} \cup {1000})
    BY <2>1, FS_AddElement
  <2>3. IsFiniteSet(({100} \cup {1000}) \cup {10000})
    BY <2>2, FS_AddElement
  <2>4. ({100} \cup {1000}) \cup {10000} = {100, 1000, 10000}
    OBVIOUS
  <2> QED
    BY <2>3, <2>4
<1>2. IsFiniteSet(Steps)
  BY <1>1, FS_Subset
<1>3. Cardinality(Steps) \in Nat
  BY <1>2, FS_CardinalityType
<1> QED
  BY <1>3 DEF Risk

Value(a) == IF Worth[a] = Unpriced THEN 0 ELSE Worth[a]

LEMMA RanksAreIntegers ==
  ASSUME NEW a \in Orderable
  PROVE  RiskOf(a) \in Int /\ Value(a) \in Int /\ TypeRank(a) \in Int /\ Key[a] \in Int
<1>1. a \in Actions /\ Kind[a] # "PERMIT2"
  BY DEF Orderable
<1>2. RiskOf(a) \in Int
  BY RiskIsInteger DEF RiskOf
<1>3. Value(a) \in Int
  BY <1>1, EvidenceAssumption DEF Value, Unpriced
<1>4. TypeRank(a) \in Int
  BY <1>1, KindAssumption DEF TypeRank, Transfers, Approvals
<1>5. Key[a] \in Int
  BY <1>1, KeyAssumption
<1> QED
  BY <1>2, <1>3, <1>4, <1>5

\* What compareActions comes to, criterion by criterion.
LEMMA PrecedesBy ==
  ASSUME NEW a, NEW b
  PROVE  Precedes(a, b) <=>
           \/ RiskOf(a) > RiskOf(b)
           \/ RiskOf(a) = RiskOf(b) /\ Value(a) > Value(b)
           \/ RiskOf(a) = RiskOf(b) /\ Value(a) = Value(b) /\ TypeRank(a) > TypeRank(b)
           \/ /\ RiskOf(a) = RiskOf(b) /\ Value(a) = Value(b) /\ TypeRank(a) = TypeRank(b)
              /\ -Key[a] > -Key[b]
<1> DEFINE rank(x) == <<RiskOf(x), Value(x), TypeRank(x), -Key[x]>>
           wins(k) == /\ rank(a)[k] > rank(b)[k]
                      /\ \A j \in 1 .. k - 1 : rank(a)[j] = rank(b)[j]
<1>1. Precedes(a, b) <=> \E k \in 1 .. 4 : wins(k)
  BY DEF Precedes, Value
<1>2. (\E k \in 1 .. 4 : wins(k)) <=> wins(1) \/ wins(2) \/ wins(3) \/ wins(4)
  <2> HIDE DEF wins
  <2> QED
    OBVIOUS
<1>3. /\ 1 .. 1 - 1 = {} /\ 1 .. 2 - 1 = {1} /\ 1 .. 3 - 1 = {1, 2} /\ 1 .. 4 - 1 = {1, 2, 3}
  OBVIOUS
<1>4. \A x : /\ rank(x)[1] = RiskOf(x) /\ rank(x)[2] = Value(x)
             /\ rank(x)[3] = TypeRank(x) /\ rank(x)[4] = -Key[x]
  OBVIOUS
<1> HIDE DEF rank
<1>5. wins(1) <=> RiskOf(a) > RiskOf(b)
  BY <1>3, <1>4
<1>6. wins(2) <=> RiskOf(a) = RiskOf(b) /\ Value(a) > Value(b)
  BY <1>3, <1>4
<1>7. wins(3) <=> RiskOf(a) = RiskOf(b) /\ Value(a) = Value(b) /\ TypeRank(a) > TypeRank(b)
  BY <1>3, <1>4
<1>8. wins(4) <=> /\ RiskOf(a) = RiskOf(b) /\ Value(a) = Value(b) /\ TypeRank(a) = TypeRank(b)
                  /\ -Key[a] > -Key[b]
  BY <1>3, <1>4
<1> HIDE DEF wins
<1> QED
  BY <1>1, <1>2, <1>5, <1>6, <1>7, <1>8

LEMMA PrecedesIsTotal ==
  ASSUME NEW a \in Orderable, NEW b \in Orderable, a # b
  PROVE  Precedes(a, b) \/ Precedes(b, a)
<1>1. Key[a] # Key[b]
  BY KeyAssumption DEF Orderable
<1> QED
  BY <1>1, PrecedesBy, RanksAreIntegers

LEMMA PrecedesIsIrreflexive == ASSUME NEW a \in Orderable PROVE ~Precedes(a, a)
  BY PrecedesBy, RanksAreIntegers

LEMMA PrecedesIsTransitive ==
  ASSUME NEW a \in Orderable, NEW b \in Orderable, NEW c \in Orderable,
         Precedes(a, b), Precedes(b, c)
  PROVE  Precedes(a, c)
<1>1. /\ RiskOf(a) \in Int /\ Value(a) \in Int /\ TypeRank(a) \in Int /\ Key[a] \in Int
      /\ RiskOf(b) \in Int /\ Value(b) \in Int /\ TypeRank(b) \in Int /\ Key[b] \in Int
      /\ RiskOf(c) \in Int /\ Value(c) \in Int /\ TypeRank(c) \in Int /\ Key[c] \in Int
  BY RanksAreIntegers
<1> QED
  BY <1>1, PrecedesBy, SMTT(30)

LEMMA OrderableIsFinite == ASSUME NEW S \in SUBSET Orderable PROVE IsFiniteSet(S)
<1>1. S \in SUBSET Actions
  BY DEF Orderable
<1> QED
  BY <1>1, FiniteAssumption, FS_Subset

\* Of any actions there is one that precedes all the others.
LEMMA FirstIsFirst ==
  ASSUME NEW S \in SUBSET Orderable, S # {}
  PROVE  First(S) \in S /\ \A b \in S \ {First(S)} : Precedes(First(S), b)
<1> DEFINE before(a) == {b \in S : Precedes(b, a)}
           F == {before(a) : a \in S}
<1>1. PICK C \in F : \A U \in F : U \subseteq C => U = C
  <2>1. IsFiniteSet(S)
    BY OrderableIsFinite
  <2>2. F \in SUBSET SUBSET S /\ F # {}
    OBVIOUS
  <2> HIDE DEF F
  <2> QED
    BY <2>1, <2>2, Minimal
<1>2. PICK a \in S : C = before(a)
  BY <1>1
<1>3. ASSUME NEW b \in S \ {a} PROVE Precedes(a, b)
  <2>1. SUFFICES ASSUME ~Precedes(a, b) PROVE FALSE
    OBVIOUS
  <2>2. a \in Orderable /\ b \in Orderable /\ Precedes(b, a)
    BY <2>1, PrecedesIsTotal
  <2>3. ASSUME NEW c \in before(b) PROVE c \in before(a)
    <3>1. c \in S /\ c \in Orderable /\ Precedes(c, b)
      OBVIOUS
    <3>2. Precedes(c, a)
      BY <2>2, <3>1, PrecedesIsTransitive
    <3> QED
      BY <3>1, <3>2
  <2>4. before(b) = before(a)
    BY <1>1, <1>2, <2>3
  <2>5. b \in before(b)
    BY <2>2, <2>4
  <2>6. ~Precedes(b, b)
    BY <2>2, PrecedesIsIrreflexive
  <2> QED
    BY <2>5, <2>6
<1>4. \E x \in S : \A b \in S \ {x} : Precedes(x, b)
  BY <1>3
<1> QED
  BY <1>4, Zenon DEF First

-----------------------------------------------------------------------------
(* What is ready, and the rounds of the sort.                              *)

\* A set of actions the planner makes a plan of: no adapter's output without it.
Plannable == {S \in SUBSET Orderable : \A o \in S \intersect Outputs : Parent[o] \in S}

\* No dependencies go in a circle: something is always ready.
LEMMA SomethingIsReady ==
  ASSUME NEW planned \in Plannable, NEW todo \in SUBSET planned, todo # {}
  PROVE  Ready(todo, planned) # {}
<1>1. \A a \in planned : a \in Actions /\ Kind[a] # "PERMIT2"
  BY DEF Plannable, Orderable
<1>2. SUFFICES \E a \in todo : DependsOn(a, planned) \intersect todo = {}
  BY DEF Ready
<1>3. CASE \E a \in todo : a \in Candidates
  <2>1. PICK a \in todo : a \in Candidates
    BY <1>3
  <2>2. a \notin Outputs /\ Kind[a] = "ADAPTER"
    BY <2>1, KindAssumption, EvidenceAssumption DEF Actions
  <2>3. DependsOn(a, planned) = {}
    BY <2>2 DEF DependsOn
  <2> QED
    BY <2>3
<1>4. CASE /\ \A a \in todo : a \notin Candidates
           /\ \E a \in todo : Kind[a] \in Transfers
  <2>1. PICK a \in todo : Kind[a] \in Transfers
    BY <1>4
  <2>2. CASE a \in Outputs
    <3>1. DependsOn(a, planned) = {Parent[a]} /\ Parent[a] \in Candidates
      BY <2>2, EvidenceAssumption DEF DependsOn
    <3> QED
      BY <1>4, <3>1
  <2>3. CASE a \notin Outputs
    <3>1. DependsOn(a, planned) = {}
      BY <2>1, <2>3 DEF DependsOn, Transfers
    <3> QED
      BY <3>1
  <2> QED
    BY <2>2, <2>3
<1>5. CASE /\ \A a \in todo : Kind[a] \notin Transfers
           /\ \E a \in todo : Kind[a] \in Approvals
  <2>1. PICK a \in todo : Kind[a] \in Approvals
    BY <1>5
  <2>2. a \notin Outputs
    BY <1>5, KindAssumption
  <2>3. \A b \in DependsOn(a, planned) : Kind[b] \in Transfers
    BY <2>1, <2>2 DEF DependsOn, Approvals, Transfers
  <2> QED
    BY <1>5, <2>3
<1>6. CASE \A a \in todo : a \notin Candidates /\ Kind[a] \notin Transfers \union Approvals
  <2>1. PICK a \in todo : TRUE
    OBVIOUS
  <2>2. \A b \in todo : Kind[b] = "NATIVE"
    BY <1>1, <1>6, KindAssumption
  <2>3. \A b \in todo : b = a
    BY <1>1, <2>2, KindAssumption
  <2>4. a \notin Outputs
    BY <1>6, KindAssumption
  <2>5. DependsOn(a, planned) = planned \ {a}
    BY <2>2, <2>4 DEF DependsOn
  <2> QED
    BY <2>3, <2>5
<1> QED
  BY <1>3, <1>4, <1>5, <1>6

\* The action a round takes.
Pick(todo, planned)   == First(Ready(todo, planned))
Round(done, planned)  == Append(done, Pick(planned \ Placed(done), planned))
Rounds(f, m, planned) == f = [k \in 0 .. m |-> IF k = 0 THEN <<>> ELSE Round(f[k - 1], planned)]

\* The recursion of the sort ends.
LEMMA RoundsExist == ASSUME NEW planned, NEW n \in Nat PROVE \E f : Rounds(f, n, planned)
<1>1. SUFFICES ASSUME \E m \in Nat : ~ \E f : Rounds(f, m, planned) PROVE FALSE
  OBVIOUS
<1> DEFINE T == {m \in Nat : ~ \E f : Rounds(f, m, planned)}
<1>2. PICK m \in T : \A k \in T : m <= k
  BY <1>1, LeastNatural
<1>3. m # 0
  <2>1. Rounds([k \in 0 .. 0 |-> <<>>], 0, planned)
    BY DEF Rounds
  <2> QED
    BY <1>2, <2>1
<1>4. PICK f : Rounds(f, m - 1, planned)
  BY <1>2, <1>3
<1>5. m \in Nat
  OBVIOUS
<1> DEFINE g == [k \in 0 .. m |-> IF k = 0 THEN <<>> ELSE Round(f[k - 1], planned)]
<1>6. \A k \in 0 .. m - 1 : g[k] = f[k]
  <2> HIDE DEF T
  <2> QED
    BY <1>4, <1>5 DEF Rounds
<1>7. Rounds(g, m, planned)
  <2>1. ASSUME NEW k \in 0 .. m, k # 0 PROVE g[k - 1] = f[k - 1]
    <3>1. k - 1 \in 0 .. m - 1
      BY <1>5, <2>1
    <3> QED
      BY <1>6, <3>1, Zenon
  <2> QED
    BY <2>1 DEF Rounds
<1> QED
  BY <1>2, <1>7

LEMMA SortedBy ==
  ASSUME NEW planned, Cardinality(planned) \in Nat
  PROVE  \E f : /\ Rounds(f, Cardinality(planned), planned)
                /\ Sorted(planned) = f[Cardinality(planned)]
<1>1. \E f : Rounds(f, Cardinality(planned), planned)
  BY RoundsExist
<1> QED
  BY <1>1 DEF Rounds, Sorted, Round, Pick

\* The result of k rounds: k actions of the plan, each the pick of its round.
Upto(s, i) == {s[j] : j \in 1 .. i}
Chosen(s, k, planned) ==
  /\ s \in Seq(planned) /\ Len(s) = k
  /\ \A i, j \in 1 .. k : s[i] = s[j] => i = j
  /\ \A i \in 1 .. k : /\ s[i] \in Ready(planned \ Upto(s, i - 1), planned)
                       /\ s[i] = Pick(planned \ Upto(s, i - 1), planned)

LEMMA PlacedOf ==
  ASSUME NEW planned \in Plannable, NEW k \in Nat, NEW s, Chosen(s, k, planned)
  PROVE  /\ Placed(s) \in SUBSET planned
         /\ IsFiniteSet(planned) /\ IsFiniteSet(Placed(s)) /\ Cardinality(Placed(s)) = k
         /\ Cardinality(planned) \in Nat
<1>1. s \in Seq(planned) /\ Len(s) = k /\ \A i, j \in 1 .. k : s[i] = s[j] => i = j
  BY DEF Chosen
<1>2. s \in [1 .. k -> planned]
  BY <1>1, LenProperties
<1>3. Placed(s) \in SUBSET planned
  BY <1>1, <1>2 DEF Placed
<1>4. IsFiniteSet(planned) /\ Cardinality(planned) \in Nat
  BY OrderableIsFinite, FS_CardinalityType DEF Plannable
<1>5. IsFiniteSet(1 .. k) /\ Cardinality(1 .. k) = k
  BY FS_Interval
<1>6. s \in Bijection(1 .. k, Placed(s))
  BY <1>1, <1>2 DEF Placed, Bijection, Injection, Surjection, IsInjective
<1>7. IsFiniteSet(Placed(s)) /\ Cardinality(Placed(s)) = Cardinality(1 .. k)
  <2> HIDE DEF Placed
  <2> DEFINE B == 1 .. k
  <2>1. ExistsBijection(B, Placed(s)) /\ IsFiniteSet(B)
    BY <1>5, <1>6 DEF ExistsBijection
  <2> HIDE DEF B
  <2>2. IsFiniteSet(Placed(s)) /\ Cardinality(Placed(s)) = Cardinality(B)
    BY <2>1, FS_Bijection
  <2> QED
    BY <2>2 DEF B
<1> QED
  BY <1>3, <1>4, <1>5, <1>7

\* A round takes one more action of the plan.
LEMMA RoundChooses ==
  ASSUME NEW planned \in Plannable, NEW k \in Nat, k < Cardinality(planned),
         NEW s, Chosen(s, k, planned)
  PROVE  Chosen(Round(s, planned), k + 1, planned)
<1> DEFINE todo == planned \ Placed(s)
           a    == Pick(todo, planned)
<1>1. /\ s \in Seq(planned) /\ Len(s) = k
      /\ \A i, j \in 1 .. k : s[i] = s[j] => i = j
      /\ \A i \in 1 .. k : /\ s[i] \in Ready(planned \ Upto(s, i - 1), planned)
                           /\ s[i] = Pick(planned \ Upto(s, i - 1), planned)
  BY Zenon DEF Chosen
<1>2. todo # {} /\ todo \in SUBSET planned
  <2>1. Placed(s) \in SUBSET planned /\ Cardinality(Placed(s)) = k
    BY PlacedOf
  <2>2. Placed(s) # planned
    BY <2>1
  <2> QED
    BY <2>1, <2>2
<1>3. a \in Ready(todo, planned)
  <2> HIDE DEF todo
  <2>1. Ready(todo, planned) # {}
    BY <1>2, SomethingIsReady
  <2>2. Ready(todo, planned) \in SUBSET Orderable
    BY <1>2 DEF Ready, Plannable
  <2>3. First(Ready(todo, planned)) \in Ready(todo, planned)
    BY <2>1, <2>2, FirstIsFirst
  <2> QED
    BY <2>3 DEF Pick
<1>4. a \in planned /\ a \notin Placed(s)
  BY <1>3 DEF Ready
<1> DEFINE r == Round(s, planned)
<1>5. r = Append(s, a)
  BY DEF Round
<1> HIDE DEF a, todo, r
<1>6. r \in Seq(planned) /\ Len(r) = k + 1
  BY <1>1, <1>4, <1>5
<1>7. \A i \in 1 .. k : r[i] = s[i]
  BY <1>1, <1>4, <1>5
<1>8. r[k + 1] = a
  BY <1>1, <1>4, <1>5
<1>9. \A i \in 1 .. k : s[i] # a
  BY <1>1, <1>4 DEF Placed
<1>10. \A i, j \in 1 .. k + 1 : r[i] = r[j] => i = j
  <2> SUFFICES ASSUME NEW i \in 1 .. k + 1, NEW j \in 1 .. k + 1, r[i] = r[j] PROVE i = j
    OBVIOUS
  <2>1. CASE i \in 1 .. k /\ j \in 1 .. k
    BY <1>1, <1>7, <2>1
  <2>2. CASE i = k + 1 /\ j \in 1 .. k
    BY <1>7, <1>8, <1>9, <2>2
  <2>3. CASE j = k + 1 /\ i \in 1 .. k
    BY <1>7, <1>8, <1>9, <2>3
  <2>4. CASE i = k + 1 /\ j = k + 1
    BY <2>4
  <2> QED
    BY <2>1, <2>2, <2>3, <2>4
<1>11. \A i \in 1 .. k + 1 : Upto(r, i - 1) = Upto(s, i - 1)
  BY <1>7 DEF Upto
<1>12. Upto(s, k) = Placed(s)
  BY <1>1 DEF Upto, Placed
<1>13. ASSUME NEW i \in 1 .. k + 1
       PROVE  /\ r[i] \in Ready(planned \ Upto(r, i - 1), planned)
              /\ r[i] = Pick(planned \ Upto(r, i - 1), planned)
  <2>1. CASE i \in 1 .. k
    BY <1>1, <1>7, <1>11, <2>1
  <2>2. CASE i = k + 1
    <3>1. Upto(r, i - 1) = Placed(s)
      BY <1>11, <1>12, <2>2
    <3> QED
      BY <1>3, <1>8, <2>2, <3>1 DEF a, todo
  <2> QED
    BY <2>1, <2>2
<1>14. Chosen(r, k + 1, planned)
  BY <1>6, <1>10, <1>13 DEF Chosen
<1> QED
  BY <1>14 DEF r

LEMMA RoundsChoose ==
  ASSUME NEW planned \in Plannable, NEW f, Rounds(f, Cardinality(planned), planned),
         Cardinality(planned) \in Nat
  PROVE  \A k \in 0 .. Cardinality(planned) : Chosen(f[k], k, planned)
<1> DEFINE N == Cardinality(planned)
           T == {k \in 0 .. N : ~Chosen(f[k], k, planned)}
<1>1. SUFFICES ASSUME T # {} PROVE FALSE
  OBVIOUS
<1>2. PICK m \in T : \A k \in T : m <= k
  <2>1. T \in SUBSET Nat
    OBVIOUS
  <2> HIDE DEF T
  <2> QED
    BY <1>1, <2>1, LeastNatural
<1>3. m # 0
  <2>1. f[0] = <<>>
    BY DEF Rounds
  <2>2. Chosen(<<>>, 0, planned)
    BY DEF Chosen
  <2> QED
    BY <2>1, <2>2
<1>4. m - 1 \in Nat /\ m - 1 < N /\ m \in 0 .. N
  BY <1>3
<1>5. m - 1 \notin T
  BY <1>2, <1>4
<1>6. Chosen(f[m - 1], m - 1, planned)
  BY <1>4, <1>5
<1>7. f[m] = Round(f[m - 1], planned)
  BY <1>3, <1>4 DEF Rounds
<1>8. Chosen(Round(f[m - 1], planned), m - 1 + 1, planned)
  BY <1>4, <1>6, RoundChooses
<1>9. m - 1 + 1 = m
  BY <1>4
<1> QED
  BY <1>7, <1>8, <1>9

-----------------------------------------------------------------------------
(* What the sort gives.                                                    *)

Ordered(s, planned) ==
  /\ s \in Seq(planned) /\ Placed(s) = planned
  /\ Len(s) = Cardinality(planned)
  /\ \A i, j \in 1 .. Len(s) : s[i] = s[j] => i = j
  /\ \A i, j \in 1 .. Len(s) : s[j] \in DependsOn(s[i], planned) => j < i
  /\ \A i \in 1 .. Len(s) - 1 : \/ Precedes(s[i], s[i + 1])
                                \/ s[i] \in DependsOn(s[i + 1], planned)

\* The sorted plan has each action once, after what it depends on, and out of the
\* order of priority only where it had to wait (topologicalPrioritySort).
THEOREM SortIsOrdered == ASSUME NEW planned \in Plannable PROVE Ordered(Sorted(planned), planned)
<1> DEFINE N == Cardinality(planned)
           s == Sorted(planned)
<1>1. IsFiniteSet(planned) /\ N \in Nat
  BY OrderableIsFinite, FS_CardinalityType DEF Plannable
<1>2. Chosen(s, N, planned)
  <2>1. PICK f : Rounds(f, N, planned) /\ s = f[N]
    BY <1>1, SortedBy
  <2>2. Chosen(f[N], N, planned)
    BY <1>1, <2>1, RoundsChoose
  <2> QED
    BY <2>1, <2>2
<1> HIDE DEF s
<1>3. /\ s \in Seq(planned) /\ Len(s) = N
      /\ \A i, j \in 1 .. N : s[i] = s[j] => i = j
      /\ \A i \in 1 .. N : /\ s[i] \in Ready(planned \ Upto(s, i - 1), planned)
                           /\ s[i] = Pick(planned \ Upto(s, i - 1), planned)
  BY <1>2, Zenon DEF Chosen
<1>4. Placed(s) = planned
  <2>1. Placed(s) \in SUBSET planned /\ Cardinality(Placed(s)) = N
    BY <1>1, <1>2, PlacedOf
  <2> HIDE DEF N
  <2> QED
    BY <1>1, <2>1, FS_Subset DEF N
<1> HIDE DEF N
<1>5. ASSUME NEW i \in 1 .. N, NEW j \in 1 .. N, s[j] \in DependsOn(s[i], planned)
      PROVE  j < i
  <2>1. s[j] \in planned
    BY <1>3
  <2>2. DependsOn(s[i], planned) \intersect (planned \ Upto(s, i - 1)) = {}
    BY <1>3 DEF Ready
  <2>3. s[j] \in Upto(s, i - 1)
    BY <1>5, <2>1, <2>2
  <2>4. PICK l \in 1 .. i - 1 : s[j] = s[l]
    BY <2>3 DEF Upto
  <2>5. l \in 1 .. N
    BY <1>1
  <2>6. j = l
    BY <1>3, <2>4, <2>5
  <2> QED
    BY <1>1, <2>6
<1>6. ASSUME NEW i \in 1 .. N - 1
      PROVE  Precedes(s[i], s[i + 1]) \/ s[i] \in DependsOn(s[i + 1], planned)
  <2>1. i \in 1 .. N /\ i + 1 \in 1 .. N /\ i # i + 1 /\ i + 1 - 1 = i /\ i \in Nat
    BY <1>1
  <2> DEFINE todo  == planned \ Upto(s, i - 1)
             later == planned \ Upto(s, i)
             b     == s[i + 1]
  <2>2. b \in Ready(later, planned)
    BY <1>3, <2>1
  <2>3. s[i] = First(Ready(todo, planned))
    BY <1>3, <2>1 DEF Pick
  <2>4. b # s[i]
    BY <1>3, <2>1
  <2>5. todo \subseteq later \union {s[i]} /\ later \subseteq todo
    BY <2>1 DEF Upto
  <2> HIDE DEF todo, later, b
  <2>6. CASE b \in Ready(todo, planned)
    <3>1. Ready(todo, planned) \in SUBSET Orderable
      BY DEF Ready, Plannable, todo
    <3>2. \A c \in Ready(todo, planned) \ {s[i]} : Precedes(s[i], c)
      BY <2>3, <2>6, <3>1, FirstIsFirst
    <3> QED
      BY <2>4, <2>6, <3>2 DEF b
  <2>7. CASE b \notin Ready(todo, planned)
    <3>1. b \in todo
      BY <2>2, <2>5 DEF Ready
    <3>2. DependsOn(b, planned) \intersect todo # {}
      BY <2>7, <3>1 DEF Ready
    <3>3. DependsOn(b, planned) \intersect later = {}
      BY <2>2 DEF Ready
    <3>4. s[i] \in DependsOn(b, planned)
      BY <2>5, <3>2, <3>3
    <3> QED
      BY <3>4 DEF b
  <2> QED
    BY <2>6, <2>7
<1>7. Ordered(s, planned)
  BY <1>3, <1>4, <1>5, <1>6 DEF Ordered, N
<1> QED
  BY <1>7 DEF s

-----------------------------------------------------------------------------
(* The invariant.                                                          *)

SimulationResults == [status : {"SUCCEEDED", "UNSUPPORTED", "FAILED"}, gas : 0 .. 1,
                      value : 0 .. MaxCoin, at : 0 .. MaxNow]
Findings == {"UNREAD", "UNKNOWN", "UNSUPPORTED", "DETECTED", "SUPPORTED"}

StateTypes ==
  /\ held \in SUBSET Asked /\ (\A e \in held : Kind[e] # "PERMIT2")
  /\ drained \in SUBSET Evidence /\ coin \in 0 .. MaxCoin
  /\ settlement \in BOOLEAN /\ caller \in {"agent", "preflight", "package"}
  /\ stage \in Stages /\ now \in 0 .. MaxNow /\ start \in 0 .. now
  /\ found \in [Evidence -> Findings]
  /\ plan \in Seq(Actions) /\ omitted \in BOOLEAN
  /\ sims \in Seq(SimulationResults) /\ Len(sims) <= Len(plan)
  /\ \A i \in 1 .. Len(sims) : sims[i].at <= now

\* The scan saw what was held, or could not read it.
ScanIsTrue ==
  stage # "scan" => \A e \in Evidence : /\ found[e] = "DETECTED" => e \in held
                                        /\ e \in held => found[e] \in {"UNKNOWN", "DETECTED"}

PlanIsOfScan ==
  IF Planning THEN plan = Sorted(Planned(found, Adapters)) /\ (~omitted => Complete(found))
  ELSE plan = <<>>

SimulationsAreSound ==
  /\ \A i \in 1 .. Len(sims) :
       /\ sims[i].status # "SUCCEEDED" => sims[i].gas = 0 /\ sims[i].value = 0
       /\ sims[i].status = "SUCCEEDED" /\ Estimated = 1 => sims[i].gas = 1
       /\ sims[i].value > 0 => i = Len(plan)
  /\ stage \in {"saved", "assemble", "permits", "done", "failed"} => Len(sims) = Len(plan)

\* A delegate package: of all that was eligible when its build began.
DelegatePackage == [ids    |-> {plan[i] : i \in Eligible(start)},
                    expiry |-> DelegateExpiry(Eligible(start), start)]
DelegateLasts   == Eligible(start) # {} /\ DelegateExpiry(Eligible(start), start) > start + Least

DelegateIsBuilt ==
  /\ stage = "assemble" => DelegateLasts
  /\ \/ delegate = NoPackage
     \/ stage = "done" /\ delegate = DelegatePackage /\ DelegateLasts

PermitPackage(p, i) ==
  /\ p.id = plan[i] /\ Backed(plan[i])
  /\ p.expiry = PermitExpiry(i) /\ PermitExpiry(i) > start + Least
  /\ p.of \in Features /\ p.std \in Taken(Kind[plan[i]], p.of, settlement)
Route(p) == /\ p.id \in Executable /\ p.expiry = 0
            /\ p.of \in Features /\ p.std \in Offered(Kind[p.id], p.of, settlement)

PermitsAreBuilt ==
  /\ stage = "permits" => caller = "agent"
  /\ permits = {} \/ stage = "done"
  /\ \A p \in permits : \/ caller = "agent" /\ \E i \in Packaged : PermitPackage(p, i)
                        \/ caller = "preflight" /\ Route(p)

Inv == /\ StateTypes /\ ScanIsTrue /\ PlanIsOfScan /\ SimulationsAreSound
       /\ ExecutableStandsAlone /\ DelegateIsBuilt /\ PermitsAreBuilt

-----------------------------------------------------------------------------
(* What the plan of a scan has.                                            *)

LEMMA PlannedIsPlannable ==
  ASSUME StateTypes, ScanIsTrue, stage # "scan"
  PROVE  Planned(found, Adapters) \in Plannable
<1> DEFINE P == Planned(found, Adapters)
<1>1. Adapters \subseteq Candidates
  BY DEF Adapters
<1>2. ASSUME NEW a \in P PROVE a \in Orderable
  <2>1. CASE a \in Evidence /\ found[a] = "DETECTED"
    <3>1. a \in held
      BY <2>1 DEF ScanIsTrue
    <3> QED
      BY <2>1, <3>1 DEF StateTypes, Orderable, Actions
  <2>2. CASE a \in Candidates
    BY <2>2, KindAssumption DEF Orderable, Actions
  <2>3. CASE a \in Outputs
    BY <2>3, KindAssumption DEF Orderable, Actions, Transfers
  <2> QED
    BY <1>1, <2>1, <2>2, <2>3 DEF Planned
<1>3. ASSUME NEW o \in P \intersect Outputs PROVE Parent[o] \in P
  <2>1. o \notin Evidence /\ o \notin Candidates
    BY EvidenceAssumption
  <2> QED
    BY <1>1, <2>1 DEF Planned
<1> HIDE DEF P
<1>4. P \in Plannable
  BY <1>2, <1>3 DEF Plannable
<1> QED
  BY <1>4 DEF P

LEMMA PlanIsSorted ==
  ASSUME StateTypes, ScanIsTrue, PlanIsOfScan, Planning
  PROVE  InPlan = Planned(found, Adapters) /\ Ordered(plan, InPlan)
<1> DEFINE P == Planned(found, Adapters)
<1>1. stage # "scan" /\ plan = Sorted(P)
  BY DEF PlanIsOfScan, Planning
<1>2. P \in Plannable
  BY <1>1, PlannedIsPlannable
<1> HIDE DEF P
<1>3. Ordered(plan, P)
  BY <1>1, <1>2, SortIsOrdered
<1>4. Placed(plan) = InPlan
  BY DEF Placed, InPlan
<1>5. Placed(plan) = P
  BY <1>3 DEF Ordered
<1> QED
  BY <1>3, <1>4, <1>5 DEF P

\* No action is in the plan twice.
LEMMA PlanIsInjective ==
  ASSUME StateTypes, ScanIsTrue, PlanIsOfScan, NEW i \in 1 .. Len(plan), NEW j \in 1 .. Len(plan),
         plan[i] = plan[j]
  PROVE  i = j
<1>1. CASE Planning
  BY <1>1, PlanIsSorted DEF Ordered
<1>2. CASE ~Planning
  <2>1. plan = <<>>
    BY <1>2 DEF PlanIsOfScan
  <2>2. Len(plan) = 0
    BY <2>1
  <2> QED
    BY <2>2
<1> QED
  BY <1>1, <1>2

-----------------------------------------------------------------------------
(* The initial states, the scan and the plan.                              *)

LEMMA InitIsGood == ASSUME Init PROVE Inv
<1>1. /\ held \in SUBSET Asked /\ coin \in 0 .. MaxCoin /\ settlement \in BOOLEAN
      /\ \A e \in held : Kind[e] # "PERMIT2"
      /\ caller \in {"agent", "preflight", "package"} /\ drained = {} /\ stage = "scan"
      /\ found = [e \in Evidence |-> "UNREAD"] /\ plan = <<>> /\ omitted = FALSE /\ sims = <<>>
      /\ now = 0 /\ start = 0 /\ permits = {} /\ delegate = NoPackage
  BY DEF Init
<1>2. Len(sims) = 0 /\ Len(plan) = 0 /\ sims \in Seq(SimulationResults) /\ plan \in Seq(Actions)
  BY <1>1
<1>3. MaxNow \in Nat
  BY TimeAssumption
<1>4. StateTypes
  <2>1. drained \in SUBSET Evidence /\ omitted \in BOOLEAN /\ stage \in Stages
    BY <1>1 DEF Stages
  <2>2. found \in [Evidence -> Findings]
    BY <1>1 DEF Findings
  <2>3. now \in 0 .. MaxNow /\ start \in 0 .. now
    BY <1>1, <1>3
  <2>4. Len(sims) <= Len(plan) /\ 1 .. Len(sims) = {}
    BY <1>2
  <2> QED
    BY <1>1, <1>2, <2>1, <2>2, <2>3, <2>4, Zenon DEF StateTypes
<1>5. Executable = {}
  BY <1>2 DEF Executable
<1>6. ScanIsTrue /\ PlanIsOfScan /\ SimulationsAreSound /\ ExecutableStandsAlone
  BY <1>1, <1>2, <1>5 DEF ScanIsTrue, PlanIsOfScan, Planning, SimulationsAreSound, ExecutableStandsAlone
<1>7. DelegateIsBuilt /\ PermitsAreBuilt
  BY <1>1 DEF DelegateIsBuilt, PermitsAreBuilt
<1> QED
  BY <1>4, <1>6, <1>7 DEF Inv

\* Nothing of a package is there before the end of its build.
LEMMA NothingYet ==
  ASSUME DelegateIsBuilt, PermitsAreBuilt, stage # "done"
  PROVE  delegate = NoPackage /\ permits = {}
  BY DEF DelegateIsBuilt, PermitsAreBuilt

LEMMA ScanKeeps == ASSUME Inv, Scan PROVE Inv'
<1>1. /\ StateTypes /\ ScanIsTrue /\ PlanIsOfScan /\ SimulationsAreSound
      /\ ExecutableStandsAlone /\ DelegateIsBuilt /\ PermitsAreBuilt
  BY DEF Inv
<1>2. /\ stage = "scan" /\ stage' = "plan"
      /\ UNCHANGED <<held, coin, settlement, caller, drained, plan, omitted, sims, now, permits,
                     delegate, start>>
  BY DEF Scan, facts
<1>3. PICK failed \in SUBSET Asked :
        found' = [e \in Evidence |-> IF e \in Asked THEN Finding(e, held, failed) ELSE "UNREAD"]
  BY DEF Scan
<1>4. plan = <<>> /\ Len(plan) = 0 /\ Len(sims) = 0
  <2>1. plan = <<>>
    BY <1>1, <1>2 DEF PlanIsOfScan, Planning
  <2>2. Len(sims) \in Nat /\ Len(sims) <= Len(plan)
    BY <1>1 DEF StateTypes
  <2> QED
    BY <2>1, <2>2
<1>5. \A e : Finding(e, held, failed) \in {"UNKNOWN", "UNSUPPORTED", "DETECTED", "SUPPORTED"}
  BY DEF Finding
<1>6. found' \in [Evidence -> Findings]
  BY <1>3, <1>5 DEF Findings
<1>7. Asked' = Asked
  BY <1>2 DEF Asked
<1>8. StateTypes'
  BY <1>1, <1>2, <1>6, <1>7 DEF StateTypes, Stages
<1>9. ScanIsTrue'
  <2>1. SUFFICES ASSUME NEW e \in Evidence
                 PROVE  /\ found'[e] = "DETECTED" => e \in held
                        /\ e \in held => found'[e] \in {"UNKNOWN", "DETECTED"}
    BY <1>2 DEF ScanIsTrue
  <2>2. found'[e] = IF e \in Asked THEN Finding(e, held, failed) ELSE "UNREAD"
    BY <1>3
  <2>3. held \subseteq Asked /\ (e \in held => Kind[e] # "PERMIT2")
    BY <1>1 DEF StateTypes
  <2> QED
    BY <2>2, <2>3 DEF Finding
<1>10. PlanIsOfScan' /\ SimulationsAreSound'
  BY <1>2, <1>4 DEF PlanIsOfScan, Planning, SimulationsAreSound
<1>11. ExecutableStandsAlone'
  BY <1>1, <1>2 DEF ExecutableStandsAlone, InPlan, Executable, Succeeded, Estimated
<1>12. DelegateIsBuilt' /\ PermitsAreBuilt'
  BY <1>1, <1>2, NothingYet DEF DelegateIsBuilt, PermitsAreBuilt, NoPackage
<1> QED
  BY <1>8, <1>9, <1>10, <1>11, <1>12 DEF Inv

LEMMA PlanKeeps == ASSUME Inv, Plan PROVE Inv'
<1>1. /\ StateTypes /\ ScanIsTrue /\ PlanIsOfScan /\ SimulationsAreSound
      /\ ExecutableStandsAlone /\ DelegateIsBuilt /\ PermitsAreBuilt
  BY DEF Inv
<1>2. /\ stage = "plan" /\ stage' = "simulate" /\ plan' = Sorted(Planned(found, Adapters))
      /\ omitted' = (caller # "package" \/ ~Complete(found))
      /\ UNCHANGED <<held, coin, settlement, caller, drained, found, sims, now, permits,
                     delegate, start>>
  BY DEF Plan, facts
<1>3. Len(sims) = 0 /\ sims \in Seq(SimulationResults)
  <2>1. plan = <<>>
    BY <1>1, <1>2 DEF PlanIsOfScan, Planning
  <2>2. Len(plan) = 0
    BY <2>1
  <2>3. Len(sims) \in Nat /\ Len(sims) <= Len(plan) /\ sims \in Seq(SimulationResults)
    BY <1>1 DEF StateTypes
  <2> QED
    BY <2>2, <2>3
<1> DEFINE P == Planned(found, Adapters)
<1>4. P \in Plannable
  BY <1>1, <1>2, PlannedIsPlannable
<1>5. plan' \in Seq(Actions) /\ Len(plan') \in Nat
  <2> HIDE DEF P
  <2>1. Sorted(P) \in Seq(P) /\ P \subseteq Actions
    BY <1>4, SortIsOrdered DEF Ordered, Plannable, Orderable
  <2>2. Sorted(P) \in Seq(Actions)
    BY <2>1, SeqMonotonic
  <2>3. plan' = Sorted(P)
    BY <1>2 DEF P
  <2> QED
    BY <2>2, <2>3
<1>6. Adapters' = Adapters /\ Asked' = Asked
  BY <1>2 DEF Adapters, Asked
<1>7. omitted' \in BOOLEAN /\ (~omitted' => Complete(found))
  BY <1>2, Zenon
<1>8. StateTypes'
  <2>1. UNCHANGED <<held, coin, settlement, caller, drained, found, sims, now, start>>
    BY <1>2
  <2>2. stage' \in Stages
    BY <1>2 DEF Stages
  <2>3. omitted' \in BOOLEAN
    BY <1>7
  <2>4. Len(sims') <= Len(plan') /\ Len(sims') = 0
    BY <1>3, <1>5, <2>1
  <2> QED
    <3>1. \A i \in 1 .. Len(sims') : sims'[i].at <= now'
      BY <2>4
    <3>2. held' \in SUBSET Asked' /\ found' \in [Evidence -> Findings] /\ start' \in 0 .. now'
      BY <1>1, <1>6, <2>1 DEF StateTypes
    <3> QED
      BY <1>1, <1>5, <2>1, <2>2, <2>3, <2>4, <3>1, <3>2 DEF StateTypes
<1>9. ScanIsTrue'
  BY <1>1, <1>2 DEF ScanIsTrue
<1>10. PlanIsOfScan'
  <2>1. Planned(found, Adapters)' = Planned(found, Adapters)
    BY <1>2, <1>6
  <2>2. Complete(found)' = Complete(found)
    BY <1>2
  <2>3. plan' = Sorted(Planned(found, Adapters))' /\ (~omitted' => Complete(found)')
    BY <1>2, <1>7, <2>1, <2>2, Zenon
  <2>4. Planning'
    BY <1>2 DEF Planning
  <2> QED
    BY <2>3, <2>4, Zenon DEF PlanIsOfScan
<1>11. SimulationsAreSound'
  BY <1>2, <1>3 DEF SimulationsAreSound
<1>12. ExecutableStandsAlone'
  <2>1. Executable' = {}
    BY <1>2, <1>3, <1>5 DEF Executable, Succeeded
  <2> QED
    BY <1>2, <1>3, <2>1 DEF ExecutableStandsAlone
<1>13. DelegateIsBuilt' /\ PermitsAreBuilt'
  BY <1>1, <1>2, NothingYet DEF DelegateIsBuilt, PermitsAreBuilt, NoPackage
<1> QED
  BY <1>8, <1>9, <1>10, <1>11, <1>12, <1>13 DEF Inv

-----------------------------------------------------------------------------
(* The simulation.                                                         *)

\* One more result leaves the ones before as they are.
LEMMA OneMoreResult ==
  ASSUME StateTypes, NEW r \in SimulationResults, Len(sims) < Len(plan),
         sims' = Append(sims, r), plan' = plan
  PROVE  /\ sims' \in Seq(SimulationResults) /\ Len(sims) \in Nat /\ Len(sims') = Len(sims) + 1
         /\ \A i \in 1 .. Len(sims) : sims'[i] = sims[i]
         /\ sims'[Len(sims) + 1] = r
         /\ Len(sims) + 1 \in 1 .. Len(plan)
         /\ Executable' = Executable \union (IF r.status = "SUCCEEDED" THEN {plan[Len(sims) + 1]} ELSE {})
<1>1. /\ sims \in Seq(SimulationResults) /\ plan \in Seq(Actions)
      /\ Len(sims) \in Nat /\ Len(plan) \in Nat
  BY DEF StateTypes
<1> DEFINE n == Len(sims)
<1>2. /\ sims' \in Seq(SimulationResults) /\ Len(sims') = n + 1
      /\ \A i \in 1 .. n : sims'[i] = sims[i]
  BY <1>1
<1>3. sims'[n + 1] = r
  BY <1>1
<1> HIDE DEF n
<1>4. n \in Nat /\ n + 1 \in 1 .. Len(plan)
  BY <1>1 DEF n
<1>5. \A i \in 1 .. Len(plan) : Succeeded(i)' <=> Succeeded(i) \/ (i = n + 1 /\ r.status = "SUCCEEDED")
  <2>1. SUFFICES ASSUME NEW i \in 1 .. Len(plan)
                 PROVE  Succeeded(i)' <=> Succeeded(i) \/ (i = n + 1 /\ r.status = "SUCCEEDED")
    OBVIOUS
  <2>2. Succeeded(i)' <=> i <= n + 1 /\ sims'[i].status = "SUCCEEDED"
    BY <1>2 DEF Succeeded
  <2>3. Succeeded(i) <=> i <= n /\ sims[i].status = "SUCCEEDED"
    BY DEF Succeeded, n
  <2>4. CASE i <= n
    <3>1. i \in 1 .. n /\ i # n + 1
      BY <1>1, <1>4, <2>4
    <3> QED
      BY <1>2, <1>4, <2>2, <2>3, <3>1
  <2>5. CASE i = n + 1
    <3>1. sims'[i] = r
      BY <1>3, <2>5, Zenon
    <3>2. i <= n + 1 /\ ~(i <= n)
      BY <1>4, <2>5
    <3> QED
      BY <2>2, <2>3, <2>5, <3>1, <3>2, Zenon
  <2>6. CASE i > n + 1
    BY <1>1, <1>4, <2>2, <2>3, <2>6
  <2> QED
    BY <1>1, <1>4, <2>4, <2>5, <2>6
<1>6. Executable' = {plan[i] : i \in {i \in 1 .. Len(plan) : Succeeded(i)'}}
  BY DEF Executable
<1>7. Executable = {plan[i] : i \in {i \in 1 .. Len(plan) : Succeeded(i)}}
  BY DEF Executable
<1>8. Executable' = Executable \union (IF r.status = "SUCCEEDED" THEN {plan[n + 1]} ELSE {})
  BY <1>4, <1>5, <1>6, <1>7
<1> QED
  BY <1>1, <1>2, <1>3, <1>4, <1>8 DEF n

LEMMA SpentIsNatural ==
  ASSUME StateTypes
  PROVE  /\ Spent \in Nat
         /\ IsFiniteSet({i \in 1 .. Len(sims) : sims[i].gas > 0})
<1>1. Len(sims) \in Nat
  BY DEF StateTypes
<1>2. IsFiniteSet(1 .. Len(sims))
  BY <1>1, FS_Interval
<1> DEFINE G == {i \in 1 .. Len(sims) : sims[i].gas > 0}
<1>3. G \in SUBSET (1 .. Len(sims))
  OBVIOUS
<1>4. IsFiniteSet(G)
  <2> HIDE DEF G
  <2> QED
    BY <1>2, <1>3, FS_Subset
<1>5. Cardinality(G) \in Nat
  BY <1>4, FS_CardinalityType
<1> QED
  BY <1>4, <1>5 DEF Spent

\* Where gas is estimated, the actions executed are at most the estimates spent on.
LEMMA ExecutableIsPaidFor ==
  ASSUME StateTypes, SimulationsAreSound, Estimated = 1
  PROVE  IsFiniteSet(Executable) /\ Cardinality(Executable) <= Spent
<1> DEFINE G == {i \in 1 .. Len(sims) : sims[i].gas > 0}
           S == {i \in 1 .. Len(plan) : Succeeded(i)}
           f == [i \in G |-> plan[i]]
<1>1. Len(sims) \in Nat /\ Len(plan) \in Nat /\ Len(sims) <= Len(plan) /\ sims \in Seq(SimulationResults)
  BY DEF StateTypes
<1>2. ASSUME NEW i \in 1 .. Len(sims) PROVE sims[i].gas > 0 <=> sims[i].status = "SUCCEEDED"
  <2>1. sims[i] \in SimulationResults
    BY <1>1
  <2>2. sims[i].gas \in 0 .. 1
    BY <2>1 DEF SimulationResults
  <2>3. /\ sims[i].status # "SUCCEEDED" => sims[i].gas = 0
        /\ sims[i].status = "SUCCEEDED" => sims[i].gas = 1
    BY DEF SimulationsAreSound
  <2> QED
    BY <2>2, <2>3
<1>3. S = G
  BY <1>1, <1>2 DEF Succeeded
<1>4. IsFiniteSet(G) /\ Spent = Cardinality(G)
  BY SpentIsNatural DEF Spent
<1>5. Executable = {plan[i] : i \in G}
  BY <1>3 DEF Executable
<1> HIDE DEF G
<1>6. f \in Surjection(G, Executable)
  BY <1>5 DEF Surjection
<1> HIDE DEF f
<1>7. IsFiniteSet(Executable) /\ Cardinality(Executable) <= Cardinality(G)
  BY <1>4, <1>6, FS_Surjection
<1> QED
  BY <1>4, <1>7

\* What one more result has to be for the invariant to hold on.
LEMMA ResultKeeps ==
  ASSUME Inv, stage = "simulate", Len(sims) < Len(plan), NEW r \in SimulationResults,
         sims' = Append(sims, r), r.at = now,
         UNCHANGED <<facts, drained, stage, found, plan, omitted, now, permits, delegate, start>>,
         r.status # "SUCCEEDED" => r.gas = 0 /\ r.value = 0,
         r.status = "SUCCEEDED" /\ Estimated = 1 => r.gas = 1,
         r.status = "SUCCEEDED" => ~MissesDependency(plan[Len(sims) + 1]),
         r.value > 0 => /\ Len(sims) + 1 = Len(plan)
                        /\ Estimated = 1 => r.value + (1 + Spent) <= coin
  PROVE  Inv'
<1> DEFINE n == Len(sims)
           a == plan[n + 1]
<1>1. /\ StateTypes /\ ScanIsTrue /\ PlanIsOfScan /\ SimulationsAreSound
      /\ ExecutableStandsAlone /\ DelegateIsBuilt /\ PermitsAreBuilt
  BY DEF Inv
<1>2. UNCHANGED <<held, coin, settlement, caller, drained, stage, found, plan, omitted, now, permits,
                  delegate, start>>
  BY DEF facts
<1>3. /\ sims' \in Seq(SimulationResults) /\ n \in Nat /\ Len(sims') = n + 1
      /\ \A i \in 1 .. n : sims'[i] = sims[i]
      /\ sims'[n + 1] = r /\ n + 1 \in 1 .. Len(plan)
      /\ Executable' = Executable \union (IF r.status = "SUCCEEDED" THEN {a} ELSE {})
  BY <1>1, <1>2, OneMoreResult
<1>4. plan \in Seq(Actions) /\ Len(plan) \in Nat
  BY <1>1 DEF StateTypes
<1>5. Asked' = Asked /\ Adapters' = Adapters /\ Estimated' = Estimated /\ InPlan' = InPlan
  BY <1>2 DEF Asked, Adapters, Estimated, InPlan
<1> HIDE DEF n, a
<1>6. StateTypes'
  <2>1. \A i \in 1 .. n : sims[i].at <= now
    BY <1>1 DEF StateTypes, n
  <2>2. \A i \in 1 .. Len(sims') : sims'[i].at <= now
    <3>1. \A i \in 1 .. n : sims'[i].at <= now
      BY <1>3, <2>1
    <3>2. sims'[n + 1].at <= now
      <4>1. now \in Int
        BY <1>1, TimeAssumption DEF StateTypes
      <4> QED
        BY <1>3, <4>1
    <3> QED
      BY <1>3, <3>1, <3>2
  <2>3. Len(sims') <= Len(plan)
    BY <1>3, <1>4
  <2> QED
    BY <1>1, <1>2, <1>3, <1>5, <2>2, <2>3 DEF StateTypes
<1>7. ScanIsTrue' /\ PlanIsOfScan'
  BY <1>1, <1>2, <1>5 DEF ScanIsTrue, PlanIsOfScan, Planning, Complete
<1>8. SimulationsAreSound'
  <2>1. ASSUME NEW i \in 1 .. n + 1
        PROVE  /\ sims'[i].status # "SUCCEEDED" => sims'[i].gas = 0 /\ sims'[i].value = 0
               /\ sims'[i].status = "SUCCEEDED" /\ Estimated = 1 => sims'[i].gas = 1
               /\ sims'[i].value > 0 => i = Len(plan)
    <3>1. CASE i \in 1 .. n
      BY <1>1, <1>3, <3>1 DEF SimulationsAreSound, n
    <3>2. CASE i = n + 1
      BY <1>3, <3>2 DEF n
    <3> QED
      BY <1>3, <3>1, <3>2
  <2> QED
    BY <1>2, <1>3, <1>5, <2>1 DEF SimulationsAreSound
<1>9. ExecutableStandsAlone'
  <2>1. ASSUME NEW b \in Executable' PROVE DependsOn(b, InPlan) \subseteq Executable'
    <3>1. CASE b \in Executable
      BY <1>1, <1>3, <3>1 DEF ExecutableStandsAlone
    <3>2. CASE b = a /\ r.status = "SUCCEEDED"
      <4>1. DependsOn(a, {plan[i] : i \in 1 .. Len(plan)}) \subseteq Executable
        BY <3>2 DEF MissesDependency, a, n
      <4>2. DependsOn(a, InPlan) \subseteq Executable
        BY <4>1 DEF InPlan
      <4> QED
        BY <1>3, <3>2, <4>2
    <3> QED
      BY <1>3, <3>1, <3>2
  <2>2. ASSUME NEW i \in 1 .. n + 1, sims'[i].value > 0, Estimated = 1
        PROVE  sims'[i].value + Cardinality(Executable') <= coin
    <3>1. CASE i \in 1 .. n
      \* The coin goes last: there is no result after its own.
      <4>1. i = Len(plan)
        BY <1>1, <1>3, <2>2, <3>1 DEF SimulationsAreSound, n
      <4> QED
        BY <1>3, <1>4, <3>1, <4>1
    <3>2. CASE i = n + 1
      <4>1. r.value > 0 /\ r.value + (1 + Spent) <= coin
        BY <1>3, <2>2, <3>2
      <4>2. IsFiniteSet(Executable) /\ Cardinality(Executable) <= Spent /\ Spent \in Nat
        BY <1>1, <2>2, ExecutableIsPaidFor, SpentIsNatural
      <4>3. Cardinality(Executable') <= Spent + 1 /\ Cardinality(Executable') \in Nat
        <5>1. /\ IsFiniteSet(Executable \cup {a})
              /\ Cardinality(Executable \cup {a}) \in {Cardinality(Executable), Cardinality(Executable) + 1}
          BY <4>2, FS_AddElement
        <5>2. Executable' = Executable \/ Executable' = Executable \cup {a}
          BY <1>3
        <5>3. Cardinality(Executable) \in Nat
          BY <4>2, FS_CardinalityType
        <5>4. \/ Cardinality(Executable') = Cardinality(Executable)
              \/ Cardinality(Executable') = Cardinality(Executable \cup {a})
          BY <5>2, Zenon
        <5>5. Spent \in Nat /\ Cardinality(Executable) <= Spent
          BY <4>2
        <5> QED
          BY <5>1, <5>3, <5>4, <5>5
      <4>4. r.value \in Nat /\ coin \in Nat
        BY <1>1, TimeAssumption DEF StateTypes, SimulationResults
      <4> QED
        BY <1>3, <3>2, <4>1, <4>2, <4>3, <4>4
    <3> QED
      BY <1>3, <3>1, <3>2
  <2> QED
    BY <1>2, <1>3, <1>5, <2>1, <2>2 DEF ExecutableStandsAlone
<1>10. DelegateIsBuilt' /\ PermitsAreBuilt'
  BY <1>1, <1>2, NothingYet DEF DelegateIsBuilt, PermitsAreBuilt, NoPackage
<1> QED
  BY <1>6, <1>7, <1>8, <1>9, <1>10 DEF Inv

LEMMA ResultIsResult ==
  ASSUME StateTypes, NEW status \in {"SUCCEEDED", "UNSUPPORTED", "FAILED"}, NEW gas \in 0 .. 1,
         NEW value \in 0 .. MaxCoin
  PROVE  /\ Result(status, gas, value) \in SimulationResults
         /\ Result(status, gas, value).status = status /\ Result(status, gas, value).gas = gas
         /\ Result(status, gas, value).value = value /\ Result(status, gas, value).at = now
  BY DEF Result, SimulationResults, StateTypes

LEMMA SimulationFailsKeeps == ASSUME Inv, SimulationFails PROVE Inv'
<1> DEFINE r == Result("FAILED", 0, 0)
<1>1. /\ stage = "simulate" /\ Len(sims) < Len(plan) /\ sims' = Append(sims, r)
      /\ UNCHANGED <<facts, drained, stage, found, plan, omitted, now, permits, delegate, start>>
  BY DEF SimulationFails
<1>2. StateTypes /\ 0 \in 0 .. MaxCoin
  BY TimeAssumption DEF Inv
<1>3. r \in SimulationResults /\ r.status = "FAILED" /\ r.gas = 0 /\ r.value = 0 /\ r.at = now
  BY <1>2, ResultIsResult
<1> HIDE DEF r
<1> QED
  BY <1>1, <1>3, ResultKeeps

\* The native coin waits for everything else: it is the last to be simulated.
LEMMA CoinIsLast ==
  ASSUME Inv, stage = "simulate", Len(sims) < Len(plan), Kind[plan[Len(sims) + 1]] = "NATIVE",
         ~MissesDependency(plan[Len(sims) + 1])
  PROVE  Len(sims) + 1 = Len(plan)
<1> DEFINE n == Len(sims)
           a == plan[n + 1]
<1>1. StateTypes /\ ScanIsTrue /\ PlanIsOfScan
  BY DEF Inv
<1>2. n \in Nat /\ Len(plan) \in Nat /\ plan \in Seq(Actions) /\ n + 1 \in 1 .. Len(plan)
  BY <1>1 DEF StateTypes
<1>3. a \notin Outputs
  BY KindAssumption DEF Transfers
<1>4. InPlan \ {a} \subseteq Executable
  BY <1>3 DEF MissesDependency, DependsOn, InPlan
<1>5. Executable \subseteq {plan[l] : l \in 1 .. n}
  BY <1>2 DEF Executable, Succeeded
<1> HIDE DEF n, a
<1>6. SUFFICES ASSUME n + 1 # Len(plan) PROVE FALSE
  BY DEF n
<1>7. Len(plan) \in 1 .. Len(plan) /\ Len(plan) > n + 1
  BY <1>2, <1>6
<1>8. plan[Len(plan)] # a
  BY <1>1, <1>2, <1>6, <1>7, PlanIsInjective DEF a
<1>9. plan[Len(plan)] \in {plan[l] : l \in 1 .. n}
  BY <1>4, <1>5, <1>7, <1>8 DEF InPlan
<1>10. PICK l \in 1 .. n : plan[Len(plan)] = plan[l]
  BY <1>9
<1>11. l \in 1 .. Len(plan) /\ l # Len(plan)
  BY <1>2, <1>7
<1> QED
  BY <1>1, <1>7, <1>10, <1>11, PlanIsInjective

LEMMA SimulateKeeps == ASSUME Inv, Simulate PROVE Inv'
<1> DEFINE a    == plan[Len(sims) + 1]
           left == coin - (1 + Spent)
<1>1. /\ stage = "simulate" /\ Len(sims) < Len(plan)
      /\ UNCHANGED <<facts, drained, stage, found, plan, omitted, now, permits, delegate, start>>
  BY DEF Simulate
<1>2. sims' = Append(sims, CASE MissesDependency(a) -> Result("UNSUPPORTED", 0, 0)
                             [] ~MissesDependency(a) /\ Kind[a] = "NATIVE" ->
                                  IF left > 0 THEN Result("SUCCEEDED", 1, left)
                                  ELSE Result("FAILED", 0, 0)
                             [] OTHER -> Result("SUCCEEDED", Estimated, 0))
  BY DEF Simulate
<1>3. StateTypes /\ 0 \in 0 .. MaxCoin /\ coin \in 0 .. MaxCoin /\ MaxCoin \in Nat
  BY TimeAssumption DEF Inv, StateTypes
<1>4. Spent \in Nat
  BY <1>3, SpentIsNatural
<1>5. Estimated \in 0 .. 1
  BY DEF Estimated
<1>6. CASE MissesDependency(a)
  <2> DEFINE r == Result("UNSUPPORTED", 0, 0)
  <2>1. sims' = Append(sims, r)
    BY <1>2, <1>6
  <2>2. r \in SimulationResults /\ r.status = "UNSUPPORTED" /\ r.gas = 0 /\ r.value = 0 /\ r.at = now
    BY <1>3, ResultIsResult
  <2> HIDE DEF r
  <2> QED
    BY <1>1, <2>1, <2>2, ResultKeeps
<1>7. CASE ~MissesDependency(a) /\ Kind[a] = "NATIVE" /\ left > 0
  <2> DEFINE r == Result("SUCCEEDED", 1, left)
  <2>1. sims' = Append(sims, r)
    BY <1>2, <1>7
  <2>2. left \in 0 .. MaxCoin /\ left + (1 + Spent) <= coin
    BY <1>3, <1>4, <1>7
  <2>3. Len(sims) + 1 = Len(plan)
    BY <1>1, <1>7, CoinIsLast
  <2> HIDE DEF left
  <2>4. r \in SimulationResults /\ r.status = "SUCCEEDED" /\ r.gas = 1 /\ r.value = left /\ r.at = now
    BY <1>3, <2>2, ResultIsResult
  <2> HIDE DEF r
  <2> QED
    BY <1>1, <1>7, <2>1, <2>2, <2>3, <2>4, ResultKeeps
<1>8. CASE ~MissesDependency(a) /\ Kind[a] = "NATIVE" /\ ~(left > 0)
  <2> DEFINE r == Result("FAILED", 0, 0)
  <2>1. sims' = Append(sims, r)
    BY <1>2, <1>8
  <2>2. r \in SimulationResults /\ r.status = "FAILED" /\ r.gas = 0 /\ r.value = 0 /\ r.at = now
    BY <1>3, ResultIsResult
  <2> HIDE DEF r
  <2> QED
    BY <1>1, <2>1, <2>2, ResultKeeps
<1>9. CASE ~MissesDependency(a) /\ Kind[a] # "NATIVE"
  <2> DEFINE r == Result("SUCCEEDED", Estimated, 0)
  <2>1. sims' = Append(sims, r)
    BY <1>2, <1>9
  <2>2. /\ r \in SimulationResults /\ r.status = "SUCCEEDED" /\ r.gas = Estimated /\ r.value = 0
        /\ r.at = now
    BY <1>3, <1>5, ResultIsResult
  <2> HIDE DEF r
  <2> QED
    BY <1>1, <1>9, <2>1, <2>2, ResultKeeps
<1> QED
  BY <1>6, <1>7, <1>8, <1>9

-----------------------------------------------------------------------------
(* The packages.                                                           *)

\* Once all is simulated, only the packages change.
LEMMA PackagingKeeps ==
  ASSUME Inv, UNCHANGED <<facts, found, plan, omitted, sims>>, Planning,
         stage' \in {"simulate", "saved", "assemble", "permits", "done", "failed"},
         stage' # "simulate" => Len(sims) = Len(plan),
         drained' \in SUBSET Evidence, now' \in 0 .. MaxNow, now <= now', start' \in 0 .. now',
         DelegateIsBuilt', PermitsAreBuilt'
  PROVE  Inv'
<1>1. StateTypes /\ ScanIsTrue /\ PlanIsOfScan /\ SimulationsAreSound /\ ExecutableStandsAlone
  BY DEF Inv
<1>2. UNCHANGED <<held, coin, settlement, caller, found, plan, omitted, sims>>
  BY DEF facts
<1>3. Asked' = Asked /\ Adapters' = Adapters /\ Estimated' = Estimated
  BY <1>2 DEF Asked, Adapters, Estimated
<1>4. StateTypes'
  <2>1. \A i \in 1 .. Len(sims) : sims[i].at <= now'
    <3>1. SUFFICES ASSUME NEW i \in 1 .. Len(sims) PROVE sims[i].at <= now'
      OBVIOUS
    <3>2. sims[i] \in SimulationResults /\ sims[i].at <= now /\ now \in 0 .. MaxNow
      BY <1>1 DEF StateTypes
    <3>3. sims[i].at \in 0 .. MaxNow
      BY <3>2 DEF SimulationResults
    <3> QED
      BY <3>2, <3>3, TimeAssumption
  <2>2. stage' \in Stages
    BY DEF Stages
  <2> QED
    BY <1>1, <1>2, <1>3, <2>1, <2>2 DEF StateTypes
<1>5. ScanIsTrue'
  BY <1>1, <1>2 DEF ScanIsTrue, Planning
<1>6. PlanIsOfScan'
  <2>1. Planning'
    BY DEF Planning
  <2>2. plan = Sorted(Planned(found, Adapters)) /\ (~omitted => Complete(found))
    BY <1>1, Zenon DEF PlanIsOfScan
  <2>3. Complete(found)' = Complete(found) /\ Planned(found, Adapters)' = Planned(found, Adapters)
    BY <1>2, <1>3
  <2>4. plan' = Sorted(Planned(found, Adapters))'
    BY <1>2, <2>2, <2>3
  <2>5. ~omitted' => Complete(found)'
    BY <1>2, <2>2 DEF Complete
  <2> QED
    BY <2>1, <2>4, <2>5, Zenon DEF PlanIsOfScan
<1>7. SimulationsAreSound'
  BY <1>1, <1>2, <1>3 DEF SimulationsAreSound
<1>8. ExecutableStandsAlone'
  <2>1. Executable' = Executable /\ InPlan' = InPlan
    BY <1>2 DEF Executable, Succeeded, InPlan
  <2> QED
    BY <1>1, <1>2, <1>3, <2>1 DEF ExecutableStandsAlone
<1> QED
  BY <1>4, <1>5, <1>6, <1>7, <1>8 DEF Inv

\* What packages are built from does not change while they are.
LEMMA SameEligible ==
  ASSUME UNCHANGED <<plan, sims, start>>
  PROVE  /\ Eligible(start)' = Eligible(start)
         /\ DelegateExpiry(Eligible(start), start)' = DelegateExpiry(Eligible(start), start)
         /\ DelegateLasts' = DelegateLasts /\ DelegatePackage' = DelegatePackage
<1>1. Eligible(start)' = Eligible(start)
  BY DEF Eligible, Succeeded
<1>2. \A S : Earliest(S)' = Earliest(S)
  BY DEF Earliest
<1>3. DelegateExpiry(Eligible(start), start)' = DelegateExpiry(Eligible(start), start)
  BY <1>1, <1>2 DEF DelegateExpiry
<1>4. DelegateLasts' = DelegateLasts
  BY <1>1, <1>3 DEF DelegateLasts
<1>5. DelegatePackage' = DelegatePackage
  BY <1>1, <1>3 DEF DelegatePackage
<1> QED
  BY <1>1, <1>3, <1>4, <1>5

LEMMA TimesAreTimes ==
  ASSUME StateTypes
  PROVE  now \in Int /\ start \in 0 .. now /\ now \in 0 .. now /\ now <= now
  BY TimeAssumption DEF StateTypes

LEMMA SimulatedKeeps == ASSUME Inv, Simulated PROVE Inv'
<1>1. /\ StateTypes /\ DelegateIsBuilt /\ PermitsAreBuilt
      /\ stage = "simulate" /\ Len(sims) = Len(plan) /\ stage' \in {"saved", "done"}
      /\ UNCHANGED <<facts, drained, found, plan, omitted, sims, now, permits, delegate, start>>
  BY DEF Inv, Simulated
<1>2. DelegateIsBuilt' /\ PermitsAreBuilt'
  BY <1>1, NothingYet DEF DelegateIsBuilt, PermitsAreBuilt, NoPackage
<1>3. /\ Planning /\ drained' \in SUBSET Evidence /\ now' \in 0 .. MaxNow /\ now <= now'
      /\ start' \in 0 .. now'
  BY <1>1, TimesAreTimes DEF Planning, StateTypes
<1> QED
  BY <1>1, <1>2, <1>3, PackagingKeeps

LEMMA TickKeeps == ASSUME Inv, Tick PROVE Inv'
<1>1. /\ StateTypes /\ DelegateIsBuilt /\ PermitsAreBuilt /\ SimulationsAreSound
      /\ stage \in {"simulate", "saved", "assemble", "permits"} /\ now < MaxNow /\ now' = now + 1
      /\ UNCHANGED <<facts, drained, stage, found, plan, omitted, sims, permits, delegate, start>>
  BY DEF Inv, Tick
<1>2. DelegateLasts' = DelegateLasts
  BY <1>1, SameEligible
<1>3. UNCHANGED caller
  BY <1>1 DEF facts
<1>4. DelegateIsBuilt' /\ PermitsAreBuilt'
  BY <1>1, <1>2, <1>3, NothingYet DEF DelegateIsBuilt, PermitsAreBuilt, NoPackage
<1>5. now \in 0 .. MaxNow /\ start \in 0 .. now /\ MaxNow \in Nat
  BY <1>1, TimeAssumption DEF StateTypes
<1>6. now' \in 0 .. MaxNow /\ now <= now' /\ start' \in 0 .. now'
  BY <1>1, <1>5
<1>7. /\ Planning /\ drained' \in SUBSET Evidence
      /\ stage' \in {"simulate", "saved", "assemble", "permits", "done", "failed"}
      /\ stage' # "simulate" => Len(sims) = Len(plan)
  BY <1>1 DEF Planning, StateTypes, SimulationsAreSound
<1> QED
  BY <1>1, <1>4, <1>6, <1>7, PackagingKeeps

LEMMA DrainKeeps == ASSUME Inv, Drain PROVE Inv'
<1>1. /\ StateTypes /\ DelegateIsBuilt /\ PermitsAreBuilt /\ SimulationsAreSound
      /\ stage = "saved" /\ \E e \in held : drained' = {e}
      /\ UNCHANGED <<facts, stage, found, plan, omitted, sims, now, permits, delegate, start>>
  BY DEF Inv, Drain
<1>2. DelegateIsBuilt' /\ PermitsAreBuilt'
  BY <1>1, NothingYet DEF DelegateIsBuilt, PermitsAreBuilt, NoPackage
<1>3. drained' \in SUBSET Evidence
  BY <1>1 DEF StateTypes, Asked
<1>4. /\ Planning /\ now' \in 0 .. MaxNow /\ now <= now' /\ start' \in 0 .. now'
      /\ stage' = "saved" /\ Len(sims) = Len(plan)
  BY <1>1, TimesAreTimes DEF Planning, StateTypes, SimulationsAreSound
<1> QED
  BY <1>1, <1>2, <1>3, <1>4, PackagingKeeps

LEMMA PredictKeeps == ASSUME Inv, Predict PROVE Inv'
<1>1. /\ StateTypes /\ DelegateIsBuilt /\ PermitsAreBuilt /\ SimulationsAreSound
      /\ stage = "saved" /\ stage' = "assemble" /\ start' = now
      /\ Eligible(now) # {} /\ DelegateExpiry(Eligible(now), now) > now + Least
      /\ UNCHANGED <<facts, drained, found, plan, omitted, sims, now, permits, delegate>>
  BY DEF Inv, Predict
<1>2. Eligible(start)' = Eligible(now)
  BY <1>1 DEF Eligible, Succeeded
<1>3. \A S : Earliest(S)' = Earliest(S)
  BY <1>1 DEF Earliest
<1>4. DelegateExpiry(Eligible(start), start)' = DelegateExpiry(Eligible(now), now)
  BY <1>1, <1>2, <1>3 DEF DelegateExpiry
<1>5. DelegateLasts'
  BY <1>1, <1>2, <1>4 DEF DelegateLasts
<1>6. DelegateIsBuilt' /\ PermitsAreBuilt'
  BY <1>1, <1>5, NothingYet DEF DelegateIsBuilt, PermitsAreBuilt, NoPackage
<1>7. /\ Planning /\ drained' \in SUBSET Evidence /\ now' \in 0 .. MaxNow /\ now <= now'
      /\ start' \in 0 .. now' /\ Len(sims) = Len(plan)
  BY <1>1, TimesAreTimes DEF Planning, StateTypes, SimulationsAreSound
<1> QED
  BY <1>1, <1>6, <1>7, PackagingKeeps

\* The answer of preflight offers routes for what simulated well.
LEMMA AnswersAreRoutes ==
  ASSUME StateTypes, PermitsAreBuilt, stage \in {"saved", "assemble"}, AnswersWith,
         UNCHANGED <<facts, plan, sims>>,
         stage' \in {"done", "failed"}, stage' # "done" => caller # "preflight"
  PROVE  PermitsAreBuilt'
<1>1. permits = {}
  BY DEF PermitsAreBuilt
<1>2. UNCHANGED <<caller, settlement>>
  BY DEF facts
<1>3. CASE caller = "preflight"
  <2>1. PICK features \in FeatureSets : permits' = Gasless(features)
    BY <1>3 DEF AnswersWith
  <2>2. ASSUME NEW p \in permits' PROVE Route(p)'
    <3>1. PICK a \in Executable : \E s \in Offered(Kind[a], features[a], settlement) :
                 p = [id |-> a, std |-> s, of |-> features[a], expiry |-> 0]
      BY <2>1, <2>2 DEF Gasless
    <3>2. p.id = a /\ p.of = features[a] /\ p.expiry = 0
          /\ p.std \in Offered(Kind[a], features[a], settlement)
      BY <3>1
    <3>3. a \in Actions
      BY DEF Executable, StateTypes
    <3>4. features[a] \in Features
      BY <3>3, FeaturesAssumption
    <3>5. Executable' = Executable
      BY DEF Executable, Succeeded
    <3> QED
      BY <1>2, <3>2, <3>4, <3>5 DEF Route
  <2> QED
    BY <1>2, <1>3, <2>2 DEF PermitsAreBuilt
<1>4. CASE caller # "preflight"
  <2>1. permits' = {}
    BY <1>1, <1>4 DEF AnswersWith
  <2> QED
    BY <2>1 DEF PermitsAreBuilt
<1> QED
  BY <1>3, <1>4

LEMMA AssembleKeeps == ASSUME Inv, Assemble PROVE Inv'
<1>1. /\ StateTypes /\ DelegateIsBuilt /\ PermitsAreBuilt /\ SimulationsAreSound
      /\ stage = "assemble" /\ delegate' = DelegatePackage /\ AnswersWith /\ stage' = "done"
      /\ UNCHANGED <<facts, drained, found, plan, omitted, sims, now, start>>
  BY DEF Inv, Assemble, DelegatePackage, AfterDelegate
<1>2. DelegateLasts' = DelegateLasts /\ DelegatePackage' = DelegatePackage
  BY <1>1, SameEligible
<1>3. DelegateIsBuilt'
  BY <1>1, <1>2 DEF DelegateIsBuilt
<1>4. PermitsAreBuilt'
  BY <1>1, AnswersAreRoutes
<1>5. /\ Planning /\ drained' \in SUBSET Evidence /\ now' \in 0 .. MaxNow /\ now <= now'
      /\ start' \in 0 .. now' /\ Len(sims) = Len(plan)
  BY <1>1, TimesAreTimes DEF Planning, StateTypes, SimulationsAreSound
<1> QED
  BY <1>1, <1>3, <1>4, <1>5, PackagingKeeps

LEMMA NoDelegateKeeps == ASSUME Inv, NoDelegate PROVE Inv'
<1>1. /\ StateTypes /\ DelegateIsBuilt /\ PermitsAreBuilt /\ SimulationsAreSound
      /\ stage \in {"saved", "assemble"} /\ AnswersWith
      /\ stage' = IF caller = "preflight" THEN "done" ELSE "failed"
      /\ UNCHANGED <<facts, drained, found, plan, omitted, sims, now, delegate, start>>
  BY DEF Inv, NoDelegate, AfterDelegate
<1>2. stage' \in {"done", "failed"} /\ (stage' # "done" => caller # "preflight")
  BY <1>1
<1>3. DelegateIsBuilt'
  BY <1>1, <1>2, NothingYet DEF DelegateIsBuilt, NoPackage
<1>4. PermitsAreBuilt'
  BY <1>1, <1>2, AnswersAreRoutes
<1>5. /\ Planning /\ drained' \in SUBSET Evidence /\ now' \in 0 .. MaxNow /\ now <= now'
      /\ start' \in 0 .. now' /\ Len(sims) = Len(plan)
  BY <1>1, TimesAreTimes DEF Planning, StateTypes, SimulationsAreSound
<1> QED
  BY <1>1, <1>2, <1>3, <1>4, <1>5, PackagingKeeps

LEMMA BeginPermitsKeeps == ASSUME Inv, BeginPermits PROVE Inv'
<1>1. /\ StateTypes /\ DelegateIsBuilt /\ PermitsAreBuilt /\ SimulationsAreSound
      /\ stage = "saved" /\ caller = "agent" /\ stage' = "permits" /\ start' = now
      /\ UNCHANGED <<facts, drained, found, plan, omitted, sims, now, permits, delegate>>
  BY DEF Inv, BeginPermits
<1>2. UNCHANGED caller
  BY <1>1 DEF facts
<1>3. DelegateIsBuilt' /\ PermitsAreBuilt'
  BY <1>1, <1>2, NothingYet DEF DelegateIsBuilt, PermitsAreBuilt, NoPackage
<1>4. /\ Planning /\ drained' \in SUBSET Evidence /\ now' \in 0 .. MaxNow /\ now <= now'
      /\ start' \in 0 .. now' /\ Len(sims) = Len(plan)
  BY <1>1, TimesAreTimes DEF Planning, StateTypes, SimulationsAreSound
<1> QED
  BY <1>1, <1>3, <1>4, PackagingKeeps

LEMMA BuildPermitsKeeps == ASSUME Inv, BuildPermits PROVE Inv'
<1>1. /\ StateTypes /\ DelegateIsBuilt /\ PermitsAreBuilt /\ SimulationsAreSound
      /\ stage = "permits" /\ stage' = "done" /\ \A i \in Packaged : PermitExpiry(i) > start + Least
      /\ UNCHANGED <<facts, drained, found, plan, omitted, sims, now, delegate, start>>
  BY DEF Inv, BuildPermits
<1>2. PICK features \in FeatureSets :
        permits' = UNION {{[id |-> plan[i], std |-> s, of |-> features[plan[i]],
                            expiry |-> PermitExpiry(i)] :
                             s \in Taken(Kind[plan[i]], features[plan[i]], settlement)} :
                          i \in {i \in Packaged : Backed(plan[i])}}
  BY DEF BuildPermits
<1>3. caller = "agent" /\ UNCHANGED <<caller, settlement>>
  BY <1>1 DEF PermitsAreBuilt, facts
<1>4. Packaged' = Packaged
  BY <1>1, <1>3 DEF Packaged, Succeeded
<1>5. ASSUME NEW p \in permits' PROVE \E i \in Packaged' : PermitPackage(p, i)'
  <2>1. PICK i \in {i \in Packaged : Backed(plan[i])} :
          \E s \in Taken(Kind[plan[i]], features[plan[i]], settlement) :
             p = [id |-> plan[i], std |-> s, of |-> features[plan[i]], expiry |-> PermitExpiry(i)]
    BY <1>2, <1>5
  <2>2. /\ p.id = plan[i] /\ p.of = features[plan[i]] /\ p.expiry = PermitExpiry(i)
        /\ p.std \in Taken(Kind[plan[i]], features[plan[i]], settlement)
    BY <2>1
  <2>3. plan[i] \in Actions
    BY <1>1 DEF StateTypes, Packaged
  <2>4. features[plan[i]] \in Features
    BY <2>3, FeaturesAssumption
  <2>5. PermitExpiry(i)' = PermitExpiry(i)
    BY <1>1 DEF PermitExpiry
  <2>6. Backed(plan[i])'
    BY <1>1, <2>1 DEF Backed
  <2>7. PermitPackage(p, i)'
    BY <1>1, <1>3, <2>1, <2>2, <2>4, <2>5, <2>6 DEF PermitPackage
  <2> QED
    BY <1>4, <2>1, <2>7
<1>6. PermitsAreBuilt'
  BY <1>1, <1>3, <1>5 DEF PermitsAreBuilt
<1>7. DelegateIsBuilt'
  BY <1>1, NothingYet DEF DelegateIsBuilt, NoPackage
<1>8. /\ Planning /\ drained' \in SUBSET Evidence /\ now' \in 0 .. MaxNow /\ now <= now'
      /\ start' \in 0 .. now' /\ Len(sims) = Len(plan)
  BY <1>1, TimesAreTimes DEF Planning, StateTypes, SimulationsAreSound
<1> QED
  BY <1>1, <1>6, <1>7, <1>8, PackagingKeeps

LEMMA NoPermitsKeeps == ASSUME Inv, NoPermits PROVE Inv'
<1>1. /\ StateTypes /\ DelegateIsBuilt /\ PermitsAreBuilt /\ SimulationsAreSound
      /\ stage = "permits" /\ stage' = "failed"
      /\ UNCHANGED <<facts, drained, found, plan, omitted, sims, now, permits, delegate, start>>
  BY DEF Inv, NoPermits
<1>2. DelegateIsBuilt' /\ PermitsAreBuilt'
  BY <1>1, NothingYet DEF DelegateIsBuilt, PermitsAreBuilt, NoPackage
<1>3. /\ Planning /\ drained' \in SUBSET Evidence /\ now' \in 0 .. MaxNow /\ now <= now'
      /\ start' \in 0 .. now' /\ Len(sims) = Len(plan)
  BY <1>1, TimesAreTimes DEF Planning, StateTypes, SimulationsAreSound
<1> QED
  BY <1>1, <1>2, <1>3, PackagingKeeps

\* A step that changes nothing.
LEMMA StutterKeeps == ASSUME Inv, UNCHANGED vars PROVE Inv'
<1>1. UNCHANGED <<held, coin, settlement, caller, drained, stage, found, plan, omitted, sims, now,
                  permits, delegate, start>>
  BY DEF vars, facts
<1>2. Asked' = Asked /\ Adapters' = Adapters /\ Estimated' = Estimated
      /\ Executable' = Executable /\ InPlan' = InPlan /\ Planning' = Planning /\ Packaged' = Packaged
  BY <1>1 DEF Asked, Adapters, Estimated, Executable, Succeeded, InPlan, Planning, Packaged
<1>3. DelegateLasts' = DelegateLasts /\ DelegatePackage' = DelegatePackage
  BY <1>1, SameEligible
<1>4. /\ StateTypes /\ ScanIsTrue /\ PlanIsOfScan /\ SimulationsAreSound
      /\ ExecutableStandsAlone /\ DelegateIsBuilt /\ PermitsAreBuilt
  BY DEF Inv
<1>5. StateTypes' /\ ScanIsTrue' /\ SimulationsAreSound'
  BY <1>1, <1>2, <1>4 DEF StateTypes, ScanIsTrue, SimulationsAreSound
<1>6. ExecutableStandsAlone'
  BY <1>1, <1>2, <1>4 DEF ExecutableStandsAlone
<1>7. PlanIsOfScan'
  BY <1>1, <1>2, <1>4 DEF PlanIsOfScan, Complete
<1>8. DelegateIsBuilt'
  BY <1>1, <1>3, <1>4 DEF DelegateIsBuilt, NoPackage
<1>9. PermitsAreBuilt'
  <2>1. \A i : PermitExpiry(i)' = PermitExpiry(i)
    BY <1>1 DEF PermitExpiry
  <2>2. \A p, i : PermitPackage(p, i)' <=> PermitPackage(p, i)
    BY <1>1, <2>1 DEF PermitPackage, Backed
  <2>3. \A p : Route(p)' <=> Route(p)
    BY <1>1, <1>2 DEF Route
  <2> QED
    BY <1>1, <1>2, <1>4, <2>2, <2>3 DEF PermitsAreBuilt
<1> QED
  BY <1>5, <1>6, <1>7, <1>8, <1>9 DEF Inv

\* The invariant holds on, whatever is done.
THEOREM Invariance == Spec => []Inv
<1>1. Init => Inv
  BY InitIsGood
<1>2. Inv /\ [Next]_vars => Inv'
  <2> SUFFICES ASSUME Inv, [Next]_vars PROVE Inv'
    OBVIOUS
  <2>1. CASE Scan
    BY <2>1, ScanKeeps
  <2>2. CASE Plan
    BY <2>2, PlanKeeps
  <2>3. CASE Simulate
    BY <2>3, SimulateKeeps
  <2>4. CASE SimulationFails
    BY <2>4, SimulationFailsKeeps
  <2>5. CASE Simulated
    BY <2>5, SimulatedKeeps
  <2>6. CASE Tick
    BY <2>6, TickKeeps
  <2>7. CASE Drain
    BY <2>7, DrainKeeps
  <2>8. CASE Predict
    BY <2>8, PredictKeeps
  <2>9. CASE Assemble
    BY <2>9, AssembleKeeps
  <2>10. CASE NoDelegate
    BY <2>10, NoDelegateKeeps
  <2>11. CASE BeginPermits
    BY <2>11, BeginPermitsKeeps
  <2>12. CASE BuildPermits
    BY <2>12, BuildPermitsKeeps
  <2>13. CASE NoPermits
    BY <2>13, NoPermitsKeeps
  <2>14. CASE UNCHANGED vars
    BY <2>14, StutterKeeps
  <2> QED
    BY <2>1, <2>2, <2>3, <2>4, <2>5, <2>6, <2>7, <2>8, <2>9, <2>10, <2>11, <2>12, <2>13, <2>14 DEF Next
<1> QED
  BY <1>1, <1>2, PTL DEF Spec

-----------------------------------------------------------------------------
(* The properties.                                                         *)

LEMMA PlanLeavesNothing == ASSUME Inv PROVE NothingIsForgotten
<1>1. StateTypes /\ ScanIsTrue /\ PlanIsOfScan
  BY DEF Inv
<1>2. SUFFICES ASSUME Planning
               PROVE  /\ ~omitted => held \subseteq InPlan
                      /\ InPlan \intersect Evidence \subseteq held
  BY DEF NothingIsForgotten
<1>3. InPlan = Planned(found, Adapters)
  BY <1>1, <1>2, PlanIsSorted
<1>4. \A e \in Evidence : /\ found[e] = "DETECTED" => e \in held
                          /\ e \in held => found[e] \in {"UNKNOWN", "DETECTED"}
  BY <1>1, <1>2 DEF ScanIsTrue, Planning
<1>5. ASSUME ~omitted PROVE held \subseteq InPlan
  <2>1. \A e \in Evidence : found[e] # "UNKNOWN"
    BY <1>1, <1>2, <1>5 DEF PlanIsOfScan, Complete
  <2>2. held \subseteq Evidence
    BY <1>1 DEF StateTypes, Asked
  <2> QED
    BY <1>3, <1>4, <2>1, <2>2 DEF Planned
<1>6. InPlan \intersect Evidence \subseteq held
  <2>1. Adapters \subseteq Candidates /\ Evidence \intersect (Candidates \union Outputs) = {}
    BY EvidenceAssumption DEF Adapters
  <2> QED
    BY <1>3, <1>4, <2>1 DEF Planned
<1> QED
  BY <1>5, <1>6

LEMMA PlanIsInOrder == ASSUME Inv PROVE PlanIsOrdered
<1>1. StateTypes /\ ScanIsTrue /\ PlanIsOfScan
  BY DEF Inv
<1>2. CASE Planning
  BY <1>1, <1>2, PlanIsSorted DEF Ordered, PlanIsOrdered
<1>3. CASE ~Planning
  BY <1>3 DEF PlanIsOrdered
<1> QED
  BY <1>2, <1>3

\* The least of two numbers, and of the ends of the simulations.
LEMMA LeastOfTwo ==
  ASSUME NEW x \in Int, NEW y \in Int
  PROVE  MinOf({x, y}) \in {x, y} /\ MinOf({x, y}) <= x /\ MinOf({x, y}) <= y
<1>1. \E z \in {x, y} : \A w \in {x, y} : z <= w
  <2>1. CASE x <= y
    BY <2>1
  <2>2. CASE y <= x
    BY <2>2
  <2> QED
    BY <2>1, <2>2
<1>2. MinOf({x, y}) \in {x, y} /\ \A w \in {x, y} : MinOf({x, y}) <= w
  BY <1>1, Zenon DEF MinOf
<1> QED
  BY <1>2

LEMMA EarliestIsLeast ==
  ASSUME StateTypes, NEW S \in SUBSET (1 .. Len(sims)), S # {}
  PROVE  Earliest(S) \in Nat /\ \A i \in S : Earliest(S) <= sims[i].at + Ttl
<1> DEFINE T == {sims[i].at + Ttl : i \in S}
<1>1. \A i \in S : sims[i].at + Ttl \in Nat
  <2>1. SUFFICES ASSUME NEW i \in S PROVE sims[i].at + Ttl \in Nat
    OBVIOUS
  <2>2. sims[i] \in SimulationResults
    BY DEF StateTypes
  <2> QED
    BY <2>2, TimeAssumption DEF SimulationResults
<1>2. T \in SUBSET Nat /\ T # {}
  BY <1>1
<1>3. \E m \in T : \A n \in T : m <= n
  <2> HIDE DEF T
  <2> QED
    BY <1>2, LeastNatural
<1>4. MinOf(T) \in T /\ \A n \in T : MinOf(T) <= n
  BY <1>3, Zenon DEF MinOf
<1> QED
  BY <1>2, <1>4 DEF Earliest

LEMMA EligibleLasts ==
  ASSUME StateTypes, DelegateLasts
  PROVE  /\ DelegateExpiry(Eligible(start), start) \in Int
         /\ \A i \in Eligible(start) :
              sims[i].at + Ttl >= DelegateExpiry(Eligible(start), start) + Margin
<1> DEFINE S == Eligible(start)
           x == DelegateExpiry(S, start)
<1>1. S \in SUBSET (1 .. Len(sims)) /\ S # {}
  <2>1. Len(sims) \in Nat /\ Len(plan) \in Nat
    BY DEF StateTypes
  <2>2. \A i \in S : i \in 1 .. Len(plan) /\ i <= Len(sims)
    BY DEF Eligible, Succeeded
  <2> QED
    BY <2>1, <2>2 DEF DelegateLasts
<1>2. Earliest(S) \in Nat /\ \A i \in S : Earliest(S) <= sims[i].at + Ttl
  <2> HIDE DEF S
  <2> QED
    BY <1>1, EarliestIsLeast
<1>3. start + CapDelegate \in Int /\ Earliest(S) - Margin \in Int /\ Margin \in Nat
  BY <1>2, TimesAreTimes, TimeAssumption
<1>4. x \in Int /\ x <= Earliest(S) - Margin
  <2> HIDE DEF S
  <2> DEFINE y == start + CapDelegate
             z == Earliest(S) - Margin
  <2>1. y \in Int /\ z \in Int /\ x = MinOf({y, z})
    BY <1>3 DEF DelegateExpiry
  <2> HIDE DEF y, z, x
  <2>2. x \in Int /\ x <= z
    BY <2>1, LeastOfTwo
  <2> QED
    BY <2>2 DEF x, z
<1>5. ASSUME NEW i \in S PROVE sims[i].at + Ttl >= x + Margin
  <2>1. Earliest(S) <= sims[i].at + Ttl
    BY <1>2
  <2>2. sims[i].at + Ttl \in Int
    <3>1. sims[i] \in SimulationResults
      BY <1>1 DEF StateTypes
    <3> QED
      BY <3>1, TimeAssumption DEF SimulationResults
  <2> HIDE DEF S, x
  <2> QED
    BY <1>2, <1>3, <1>4, <2>1, <2>2
<1> QED
  BY <1>4, <1>5

LEMMA DelegateTakesAll == ASSUME Inv PROVE DelegateIsWhole
<1> DEFINE all == {i \in 1 .. Len(plan) : Succeeded(i) /\ Kind[plan[i]] # "ADAPTER"}
           x   == DelegateExpiry(Eligible(start), start)
<1>1. StateTypes /\ DelegateIsBuilt
  BY DEF Inv
<1>2. SUFFICES ASSUME delegate.ids # {}, \A i, j \in all : sims[j].at <= sims[i].at + Margin + Least
               PROVE  delegate.ids = {plan[i] : i \in all}
  BY DEF DelegateIsWhole
<1>3. delegate = DelegatePackage /\ DelegateLasts
  BY <1>1, <1>2 DEF DelegateIsBuilt, NoPackage
<1>4. x \in Int /\ x > start + Least /\ \A i \in Eligible(start) : sims[i].at + Ttl >= x + Margin
  BY <1>1, <1>3, EligibleLasts DEF DelegateLasts
<1>5. PICK i \in Eligible(start) : TRUE
  BY <1>3 DEF DelegateLasts
<1>6. Eligible(start) \subseteq all
  BY DEF Eligible
<1>7. ASSUME NEW j \in all PROVE j \in Eligible(start)
  <2>1. sims[i].at <= sims[j].at + Margin + Least
    BY <1>2, <1>5, <1>6
  <2>2. sims[i].at \in Int /\ sims[j].at \in Int
    <3>1. \A k \in all : k \in 1 .. Len(sims)
      BY <1>1 DEF Succeeded, StateTypes
    <3>2. sims[i] \in SimulationResults /\ sims[j] \in SimulationResults
      BY <1>1, <1>5, <1>6, <3>1 DEF StateTypes
    <3> QED
      BY <3>2 DEF SimulationResults
  <2>3. sims[i].at + Ttl >= x + Margin
    BY <1>4
  <2>4. start \in Int
    BY <1>1, TimesAreTimes
  <2>5. sims[j].at + Ttl > start
    <3> DEFINE ai == sims[i].at
               aj == sims[j].at
    <3>1. ai \in Int /\ aj \in Int /\ ai <= aj + Margin + Least /\ ai + Ttl >= x + Margin
      BY <2>1, <2>2, <2>3
    <3>2. Ttl \in Int /\ Margin \in Int /\ Least \in Int
      BY TimeAssumption
    <3>3. x \in Int /\ x > start + Least
      BY <1>4
    <3> HIDE DEF ai, aj, x
    <3>4. aj + Ttl > start
      BY <2>4, <3>1, <3>2, <3>3
    <3> QED
      BY <3>4 DEF aj
  <2> QED
    BY <2>5 DEF Eligible
<1>8. Eligible(start) = all
  BY <1>6, <1>7
<1> HIDE DEF all
<1> QED
  BY <1>3, <1>8 DEF DelegatePackage

LEMMA ResultsAreInTime ==
  ASSUME StateTypes, NEW i \in 1 .. Len(sims)
  PROVE  sims[i].at \in Int
<1>1. sims \in Seq(SimulationResults)
  BY DEF StateTypes
<1>2. sims[i] \in SimulationResults
  BY <1>1
<1> QED
  BY <1>2, TimeAssumption DEF SimulationResults

LEMMA PermitExpiryIsLeast ==
  ASSUME StateTypes, NEW i \in 1 .. Len(sims)
  PROVE  /\ PermitExpiry(i) \in Int /\ PermitExpiry(i) <= start + CapPermit
         /\ PermitExpiry(i) <= sims[i].at + Ttl - Margin
<1> DEFINE y == start + CapPermit
           z == sims[i].at + Ttl - Margin
<1>1. sims[i].at \in Int /\ start \in Int
  BY ResultsAreInTime, TimesAreTimes
<1>2. y \in Int /\ z \in Int /\ PermitExpiry(i) = MinOf({y, z})
  BY <1>1, TimeAssumption DEF PermitExpiry
<1> HIDE DEF y, z
<1>3. PermitExpiry(i) \in Int /\ PermitExpiry(i) <= y /\ PermitExpiry(i) <= z
  BY <1>2, LeastOfTwo
<1> QED
  BY <1>3 DEF y, z

LEMMA PackagesLast == ASSUME Inv PROVE PackagesHold
<1> DEFINE during(ids, expiry) ==
             /\ expiry > start + Least
             /\ \A i \in 1 .. Len(plan) : plan[i] \in ids => /\ Succeeded(i)
                                                             /\ sims[i].at + Ttl >= expiry + Margin
<1>1. StateTypes /\ ScanIsTrue /\ PlanIsOfScan /\ DelegateIsBuilt /\ PermitsAreBuilt
  BY DEF Inv
<1>2. Len(sims) \in Nat /\ Len(plan) \in Nat /\ sims \in Seq(SimulationResults)
  BY <1>1 DEF StateTypes
<1>3. ASSUME delegate.ids # {} PROVE during(delegate.ids, delegate.expiry)
  <2> DEFINE x == DelegateExpiry(Eligible(start), start)
  <2>1. delegate = DelegatePackage /\ DelegateLasts
    BY <1>1, <1>3 DEF DelegateIsBuilt, NoPackage
  <2>2. delegate.ids = {plan[i] : i \in Eligible(start)} /\ delegate.expiry = x
    BY <2>1 DEF DelegatePackage
  <2>3. x > start + Least /\ \A i \in Eligible(start) : sims[i].at + Ttl >= x + Margin
    BY <1>1, <2>1, EligibleLasts DEF DelegateLasts
  <2>4. ASSUME NEW i \in 1 .. Len(plan), plan[i] \in delegate.ids
        PROVE  Succeeded(i) /\ sims[i].at + Ttl >= x + Margin
    <3>1. PICK j \in Eligible(start) : plan[i] = plan[j]
      BY <2>2, <2>4
    <3>2. j \in 1 .. Len(plan) /\ Succeeded(j)
      BY DEF Eligible
    <3>3. i = j
      BY <1>1, <3>1, <3>2, PlanIsInjective
    <3> QED
      BY <2>3, <3>2, <3>3
  <2> QED
    BY <2>2, <2>3, <2>4
<1>4. ASSUME caller = "agent", NEW p \in permits
      PROVE  during({p.id}, p.expiry) /\ p.id \in held \ drained
  <2>1. PICK i \in Packaged : PermitPackage(p, i)
    BY <1>1, <1>4 DEF PermitsAreBuilt
  <2>2. /\ p.id = plan[i] /\ p.expiry = PermitExpiry(i) /\ PermitExpiry(i) > start + Least
        /\ plan[i] \notin drained
    BY <2>1 DEF PermitPackage, Backed
  <2>3. i \in 1 .. Len(plan) /\ Succeeded(i) /\ i \in 1 .. Len(sims)
    BY <1>2 DEF Packaged, Succeeded
  <2>4. sims[i].at + Ttl >= PermitExpiry(i) + Margin
    <3> DEFINE at == sims[i].at
    <3>1. at \in Int /\ Ttl \in Int /\ Margin \in Int
      BY <1>1, <2>3, ResultsAreInTime, TimeAssumption
    <3>2. PermitExpiry(i) \in Int /\ PermitExpiry(i) <= at + Ttl - Margin
      BY <1>1, <2>3, PermitExpiryIsLeast
    <3> HIDE DEF at
    <3>3. at + Ttl >= PermitExpiry(i) + Margin
      BY <3>1, <3>2
    <3> QED
      BY <3>3 DEF at
  <2>5. ASSUME NEW j \in 1 .. Len(plan), plan[j] \in {p.id} PROVE j = i
    BY <1>1, <2>2, <2>3, <2>5, PlanIsInjective
  <2>6. during({p.id}, p.expiry)
    BY <2>2, <2>3, <2>4, <2>5
  <2>7. p.id \in held
    <3>1. Planning
      <4>1. Len(plan) # 0
        BY <1>2, <2>3
      <4>2. plan # <<>>
        BY <4>1
      <4> QED
        BY <1>1, <4>2 DEF PlanIsOfScan
    <3>2. plan[i] \in InPlan /\ InPlan = Planned(found, Adapters)
      BY <1>1, <2>3, <3>1, PlanIsSorted DEF InPlan
    <3>3. Adapters = {}
      BY <1>4 DEF Adapters
    <3>4. plan[i] \in Evidence /\ found[plan[i]] = "DETECTED"
      BY <3>2, <3>3 DEF Planned
    <3> QED
      BY <1>1, <2>2, <3>1, <3>4 DEF ScanIsTrue, Planning
  <2> QED
    BY <2>2, <2>6, <2>7
<1> QED
  BY <1>3, <1>4 DEF PackagesHold

\* What the builder takes is among what the route lists, whatever the contract is.
LEMMA TakenIsOffered ==
  ASSUME NEW kind, NEW f \in Features, NEW settled \in BOOLEAN
  PROVE  Taken(kind, f, settled) \subseteq Offered(kind, f, settled)
<1>1. CASE kind = "ERC20"
  <2>1. TakesToken(f, settled) \subseteq
          {s \in Standards : \/ s = "ERC3009" /\ HasERC3009(f)
                             \/ s = "ERC2612" /\ settled /\ HasERC2612(f)
                             \/ s = "DAI"     /\ settled /\ HasDai(f)}
    <3>1. CASE HasERC3009(f)
      BY <3>1 DEF TakesToken, Standards
    <3>2. CASE ~HasERC3009(f) /\ ~settled
      BY <3>2 DEF TakesToken
    <3>3. CASE ~HasERC3009(f) /\ settled
      BY <3>3 DEF TakesToken, Standards, HasERC2612, HasDai
    <3> QED
      BY <3>1, <3>2, <3>3
  <2> QED
    BY <1>1, <2>1 DEF Taken, Offered
<1>2. CASE kind = "ERC721" /\ settled
  BY <1>2 DEF Taken, Offered, TakesNft, Standards, HasERC4494
<1>3. CASE kind # "ERC20" /\ ~(kind = "ERC721" /\ settled)
  BY <1>3 DEF Taken
<1> QED
  BY <1>1, <1>2, <1>3

LEMMA PackagesAreOffered == ASSUME Inv PROVE PackagedIsOffered
<1>1. SUFFICES ASSUME caller = "agent", NEW p \in permits
               PROVE  p.std \in Offered(Kind[p.id], p.of, settlement)
  BY DEF PackagedIsOffered
<1>2. PICK i \in Packaged : PermitPackage(p, i)
  BY <1>1 DEF Inv, PermitsAreBuilt
<1>3. /\ p.id = plan[i] /\ p.of \in Features
      /\ p.std \in Taken(Kind[plan[i]], p.of, settlement)
  BY <1>2 DEF PermitPackage
<1>4. settlement \in BOOLEAN
  BY DEF Inv, StateTypes
<1> QED
  BY <1>3, <1>4, TakenIsOffered

LEMMA AnswersPass == ASSUME Inv PROVE AnswersAreAccepted
<1>1. StateTypes /\ SimulationsAreSound /\ DelegateIsBuilt /\ PermitsAreBuilt
  BY DEF Inv
<1>2. SUFFICES ASSUME caller = "preflight", stage = "done" PROVE Accepted(InPlan \ Recoverable)
  BY DEF AnswersAreAccepted
<1>3. Len(sims) = Len(plan)
  BY <1>1, <1>2 DEF SimulationsAreSound
<1>4. \A p \in permits : Route(p)
  BY <1>1, <1>2 DEF PermitsAreBuilt
<1>5. ASSUME NEW a \in delegate.ids PROVE a \in Executable /\ Kind[a] # "ADAPTER"
  <2>1. delegate.ids = {plan[i] : i \in Eligible(start)}
    BY <1>1, <1>5 DEF DelegateIsBuilt, NoPackage, DelegatePackage
  <2>2. PICK i \in Eligible(start) : a = plan[i]
    BY <1>5, <2>1
  <2> QED
    BY <2>2 DEF Eligible, Executable
<1>6. ASSUME NEW p \in permits
      PROVE  /\ p.id \in Executable /\ (p.std # "ERC3009" => settlement)
             /\ p.std = "ERC4494" <=> Kind[p.id] = "ERC721"
  <2>1. p.id \in Executable /\ p.std \in Offered(Kind[p.id], p.of, settlement)
    BY <1>4 DEF Route
  <2>2. CASE Kind[p.id] = "ERC20"
    BY <2>1, <2>2 DEF Offered
  <2>3. CASE Kind[p.id] = "ERC721"
    BY <2>1, <2>3 DEF Offered
  <2>4. CASE Kind[p.id] \notin {"ERC20", "ERC721"}
    BY <2>1, <2>4 DEF Offered
  <2> QED
    BY <2>1, <2>2, <2>3, <2>4
<1>7. Executable \subseteq InPlan
  BY DEF Executable, InPlan
<1> DEFINE routed == {r.id : r \in permits} \union delegate.ids
<1>8. routed \subseteq Executable
  BY <1>5, <1>6
<1>9. Recoverable = routed
  BY DEF Recoverable
<1> HIDE DEF routed
<1>10. InPlan \ Recoverable \subseteq InPlan \ routed /\ InPlan \subseteq routed \union (InPlan \ Recoverable)
  BY <1>9
<1> QED
  BY <1>3, <1>5, <1>6, <1>8, <1>10 DEF Accepted, routed

LEMMA TypesAreRight == ASSUME Inv PROVE TypeOK
<1>1. StateTypes /\ ScanIsTrue /\ PlanIsOfScan /\ SimulationsAreSound /\ DelegateIsBuilt /\ PermitsAreBuilt
  BY DEF Inv
<1>2. /\ held \subseteq Evidence /\ drained \subseteq Evidence /\ coin \in 0 .. MaxCoin
      /\ settlement \in BOOLEAN /\ caller \in {"agent", "preflight", "package"}
      /\ stage \in Stages /\ now \in 0 .. MaxNow /\ start \in 0 .. now
      /\ found \in [Evidence -> Findings] /\ omitted \in BOOLEAN
      /\ plan \in Seq(Actions) /\ sims \in Seq(SimulationResults) /\ Len(sims) <= Len(plan)
      /\ \A i \in 1 .. Len(sims) : sims[i].at <= now
      /\ Len(plan) \in Nat /\ Len(sims) \in Nat
  BY <1>1 DEF StateTypes, Asked
<1>3. ASSUME NEW i \in 1 .. Len(plan) PROVE plan[i] \in Actions \ {e \in Evidence : found[e] # "DETECTED"}
  <2>1. plan[i] \in Actions
    BY <1>2
  <2>2. Planning
    <3>1. Len(plan) # 0
      BY <1>2
    <3>2. plan # <<>>
      BY <3>1
    <3> QED
      BY <1>1, <3>2 DEF PlanIsOfScan
  <2>3. plan[i] \in InPlan /\ InPlan = Planned(found, Adapters)
    BY <1>1, <2>2, PlanIsSorted DEF InPlan
  <2>4. Adapters \subseteq Candidates /\ Evidence \intersect (Candidates \union Outputs) = {}
    BY EvidenceAssumption DEF Adapters
  <2> QED
    BY <2>1, <2>3, <2>4 DEF Planned
<1>4. ASSUME NEW i \in 1 .. Len(sims)
      PROVE  /\ sims[i].status \in {"SUCCEEDED", "UNSUPPORTED", "FAILED"}
             /\ sims[i].at <= now /\ sims[i].gas \in 0 .. 1 /\ sims[i].value \in 0 .. MaxCoin
             /\ sims[i].status # "SUCCEEDED" => sims[i].gas = 0 /\ sims[i].value = 0
  <2>1. sims[i] \in SimulationResults
    BY <1>2
  <2> QED
    BY <1>1, <1>2, <2>1 DEF SimulationResults, SimulationsAreSound
<1>5. /\ now \in Int /\ MaxNow \in Nat /\ Least \in Nat /\ CapPermit \in Nat /\ CapDelegate \in Nat
      /\ Margin \in Nat /\ Ttl \in Nat /\ start \in Nat /\ start <= MaxNow
  BY <1>2, TimeAssumption
<1>6. ASSUME NEW p \in permits
      PROVE  /\ p.id \in {plan[i] : i \in 1 .. Len(plan)}
             /\ p.std \in Standards /\ p.of \in Features /\ p.expiry \in 0 .. MaxNow + CapPermit
  <2>1. CASE Route(p)
    <3>1. p.id \in Executable /\ p.expiry = 0 /\ p.of \in Features
          /\ p.std \in Offered(Kind[p.id], p.of, settlement)
      BY <2>1 DEF Route
    <3>2. p.std \in Standards
      BY <3>1 DEF Offered
    <3>3. p.id \in {plan[i] : i \in 1 .. Len(plan)}
      BY <3>1 DEF Executable
    <3>4. p.expiry \in 0 .. MaxNow + CapPermit
      BY <1>5, <3>1
    <3> QED
      BY <3>1, <3>2, <3>3, <3>4
  <2>2. CASE \E i \in Packaged : PermitPackage(p, i)
    <3>1. PICK i \in Packaged : PermitPackage(p, i)
      BY <2>2
    <3>2. /\ p.id = plan[i] /\ p.expiry = PermitExpiry(i) /\ PermitExpiry(i) > start + Least
          /\ p.of \in Features /\ p.std \in Taken(Kind[plan[i]], p.of, settlement)
      BY <3>1 DEF PermitPackage
    <3>3. i \in 1 .. Len(plan) /\ i \in 1 .. Len(sims)
      BY <1>2 DEF Packaged, Succeeded
    <3>4. p.std \in Standards
      <4>1. p.std \in Offered(Kind[plan[i]], p.of, settlement)
        BY <1>2, <3>2, TakenIsOffered
      <4> QED
        BY <4>1 DEF Offered
    <3>5. PermitExpiry(i) \in Int /\ PermitExpiry(i) <= start + CapPermit
      BY <1>1, <3>3, PermitExpiryIsLeast
    <3>6. p.expiry \in 0 .. MaxNow + CapPermit
      BY <1>5, <3>2, <3>5
    <3> QED
      BY <3>2, <3>3, <3>4, <3>6
  <2> QED
    BY <1>1, <2>1, <2>2 DEF PermitsAreBuilt
<1>7. /\ delegate.ids \subseteq {plan[i] : i \in 1 .. Len(plan)}
      /\ delegate.expiry \in 0 .. MaxNow + CapDelegate
  <2>1. CASE delegate = NoPackage
    BY <1>5, <2>1 DEF NoPackage
  <2>2. CASE delegate = DelegatePackage /\ DelegateLasts
    <3> DEFINE S == Eligible(start)
               x == DelegateExpiry(S, start)
               y == start + CapDelegate
               z == Earliest(S) - Margin
    <3>1. delegate.ids = {plan[i] : i \in S} /\ delegate.expiry = x /\ x > start + Least /\ S # {}
      BY <2>2 DEF DelegatePackage, DelegateLasts
    <3>2. S \subseteq 1 .. Len(plan) /\ S \in SUBSET (1 .. Len(sims))
      BY <1>2 DEF Eligible, Succeeded
    <3> HIDE DEF S
    <3>3. Earliest(S) \in Nat
      BY <1>1, <3>1, <3>2, EarliestIsLeast
    <3>4. y \in Int /\ z \in Int /\ x = MinOf({y, z})
      BY <1>5, <3>3 DEF DelegateExpiry
    <3> HIDE DEF x, y, z
    <3>5. x \in Int /\ x <= y
      BY <3>4, LeastOfTwo
    <3>6. delegate.expiry \in 0 .. MaxNow + CapDelegate
      BY <1>5, <3>1, <3>5 DEF y
    <3> QED
      BY <3>1, <3>2, <3>6
  <2> QED
    BY <1>1, <2>1, <2>2 DEF DelegateIsBuilt
<1> QED
  BY <1>2, <1>3, <1>4, <1>6, <1>7 DEF TypeOK, Findings

-----------------------------------------------------------------------------
(* The theorems.                                                           *)

\* Every variable of the scan, the plan, the simulation and the packages keeps its
\* type, whatever reads fail, and an action found absent is in no plan.
THEOREM TypeCorrect == Spec => []TypeOK
  BY Invariance, TypesAreRight, PTL

\* DeterministicRescuePlanner: a plan that claims to be READY leaves nothing behind
\* that was asked about and held, and no plan moves what the scan did not see.
THEOREM PlanForgetsNothing == Spec => []NothingIsForgotten
  BY Invariance, PlanLeavesNothing, PTL

\* topologicalPrioritySort: every plan that the pipeline holds has each action once,
\* after its dependencies, and before a neighbour of less priority.
THEOREM PlanKeepsOrder == Spec => []PlanIsOrdered
  BY Invariance, PlanIsInOrder, PTL

\* simulateRescuePlan: what simulated well can be carried out without the rest, and
\* the coin that moves leaves the gas of all of it.
THEOREM SimulatedStandsAlone == Spec => []ExecutableStandsAlone
<1>1. Inv => ExecutableStandsAlone
  BY DEF Inv
<1> QED
  BY <1>1, Invariance, PTL

\* eligibleActions and packageExpiry, with the clock running between them: a delegate
\* package is never short of an action for having just expired.
THEOREM DelegateTakesTheWhole == Spec => []DelegateIsWhole
  BY Invariance, DelegateTakesAll, PTL

\* The expiry of both builders: packages end before the simulations they rest on,
\* last the least time, and a permit is for a balance that was there.
THEOREM PackagesLastLongEnough == Spec => []PackagesHold
  BY Invariance, PackagesLast, PTL

\* LivePermitSigningPackageBuilder and the preflight route, two pieces of code that
\* probe the same contract, agree on what it supports.
THEOREM BuildersAgree == Spec => []PackagedIsOffered
  BY Invariance, PackagesAreOffered, PTL

\* mainnetPreflightResponseSchema: every answer of the preflight route passes the
\* schema that both ends parse, whatever failed on the way.
THEOREM PreflightAnswersPass == Spec => []AnswersAreAccepted
  BY Invariance, AnswersPass, PTL
=============================================================================
