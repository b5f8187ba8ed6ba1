---------------------------- MODULE NaturalsOrder ---------------------------
(***************************************************************************)
(* Every non-empty set of natural numbers has a least element, and every   *)
(* bounded one a greatest: what the code's scans for the first or the      *)
(* newest entry rely on.  The argument is that the intervals 0 .. n are    *)
(* finite sets, and strict inclusion of finite sets is well founded.       *)
(* Induction and definitions by recursion follow, as facts about sets and  *)
(* functions, which every prover can use.                                  *)
(***************************************************************************)
EXTENDS Integers, FiniteSetTheorems, WellFoundedInduction, TLAPS

LEMMA LeastNatural ==
  ASSUME NEW S, S \subseteq Nat, S # {}
  PROVE  \E m \in S : \A n \in S : m <= n
<1> DEFINE Intervals == {0 .. n : n \in S}
<1>1. Intervals \subseteq FiniteSubsetsOf(Nat) /\ Intervals # {}
  <2>1. \A n \in Nat : 0 .. n \in FiniteSubsetsOf(Nat)
    BY FS_Interval DEF FiniteSubsetsOf
  <2>2. QED
    BY <2>1
<1>2. IsWellFoundedOn(StrictSubsetOrdering(Nat), FiniteSubsetsOf(Nat))
  BY FS_StrictSubsetOrderingWellFounded
<1>3. PICK least \in Intervals :
        \A other \in Intervals : ~ (<<other, least>> \in StrictSubsetOrdering(Nat))
  <2> HIDE DEF Intervals
  <2>1. QED
    BY <1>1, <1>2, WFMin
<1>4. PICK m \in S : least = 0 .. m
  BY <1>3
<1>5. ASSUME NEW n \in S, n < m
      PROVE  FALSE
  <2>1. 0 .. n \in SUBSET Nat /\ 0 .. m \in SUBSET Nat
    BY <1>5
  <2>2. 0 .. n \subseteq 0 .. m /\ m \in 0 .. m /\ m \notin 0 .. n
    BY <1>5
  <2>3. <<0 .. n, 0 .. m>> \in StrictSubsetOrdering(Nat)
    BY <2>1, <2>2 DEF StrictSubsetOrdering
  <2>4. QED
    BY <2>3, <1>3, <1>4
<1>6. QED
  BY <1>5

LEMMA GreatestNatural ==
  ASSUME NEW S, NEW b \in Nat, S \subseteq 0 .. b, S # {}
  PROVE  \E m \in S : \A n \in S : n <= m
<1> DEFINE T == {b - n : n \in S}
<1>1. T \subseteq Nat /\ T # {}
  <2>1. \A n \in S : b - n \in Nat
    OBVIOUS
  <2>2. QED
    BY <2>1
<1>2. PICK k \in T : \A n \in T : k <= n
  <2> HIDE DEF T
  <2>1. QED
    BY <1>1, LeastNatural
<1>3. PICK m \in S : k = b - m
  BY <1>2
<1>4. \A n \in S : n <= m
  <2>1. ASSUME NEW n \in S
        PROVE  n <= m
    <3>1. b - m <= b - n
      BY <1>2, <1>3
    <3>2. QED
      BY <3>1
  <2>2. QED
    BY <2>1
<1>5. QED
  BY <1>4

(* Induction up to a number. *)
LEMMA UpwardInduction ==
  ASSUME NEW N \in Nat, NEW G, 0 \in G, \A n \in 0 .. N - 1 : n \in G => n + 1 \in G
  PROVE  \A n \in 0 .. N : n \in G
<1> DEFINE Bad == {n \in 0 .. N : n \notin G}
<1>1. SUFFICES ASSUME Bad # {} PROVE FALSE
  OBVIOUS
<1>2. PICK m \in Bad : \A n \in Bad : m <= n
  <2>1. Bad \subseteq Nat
    OBVIOUS
  <2> HIDE DEF Bad
  <2>2. QED
    BY <1>1, <2>1, LeastNatural
<1>3. m \in 1 .. N
  <2>1. m \in 0 .. N /\ m # 0
    OBVIOUS
  <2>2. QED
    BY <2>1
<1>4. m - 1 \in 0 .. N - 1 /\ ~ (m <= m - 1)
  BY <1>3
<1>5. m - 1 \in G
  <2>1. m - 1 \notin Bad
    BY <1>2, <1>4
  <2>2. QED
    BY <1>4, <2>1
<1>6. (m - 1) + 1 \in G /\ (m - 1) + 1 = m
  BY <1>3, <1>4, <1>5
<1>7. QED
  BY <1>6

(* A function defined by recursion along a rank exists: what FlattenSeq    *)
(* and the folds, which choose it, are about.                              *)
RecursiveOn(D, V, rank, base, prev, step) ==
  \A d \in D :
    /\ rank[d] = 0 => base[d] \in V
    /\ rank[d] # 0 => /\ prev[d] \in D
                      /\ rank[prev[d]] < rank[d]
                      /\ \A v \in V : step[d][v] \in V

ObeysRecursion(g, D, rank, base, prev, step) ==
  \A d \in D : g[d] = IF rank[d] = 0 THEN base[d] ELSE step[d][g[prev[d]]]

LEMMA RankedRecursion ==
  ASSUME NEW D, NEW V, NEW N \in Nat, NEW rank \in [D -> 0 .. N],
         NEW base, NEW prev, NEW step, RecursiveOn(D, V, rank, base, prev, step)
  PROVE  \E g \in [D -> V] : ObeysRecursion(g, D, rank, base, prev, step)
<1>0. /\ \A d \in D : rank[d] = 0 => base[d] \in V
      /\ \A d \in D : rank[d] # 0 => prev[d] \in D /\ rank[prev[d]] < rank[d]
      /\ \A d \in D : rank[d] # 0 => \A v \in V : step[d][v] \in V
  BY DEF RecursiveOn
<1> DEFINE Level(n) == {d \in D : rank[d] <= n}
           Solves(g, n) == \A d \in Level(n) :
             g[d] = IF rank[d] = 0 THEN base[d] ELSE step[d][g[prev[d]]]
           G == {n \in 0 .. N : \E g \in [Level(n) -> V] : Solves(g, n)}
<1>1. 0 \in G
  <2>1. \A d \in Level(0) : rank[d] = 0
    OBVIOUS
  <2> DEFINE g == [d \in Level(0) |-> base[d]]
  <2>2. g \in [Level(0) -> V] /\ Solves(g, 0)
    BY <2>1, <1>0
  <2> HIDE DEF g, Level, Solves
  <2>3. \E h \in [Level(0) -> V] : Solves(h, 0)
    BY ONLY <2>2
  <2>4. QED
    BY <2>3
<1>2. ASSUME NEW n \in 0 .. N - 1, n \in G
      PROVE  n + 1 \in G
  <2>1. PICK h \in [Level(n) -> V] : Solves(h, n)
    BY <1>2
  <2>2. n + 1 \in 0 .. N /\ n \in 0 .. N /\ n \in Nat
    BY <1>2
  <2> DEFINE g == [d \in Level(n + 1) |-> IF rank[d] <= n THEN h[d] ELSE step[d][h[prev[d]]]]
  <2>3. \A d \in Level(n + 1) : rank[d] <= n => d \in Level(n)
    OBVIOUS
  <2>4. \A d \in Level(n + 1) : rank[d] # 0 => prev[d] \in Level(n)
    BY <2>2, <1>0
  <2>5. \A d \in Level(n) : d \in Level(n + 1) /\ g[d] = h[d]
    BY <2>2
  <2>6. \A d \in Level(n + 1) : ~ (rank[d] <= n) => rank[d] # 0
    BY <2>2
  <2>7. g \in [Level(n + 1) -> V]
    <3>1. ASSUME NEW d \in Level(n + 1)
          PROVE  (IF rank[d] <= n THEN h[d] ELSE step[d][h[prev[d]]]) \in V
      <4>1. CASE rank[d] <= n
        BY <4>1, <2>1, <2>3
      <4>2. CASE ~ (rank[d] <= n)
        <5>1. rank[d] # 0 /\ prev[d] \in Level(n)
          BY <4>2, <2>4, <2>6
        <5>2. h[prev[d]] \in V
          BY <5>1, <2>1
        <5>3. QED
          BY <4>2, <5>1, <5>2, <1>0
      <4>3. QED
        BY <4>1, <4>2
    <3>2. QED
      BY <3>1
  <2>8. Solves(g, n + 1)
    <3> SUFFICES ASSUME NEW d \in Level(n + 1)
                 PROVE  g[d] = IF rank[d] = 0 THEN base[d] ELSE step[d][g[prev[d]]]
      OBVIOUS
    <3>1. CASE rank[d] <= n
      <4>1. d \in Level(n) /\ g[d] = h[d]
        BY <3>1, <2>3, <2>5
      <4>2. h[d] = IF rank[d] = 0 THEN base[d] ELSE step[d][h[prev[d]]]
        BY <4>1, <2>1
      <4>3. rank[d] # 0 => g[prev[d]] = h[prev[d]]
        BY <2>4, <2>5
      <4> HIDE DEF g
      <4>4. QED
        BY <4>1, <4>2, <4>3
    <3>2. CASE ~ (rank[d] <= n)
      <4>1. rank[d] # 0 /\ g[prev[d]] = h[prev[d]]
        BY <3>2, <2>4, <2>5, <2>6
      <4>2. QED
        BY <3>2, <4>1
    <3>3. QED
      BY <3>1, <3>2
  <2> HIDE DEF g, Level, Solves
  <2>9. \E f \in [Level(n + 1) -> V] : Solves(f, n + 1)
    BY ONLY <2>7, <2>8
  <2>10. QED
    BY <2>2, <2>9
<1>3. N \in G
  <2> HIDE DEF G
  <2>1. \A n \in 0 .. N : n \in G
    BY <1>1, <1>2, UpwardInduction
  <2>2. QED
    BY <2>1
<1>4. PICK g \in [Level(N) -> V] : Solves(g, N)
  BY <1>3
<1>5. Level(N) = D
  OBVIOUS
<1>6. QED
  BY <1>4, <1>5 DEF ObeysRecursion
=============================================================================
