--------------------------- MODULE WireStream_proofs ---------------------------
(***************************************************************************)
(* What a sender and a receiver of packets keep, for every width of bytes  *)
(* and integers, every value a body may hold and any buffer: the sizes of  *)
(* the buffers in which sections are made in place, the agreement of the   *)
(* three varint readers on any bits, sessions that only advance, that a    *)
(* section made in place is the one that is made of a body, and that a     *)
(* body reads back as it was written or is found too short.                *)
(*                                                                         *)
(* The module goes from arithmetic (division, powers of two, sums of       *)
(* groups of bits) over folds and sequences to bits, varints, values,      *)
(* packets and sections, and then to the inductive invariants, IInv,       *)
(* InPlace and Readable, and the steps.  Folds are recursions on positions *)
(* or on sets of positions, which RankedRecursion makes available; what    *)
(* they compute is found by induction on a prefix (UpwardInduction).       *)
(***************************************************************************)
EXTENDS WireStream, NaturalsOrder, SequenceTheorems

-----------------------------------------------------------------------------
(* Arithmetic. *)

LEMMA Division ==
  ASSUME NEW x \in Int, NEW b \in Nat \ {0}
  PROVE  /\ x \div b \in Int
         /\ x % b \in 0 .. b - 1
         /\ x = b * (x \div b) + (x % b)
<1>1. x \div b \in Int
  OBVIOUS
<1>2. x % b \in 0 .. b - 1
  OBVIOUS
<1>3. ASSUME NEW c \in Int, c > 0, NEW q \in Int, q = x \div c, NEW r \in Int, r = x % c
      PROVE  x = c * q + r
  BY ONLY x \in Int, <1>3
<1>4. b \in Int /\ b > 0 /\ x % b \in Int
  BY <1>2
<1>5. QED
  BY <1>1, <1>2, <1>3, <1>4

LEMMA DivisionIs ==
  ASSUME NEW q \in Int, NEW b \in Nat \ {0}, NEW r \in 0 .. b - 1
  PROVE  (b * q + r) \div b = q /\ (b * q + r) % b = r
<1>1. (b * q + r) \div b = q
  OBVIOUS
<1>2. (b * q + r) % b = r
  OBVIOUS
<1>3. QED
  BY <1>1, <1>2

LEMMA ProductGrows ==
  ASSUME NEW b \in Nat, NEW m \in Int, NEW n \in Int, m <= n
  PROVE  b * m <= b * n /\ b * m \in Int /\ b * n \in Int
  OBVIOUS

LEMMA ProductNat ==
  ASSUME NEW b \in Nat, NEW m \in Nat
  PROVE  b * m \in Nat
  OBVIOUS

LEMMA Widths ==
  /\ ByteBits \in Nat /\ ByteBits >= 2
  /\ GroupBits \in Nat /\ GroupBits >= 1 /\ ByteBits = GroupBits + 1
  /\ {U16Bytes, U32Bytes, U64Bytes, VarintBytes} \subseteq Nat \ {0}
  /\ U32Bits \in Nat /\ U64Bits \in Nat
  /\ ByteBits <= U32Bits /\ U32Bits <= U64Bits
  /\ GroupBits * (VarintBytes - 1) \in Nat /\ GroupBits * VarintBytes \in Nat
  /\ GroupBits * (VarintBytes - 1) < U32Bits /\ U32Bits <= GroupBits * VarintBytes
<1>1. /\ ByteBits \in Nat /\ ByteBits >= 2
      /\ GroupBits \in Nat /\ GroupBits >= 1 /\ ByteBits = GroupBits + 1
      /\ {U16Bytes, U32Bytes, U64Bytes, VarintBytes} \subseteq Nat \ {0}
  BY WidthAssumption DEF GroupBits
<1>2. U32Bytes <= U64Bytes /\ 1 <= U32Bytes
  <2>1. {U16Bytes, U32Bytes} \subseteq 1 .. U64Bytes
    BY WidthAssumption
  <2>2. U32Bytes \in 1 .. U64Bytes
    BY ONLY <2>1
  <2>3. QED
    BY <1>1, <2>2
<1>3. U32Bits = ByteBits * U32Bytes /\ U64Bits = ByteBits * U64Bytes
  BY DEF U32Bits, U64Bits
<1>4. U32Bits \in Nat /\ U64Bits \in Nat
  BY <1>1, <1>3, ProductNat
<1>5. U32Bits <= U64Bits
  BY <1>1, <1>2, <1>3, ProductGrows
<1>6. ByteBits * 1 <= U32Bits
  BY <1>1, <1>2, <1>3, ProductGrows
<1>7. /\ U32Bits >= (VarintBytes - 1) * GroupBits + 1
      /\ U32Bits <= VarintBytes * GroupBits
  BY <1>1, WidthAssumption
<1>8. /\ (VarintBytes - 1) * GroupBits = GroupBits * (VarintBytes - 1)
      /\ VarintBytes * GroupBits = GroupBits * VarintBytes
  BY <1>1
<1>9. GroupBits * (VarintBytes - 1) \in Nat /\ GroupBits * VarintBytes \in Nat
  BY <1>1, ProductNat
<1>10. QED
  BY <1>1, <1>4, <1>5, <1>6, <1>7, <1>8, <1>9

(* The exponents there are. *)
Exponents == 0 .. U64Bits + VarintBytes * GroupBits

LEMMA Powers ==
  /\ Exponents \subseteq Nat
  /\ 0 .. U64Bits \subseteq Exponents
  /\ 0 .. GroupBits * VarintBytes \subseteq Exponents
  /\ \A n \in Exponents : 2 ^ n \in Nat \ {0}
  /\ \A n \in Exponents : \A m \in 0 .. n :
       m \in Exponents /\ n - m \in Exponents /\ 2 ^ n = 2 ^ m * 2 ^ (n - m)
<1>1. VarintBytes * GroupBits = GroupBits * VarintBytes
  BY Widths
<1>2. Exponents \subseteq Nat
  BY Widths, <1>1 DEF Exponents
<1>3. 0 .. U64Bits \subseteq Exponents /\ 0 .. GroupBits * VarintBytes \subseteq Exponents
  BY Widths, <1>1 DEF Exponents
<1>4. \A n \in Exponents : \A m \in 0 .. n : m \in Exponents /\ n - m \in Exponents
  BY Widths, <1>1 DEF Exponents
<1>5. /\ \A n \in Exponents : 2 ^ n \in Nat \ {0}
      /\ \A n \in Exponents : \A m \in 0 .. n : 2 ^ n = 2 ^ m * 2 ^ (n - m)
  BY PowersOfTwo DEF Exponents
<1>6. QED
  BY <1>2, <1>3, <1>4, <1>5

LEMMA SmallerExponent ==
  ASSUME NEW b \in Nat, NEW n \in Nat, NEW k \in 0 .. n, b * n \in Exponents
  PROVE  b * k \in Exponents /\ b * k \in Nat /\ b * k <= b * n
<1>1. b * k <= b * n /\ b * k \in Nat
  BY ProductGrows, ProductNat
<1>2. b * k \in 0 .. b * n
  BY <1>1
<1>3. QED
  BY <1>1, <1>2, Powers

(* The shifts of bytes and of groups are exponents. *)
LEMMA Shifts ==
  /\ \A k \in 0 .. U64Bytes : ByteBits * k \in Exponents
  /\ \A k \in 0 .. VarintBytes : GroupBits * k \in Exponents
  /\ ByteBits \in Exponents /\ GroupBits \in Exponents
<1>1. ByteBits \in Nat /\ GroupBits \in Nat /\ U64Bytes \in Nat /\ VarintBytes \in Nat
  BY Widths
<1>2. ByteBits * U64Bytes \in Exponents
  BY Widths, Powers DEF U64Bits
<1>3. GroupBits * VarintBytes \in Exponents
  BY Widths, Powers
<1>4. ByteBits \in Exponents
  BY Widths, Powers
<1>5. GroupBits \in 0 .. ByteBits
  BY Widths
<1>6. GroupBits \in Exponents
  BY <1>4, <1>5, Powers
<1>7. QED
  BY <1>1, <1>2, <1>3, <1>4, <1>6, SmallerExponent

LEMMA PowersGrow ==
  ASSUME NEW n \in Exponents, NEW m \in 0 .. n
  PROVE  2 ^ m <= 2 ^ n
<1>1. 2 ^ n = 2 ^ m * 2 ^ (n - m) /\ 2 ^ m \in Nat /\ 2 ^ (n - m) \in Nat /\ 2 ^ (n - m) >= 1
  BY Powers
<1>2. 2 ^ m * 1 <= 2 ^ m * 2 ^ (n - m)
  BY <1>1, ProductGrows
<1>3. QED
  BY <1>1, <1>2

LEMMA PowerNext ==
  ASSUME NEW n \in Exponents, n # 0
  PROVE  2 ^ n = 2 * 2 ^ (n - 1) /\ n - 1 \in Exponents
<1>1. n \in Nat /\ 1 \in 0 .. n
  BY Powers
<1>2. 2 ^ n = 2 ^ 1 * 2 ^ (n - 1) /\ n - 1 \in Exponents
  BY <1>1, Powers
<1>3. 2 ^ 1 = 2
  OBVIOUS
<1>4. QED
  BY <1>2, <1>3

-----------------------------------------------------------------------------
(* Folds: a fold is a function on the sets of positions, of which the      *)
(* initial ones matter.                                                    *)

FoldsOver(N, V, base, pick, step) ==
  /\ base \in V
  /\ \A s \in SUBSET (1 .. N) : s # {} => pick[s] \in s
  /\ \A i \in 1 .. N : \A v \in V : step[i][v] \in V

IsFold(g, N, base, pick, step) ==
  \A s \in SUBSET (1 .. N) : g[s] = IF s = {} THEN base ELSE step[pick[s]][g[s \ {pick[s]}]]

LEMMA SubsetRecursion ==
  ASSUME NEW N \in Nat, NEW V, NEW base, NEW pick, NEW step, FoldsOver(N, V, base, pick, step)
  PROVE  \E g \in [SUBSET (1 .. N) -> V] : IsFold(g, N, base, pick, step)
<1>0. /\ base \in V
      /\ \A s \in SUBSET (1 .. N) : s # {} => pick[s] \in s
      /\ \A i \in 1 .. N : \A v \in V : step[i][v] \in V
  BY DEF FoldsOver
<1> DEFINE D == SUBSET (1 .. N)
           rank == [s \in D |-> Cardinality(s)]
           first == [s \in D |-> base]
           prev == [s \in D |-> s \ {pick[s]}]
           next == [s \in D |-> step[pick[s]]]
<1>1. \A s \in D : IsFiniteSet(s) /\ Cardinality(s) \in 0 .. N /\ (Cardinality(s) = 0 <=> s = {})
  <2> SUFFICES ASSUME NEW s \in D
               PROVE  IsFiniteSet(s) /\ Cardinality(s) \in 0 .. N /\ (Cardinality(s) = 0 <=> s = {})
    OBVIOUS
  <2>1. IsFiniteSet(1 .. N) /\ Cardinality(1 .. N) = N
    <3>1. IsFiniteSet(1 .. N) /\ Cardinality(1 .. N) = IF 1 > N THEN 0 ELSE N - 1 + 1
      BY FS_Interval
    <3>2. CASE N = 0
      BY <3>1, <3>2
    <3>3. CASE N # 0
      <4>1. ~ (1 > N) /\ N - 1 + 1 = N
        BY <3>3
      <4>2. QED
        BY <3>1, <4>1
    <3>4. QED
      BY <3>2, <3>3
  <2>2. IsFiniteSet(s) /\ Cardinality(s) <= N
    <3>1. IsFiniteSet(s) /\ Cardinality(s) <= Cardinality(1 .. N)
      BY <2>1, FS_Subset
    <3>2. QED
      BY ONLY <2>1, <3>1
  <2>3. Cardinality(s) \in Nat /\ (Cardinality(s) = 0 <=> s = {})
    BY <2>2, FS_CardinalityType, FS_EmptySet
  <2>4. QED
    BY <2>2, <2>3
<1>2. rank \in [D -> 0 .. N]
  BY <1>1
<1>3. ASSUME NEW s \in D, rank[s] # 0
      PROVE  prev[s] \in D /\ rank[prev[s]] < rank[s] /\ s # {} /\ pick[s] \in 1 .. N
  <2>1. s # {} /\ pick[s] \in s /\ prev[s] = s \ {pick[s]} /\ prev[s] \in D
    BY <1>0, <1>1, <1>3
  <2>2. Cardinality(s \ {pick[s]}) = Cardinality(s) - 1
    BY <1>1, <2>1, FS_RemoveElement
  <2>3. Cardinality(s) \in Nat
    BY <1>1
  <2>4. rank[prev[s]] = Cardinality(s) - 1 /\ rank[s] = Cardinality(s)
    BY <2>1, <2>2
  <2>5. rank[prev[s]] < rank[s]
    BY ONLY <2>3, <2>4
  <2>6. QED
    BY <2>1, <2>5
<1>4. RecursiveOn(D, V, rank, first, prev, next)
  <2>1. \A s \in D : rank[s] # 0 => \A v \in V : next[s][v] \in V
    BY <1>0, <1>3
  <2>2. \A s \in D : first[s] \in V
    BY <1>0
  <2> HIDE DEF rank, first, prev, next, D
  <2>3. QED
    BY <1>3, <2>1, <2>2 DEF RecursiveOn
<1>5. PICK g \in [D -> V] : ObeysRecursion(g, D, rank, first, prev, next)
  <2> HIDE DEF rank, first, prev, next, D
  <2>1. QED
    BY <1>2, <1>4, RankedRecursion
<1>6. \A s \in D : g[s] = IF s = {} THEN base ELSE step[pick[s]][g[s \ {pick[s]}]]
  BY <1>1, <1>5 DEF ObeysRecursion
<1>7. QED
  BY <1>6 DEF IsFold

LEMMA InitialPositions ==
  ASSUME NEW N \in Nat, NEW n \in 0 .. N
  PROVE  /\ 1 .. n \in SUBSET (1 .. N)
         /\ 1 .. n = {} <=> n = 0
         /\ n # 0 => Max(1 .. n) = n /\ (1 .. n) \ {n} = 1 .. n - 1
<1>1. 1 .. n \in SUBSET (1 .. N) /\ (1 .. n = {} <=> n = 0)
  OBVIOUS
<1>2. ASSUME n # 0
      PROVE  Max(1 .. n) = n
  <2>1. n \in 1 .. n /\ \A y \in 1 .. n : n >= y
    BY <1>2
  <2>2. \A x \in 1 .. n : (\A y \in 1 .. n : x >= y) => x = n
    BY <2>1
  <2>3. QED
    BY <2>1, <2>2 DEF Max
<1>3. n # 0 => (1 .. n) \ {n} = 1 .. n - 1
  OBVIOUS
<1>4. QED
  BY <1>1, <1>2, <1>3

LEMMA MaxIn ==
  ASSUME NEW N \in Nat, NEW s \in SUBSET (1 .. N), s # {}
  PROVE  Max(s) \in s
<1>1. PICK m \in s : \A n \in s : n <= m
  <2>1. s \subseteq 0 .. N
    OBVIOUS
  <2>2. QED
    BY <2>1, GreatestNatural
<1>2. \A y \in s : m >= y
  BY <1>1
<1>3. QED
  BY <1>2 DEF Max

LEMMA NumberIs ==
  ASSUME NEW bits \in Seq(Int)
  PROVE  \E h \in [0 .. Len(bits) -> Int] :
           /\ h[0] = 0
           /\ \A n \in 1 .. Len(bits) : h[n] = 2 * h[n - 1] + bits[n]
           /\ Number(bits) = h[Len(bits)]
<1> DEFINE N == Len(bits)
           D == SUBSET (1 .. N)
           pick == [s \in D |-> Max(s)]
           step == [i \in 1 .. N |-> [v \in Int |-> 2 * v + bits[i]]]
           Body(g) == [s \in D |-> IF s = {} THEN 0 ELSE LET x == Max(s) IN 2 * g[s \ {x}] + bits[x]]
           iter == CHOOSE g : g = Body(g)
<1>1. N \in Nat /\ DOMAIN bits = 1 .. N /\ \A i \in 1 .. N : bits[i] \in Int
  OBVIOUS
<1>2. Number(bits) = iter[1 .. N]
  BY <1>1 DEF Number, FoldLeft, MapThenFoldSet
<1>3. \A s \in D : s # {} => pick[s] \in s /\ pick[s] \in 1 .. N
  BY <1>1, MaxIn
<1>4. FoldsOver(N, Int, 0, pick, step)
  <2>1. \A i \in 1 .. N : \A v \in Int : step[i][v] \in Int
    BY <1>1
  <2> HIDE DEF pick, step
  <2>2. QED
    BY <1>3, <2>1 DEF FoldsOver
<1>5. PICK g \in [D -> Int] : \A s \in D : g[s] = IF s = {} THEN 0 ELSE step[pick[s]][g[s \ {pick[s]}]]
  <2>1. PICK g \in [D -> Int] : IsFold(g, N, 0, pick, step)
    <3> HIDE DEF pick, step
    <3>1. QED
      BY <1>1, <1>4, SubsetRecursion
  <2>2. QED
    BY <2>1 DEF IsFold
<1>6. g = Body(g)
  <2>1. ASSUME NEW s \in D, s # {}
        PROVE  g[s] = 2 * g[s \ {Max(s)}] + bits[Max(s)]
    <3>1. Max(s) \in 1 .. N /\ g[s \ {Max(s)}] \in Int
      BY <1>3, <1>5, <2>1
    <3>2. QED
      BY <1>5, <2>1, <3>1
  <2>2. QED
    BY <1>5, <2>1
<1>7. iter = Body(iter)
  BY <1>6
<1> HIDE DEF iter
<1> DEFINE h == [n \in 0 .. N |-> iter[1 .. n]]
<1>8. h[0] = 0
  BY <1>1, <1>7, InitialPositions
<1>9. \A n \in 1 .. N : h[n] = 2 * h[n - 1] + bits[n]
  <2> SUFFICES ASSUME NEW n \in 1 .. N
               PROVE  iter[1 .. n] = 2 * iter[1 .. n - 1] + bits[n]
    BY <1>1
  <2>0. n \in 0 .. N /\ n # 0
    BY <1>1
  <2>1. 1 .. n \in D /\ 1 .. n # {} /\ Max(1 .. n) = n /\ (1 .. n) \ {n} = 1 .. n - 1
    BY <1>1, <2>0, InitialPositions
  <2>2. QED
    BY <1>7, <2>1
<1>10. \A n \in 0 .. N : h[n] \in Int
  <2> DEFINE G == {n \in 0 .. N : h[n] \in Int}
  <2>1. 0 \in G
    BY <1>1, <1>8
  <2> HIDE DEF h
  <2>2. ASSUME NEW n \in 0 .. N - 1, n \in G
        PROVE  n + 1 \in G
    <3>1. n + 1 \in 1 .. N /\ (n + 1) - 1 = n /\ h[n] \in Int
      BY <1>1, <2>2
    <3>2. QED
      BY <1>1, <1>9, <3>1
  <2> HIDE DEF G
  <2>3. \A n \in 0 .. N : n \in G
    BY <1>1, <2>1, <2>2, UpwardInduction
  <2>4. QED
    BY <2>3 DEF G
<1>11. h \in [0 .. N -> Int] /\ Number(bits) = h[N]
  BY <1>1, <1>2, <1>10
<1> HIDE DEF h
<1>12. QED
  BY <1>8, <1>9, <1>11

LEMMA TotalIs ==
  ASSUME NEW numbers \in Seq(Int)
  PROVE  \E h \in [0 .. Len(numbers) -> Int] :
           /\ h[0] = 0
           /\ \A n \in 1 .. Len(numbers) : h[n] = h[n - 1] + numbers[n]
           /\ Total(numbers) = h[Len(numbers)]
<1> DEFINE N == Len(numbers)
           D == SUBSET (1 .. N)
           pick == [s \in D |-> Max(s)]
           step == [i \in 1 .. N |-> [v \in Int |-> v + numbers[i]]]
           Body(g) == [s \in D |-> IF s = {} THEN 0 ELSE LET x == Max(s) IN g[s \ {x}] + numbers[x]]
           iter == CHOOSE g : g = Body(g)
<1>1. N \in Nat /\ DOMAIN numbers = 1 .. N /\ \A i \in 1 .. N : numbers[i] \in Int
  OBVIOUS
<1>2. Total(numbers) = iter[1 .. N]
  BY <1>1 DEF Total, FoldLeft, MapThenFoldSet
<1>3. \A s \in D : s # {} => pick[s] \in s /\ pick[s] \in 1 .. N
  BY <1>1, MaxIn
<1>4. FoldsOver(N, Int, 0, pick, step)
  <2>1. \A i \in 1 .. N : \A v \in Int : step[i][v] \in Int
    BY <1>1
  <2> HIDE DEF pick, step
  <2>2. QED
    BY <1>3, <2>1 DEF FoldsOver
<1>5. PICK g \in [D -> Int] : \A s \in D : g[s] = IF s = {} THEN 0 ELSE step[pick[s]][g[s \ {pick[s]}]]
  <2>1. PICK g \in [D -> Int] : IsFold(g, N, 0, pick, step)
    <3> HIDE DEF pick, step
    <3>1. QED
      BY <1>1, <1>4, SubsetRecursion
  <2>2. QED
    BY <2>1 DEF IsFold
<1>6. g = Body(g)
  <2>1. ASSUME NEW s \in D, s # {}
        PROVE  g[s] = g[s \ {Max(s)}] + numbers[Max(s)]
    <3>1. Max(s) \in 1 .. N /\ g[s \ {Max(s)}] \in Int
      BY <1>3, <1>5, <2>1
    <3>2. QED
      BY <1>5, <2>1, <3>1
  <2>2. QED
    BY <1>5, <2>1
<1>7. iter = Body(iter)
  BY <1>6
<1> HIDE DEF iter
<1> DEFINE h == [n \in 0 .. N |-> iter[1 .. n]]
<1>8. h[0] = 0
  BY <1>1, <1>7, InitialPositions
<1>9. \A n \in 1 .. N : h[n] = h[n - 1] + numbers[n]
  <2> SUFFICES ASSUME NEW n \in 1 .. N
               PROVE  iter[1 .. n] = iter[1 .. n - 1] + numbers[n]
    BY <1>1
  <2>0. n \in 0 .. N /\ n # 0
    BY <1>1
  <2>1. 1 .. n \in D /\ 1 .. n # {} /\ Max(1 .. n) = n /\ (1 .. n) \ {n} = 1 .. n - 1
    BY <1>1, <2>0, InitialPositions
  <2>2. QED
    BY <1>7, <2>1
<1>10. \A n \in 0 .. N : h[n] \in Int
  <2> DEFINE G == {n \in 0 .. N : h[n] \in Int}
  <2>1. 0 \in G
    BY <1>1, <1>8
  <2> HIDE DEF h
  <2>2. ASSUME NEW n \in 0 .. N - 1, n \in G
        PROVE  n + 1 \in G
    <3>1. n + 1 \in 1 .. N /\ (n + 1) - 1 = n /\ h[n] \in Int
      BY <1>1, <2>2
    <3>2. QED
      BY <1>1, <1>9, <3>1
  <2> HIDE DEF G
  <2>3. \A n \in 0 .. N : n \in G
    BY <1>1, <2>1, <2>2, UpwardInduction
  <2>4. QED
    BY <2>3 DEF G
<1>11. h \in [0 .. N -> Int] /\ Total(numbers) = h[N]
  BY <1>1, <1>2, <1>10
<1> HIDE DEF h
<1>12. QED
  BY <1>8, <1>9, <1>11

(* to little-endian bytes and back: the bytes from the last to the first. *)
LEMMA FinalPositions ==
  ASSUME NEW N \in Nat, NEW k \in 1 .. N
  PROVE  /\ N - k + 1 .. N \in SUBSET (1 .. N) /\ N - k + 1 .. N # {}
         /\ Min(N - k + 1 .. N) = N - k + 1
         /\ (N - k + 1 .. N) \ {N - k + 1} = N - (k - 1) + 1 .. N
<1> DEFINE m == N - k + 1
           s == m .. N
<1>1. m \in 1 .. N /\ m \in s /\ \A y \in s : m <= y
  OBVIOUS
<1>2. \A x \in s : (\A y \in s : x <= y) => x = m
  BY <1>1
<1>3. Min(s) = m
  <2> HIDE DEF m
  <2>1. QED
    BY <1>1, <1>2 DEF Min
<1>4. s \ {m} = N - (k - 1) + 1 .. N
  OBVIOUS
<1>5. QED
  BY <1>1, <1>3, <1>4

LEMMA MinIn ==
  ASSUME NEW N \in Nat, NEW s \in SUBSET (1 .. N), s # {}
  PROVE  Min(s) \in s
<1>1. PICK m \in s : \A n \in s : m <= n
  <2>1. s \subseteq Nat
    OBVIOUS
  <2>2. QED
    BY <2>1, LeastNatural
<1>2. QED
  BY <1>1 DEF Min

LEMMA FromLittleEndianIs ==
  ASSUME NEW bits, Bytes(bits) \in Nat, ByteBits \in Exponents,
         \A n \in 0 .. Bytes(bits) - 1 : ByteAt(bits, n) \in Int
  PROVE  \E h \in [0 .. Bytes(bits) -> Int] :
           /\ h[0] = 0
           /\ \A k \in 1 .. Bytes(bits) : h[k] = ByteAt(bits, Bytes(bits) - k) + 2 ^ ByteBits * h[k - 1]
           /\ FromLittleEndian(bits) = h[Bytes(bits)]
<1> DEFINE N == Bytes(bits)
           W == 2 ^ ByteBits
           at == [i \in 1 .. N |-> i - 1]
           byte == [i \in 1 .. N |-> ByteAt(bits, i - 1)]
           D == SUBSET (1 .. N)
           pick == [s \in D |-> Min(s)]
           step == [i \in 1 .. N |-> [v \in Int |-> byte[i] + W * v]]
           Body(g) == [s \in D |-> IF s = {} THEN 0
                                   ELSE LET x == Min(s) IN ByteAt(bits, at[x]) + W * g[s \ {x}]]
           iter == CHOOSE g : g = Body(g)
<1>1. /\ N \in Nat /\ W \in Int /\ DOMAIN at = 1 .. N
      /\ \A i \in 1 .. N : byte[i] \in Int /\ byte[i] = ByteAt(bits, at[i])
  <2>1. W \in Int
    BY Powers
  <2>2. \A i \in 1 .. N : i - 1 \in 0 .. N - 1
    OBVIOUS
  <2>3. QED
    BY <2>1, <2>2
<1>2. FromLittleEndian(bits) = iter[1 .. N]
  BY <1>1 DEF FromLittleEndian, FoldRight, MapThenFoldSet
<1>3. \A s \in D : s # {} => pick[s] \in s /\ pick[s] \in 1 .. N
  BY <1>1, MinIn
<1>4. FoldsOver(N, Int, 0, pick, step)
  <2>1. \A i \in 1 .. N : \A v \in Int : step[i][v] \in Int
    <3> HIDE DEF W, byte, N
    <3>1. QED
      BY <1>1
  <2> HIDE DEF pick, step
  <2>2. QED
    BY <1>3, <2>1 DEF FoldsOver
<1>5. PICK g \in [D -> Int] : \A s \in D : g[s] = IF s = {} THEN 0 ELSE step[pick[s]][g[s \ {pick[s]}]]
  <2>1. PICK g \in [D -> Int] : IsFold(g, N, 0, pick, step)
    <3> HIDE DEF pick, step
    <3>1. QED
      BY <1>1, <1>4, SubsetRecursion
  <2>2. QED
    BY <2>1 DEF IsFold
<1> HIDE DEF W, N
<1>6. g = Body(g)
  <2>1. ASSUME NEW s \in D, s # {}
        PROVE  g[s] = ByteAt(bits, at[Min(s)]) + W * g[s \ {Min(s)}]
    <3>1. Min(s) \in 1 .. N /\ g[s \ {Min(s)}] \in Int
      BY <1>3, <1>5, <2>1
    <3>2. byte[Min(s)] = ByteAt(bits, at[Min(s)])
      BY <1>1, <3>1
    <3> HIDE DEF byte, at
    <3>3. QED
      BY <1>5, <2>1, <3>1, <3>2
  <2>2. QED
    BY <1>5, <2>1
<1>7. iter = Body(iter)
  BY <1>6
<1> HIDE DEF iter
<1> DEFINE h == [k \in 0 .. N |-> iter[N - k + 1 .. N]]
<1>8. h[0] = 0
  <2>1. N - 0 + 1 .. N = {} /\ {} \in D
    BY <1>1
  <2>2. iter[{}] = 0
    BY <1>7, <2>1
  <2>3. QED
    BY <1>1, <2>1, <2>2
<1>9. \A k \in 1 .. N : h[k] = ByteAt(bits, N - k) + W * h[k - 1]
  <2> SUFFICES ASSUME NEW k \in 1 .. N
               PROVE  iter[N - k + 1 .. N] = ByteAt(bits, N - k) + W * iter[N - (k - 1) + 1 .. N]
    BY <1>1
  <2> DEFINE s == N - k + 1 .. N
  <2>1. s \in D /\ s # {} /\ Min(s) = N - k + 1 /\ s \ {N - k + 1} = N - (k - 1) + 1 .. N
    BY <1>1, FinalPositions
  <2>2. at[N - k + 1] = N - k
    BY <1>1
  <2> HIDE DEF s, at
  <2>3. iter[s] = ByteAt(bits, at[N - k + 1]) + W * iter[s \ {N - k + 1}]
    BY <1>7, <2>1
  <2>4. QED
    BY <2>1, <2>2, <2>3 DEF s
<1>10. \A k \in 0 .. N : h[k] \in Int
  <2> DEFINE G == {k \in 0 .. N : h[k] \in Int}
  <2>1. 0 \in G
    BY <1>1, <1>8
  <2> HIDE DEF h
  <2>2. ASSUME NEW k \in 0 .. N - 1, k \in G
        PROVE  k + 1 \in G
    <3>1. k + 1 \in 1 .. N /\ (k + 1) - 1 = k /\ h[k] \in Int
      BY <1>1, <2>2
    <3>2. N - (k + 1) \in 0 .. N - 1
      BY <1>1, <3>1
    <3>3. ByteAt(bits, N - (k + 1)) \in Int
      BY <3>2 DEF N
    <3>4. h[k + 1] = ByteAt(bits, N - (k + 1)) + W * h[k]
      BY <1>9, <3>1
    <3>5. h[k + 1] \in Int
      BY <1>1, <3>1, <3>3, <3>4
    <3>6. QED
      BY <1>1, <3>1, <3>5
  <2> HIDE DEF G
  <2>3. \A k \in 0 .. N : k \in G
    BY <1>1, <2>1, <2>2, UpwardInduction
  <2>4. QED
    BY <2>3 DEF G
<1>11. h \in [0 .. N -> Int] /\ FromLittleEndian(bits) = h[N]
  <2>1. N - N + 1 .. N = 1 .. N
    BY <1>1
  <2>2. QED
    BY <1>1, <1>2, <1>10, <2>1
<1> HIDE DEF h
<1>12. QED
  BY <1>8, <1>9, <1>11 DEF N, W

(* FlattenSeq puts its pieces one after the other. *)
LEMMA FlattenIs ==
  ASSUME NEW T, NEW ss \in Seq(Seq(T))
  PROVE  \E h \in [0 .. Len(ss) -> Seq(T)] :
           /\ h[0] = <<>>
           /\ \A n \in 1 .. Len(ss) : h[n] = h[n - 1] \o ss[n]
           /\ FlattenSeq(ss) = h[Len(ss)]
<1> DEFINE N == Len(ss)
<1>1. N \in Nat /\ \A i \in 1 .. N : ss[i] \in Seq(T)
  OBVIOUS
<1>2. CASE N = 0
  <2>1. ss = <<>> /\ FlattenSeq(ss) = <<>>
    BY <1>2 DEF FlattenSeq
  <2> DEFINE h == [n \in 0 .. N |-> <<>>]
  <2>2. h \in [0 .. N -> Seq(T)] /\ h[0] = <<>> /\ FlattenSeq(ss) = h[N]
    BY <1>2, <2>1
  <2>3. \A n \in 1 .. N : h[n] = h[n - 1] \o ss[n]
    BY <1>2
  <2> HIDE DEF h
  <2>4. QED
    BY <2>2, <2>3
<1>3. CASE N # 0
  <2> DEFINE D == 1 .. N
             V == Seq(T)
             rank == [i \in D |-> i - 1]
             prev == [i \in D |-> i - 1]
             step == [i \in D |-> [v \in V |-> v \o ss[i]]]
             Body(g) == [i \in D |-> IF i = 1 THEN ss[i] ELSE g[i - 1] \o ss[i]]
             f == CHOOSE g : g = Body(g)
  <2>1. FlattenSeq(ss) = f[N]
    BY <1>3 DEF FlattenSeq
  <2>2. rank \in [D -> 0 .. N] /\ \A i \in D : rank[i] = 0 <=> i = 1
    BY <1>1
  <2>3. RecursiveOn(D, V, rank, ss, prev, step)
    <3>1. \A i \in D : rank[i] # 0 => prev[i] \in D /\ rank[prev[i]] < rank[i]
      BY <1>1
    <3>2. \A i \in D : \A v \in V : step[i][v] \in V
      BY <1>1
    <3> HIDE DEF rank, prev, step
    <3>3. QED
      BY <1>1, <3>1, <3>2 DEF RecursiveOn
  <2>4. PICK g \in [D -> V] : \A i \in D : g[i] = IF rank[i] = 0 THEN ss[i] ELSE step[i][g[prev[i]]]
    <3>1. PICK g \in [D -> V] : ObeysRecursion(g, D, rank, ss, prev, step)
      <4> HIDE DEF D, V, rank, prev, step, N
      <4>1. QED
        BY <1>1, <2>2, <2>3, RankedRecursion
    <3>2. QED
      BY <3>1 DEF ObeysRecursion
  <2>5. g = Body(g)
    <3>1. ASSUME NEW i \in D, i # 1
          PROVE  g[i] = g[i - 1] \o ss[i]
      <4>1. i - 1 \in D /\ prev[i] = i - 1 /\ rank[i] # 0
        BY <1>1, <2>2, <3>1
      <4>2. g[i - 1] \in V
        BY <4>1
      <4>3. step[i][g[i - 1]] = g[i - 1] \o ss[i]
        BY <4>2
      <4> HIDE DEF step, prev, rank
      <4>4. QED
        BY <2>4, <4>1, <4>3
    <3>2. \A i \in D : i = 1 => g[i] = ss[i]
      BY <2>2, <2>4
    <3>3. QED
      BY <2>4, <3>1, <3>2
  <2>6. f = Body(f)
    BY <2>5
  <2> HIDE DEF f
  <2> DEFINE h == [n \in 0 .. N |-> IF n = 0 THEN <<>> ELSE f[n]]
  <2>7. h[0] = <<>> /\ FlattenSeq(ss) = h[N]
    BY <1>1, <1>3, <2>1
  <2>8. ASSUME NEW n \in 1 .. N
        PROVE  h[n] = h[n - 1] \o ss[n]
    <3>1. CASE n = 1
      <4>1. h[1] = ss[1] /\ h[0] = <<>> /\ ss[1] \in Seq(T)
        BY <1>1, <1>3, <2>6
      <4>2. <<>> \o ss[1] = ss[1]
        BY <4>1
      <4>3. n - 1 = 0
        BY <3>1
      <4> HIDE DEF h
      <4>4. QED
        BY <3>1, <4>1, <4>2, <4>3
    <3>2. CASE n # 1
      <4>1. h[n] = f[n] /\ h[n - 1] = f[n - 1] /\ n \in D
        BY <1>1, <3>2
      <4>2. QED
        BY <2>6, <3>2, <4>1
    <3>3. QED
      BY <3>1, <3>2
  <2>9. \A n \in 0 .. N : h[n] \in Seq(T)
    <3> DEFINE G == {n \in 0 .. N : h[n] \in Seq(T)}
    <3>1. 0 \in G
      BY <1>1, <2>7
    <3> HIDE DEF h
    <3>2. ASSUME NEW n \in 0 .. N - 1, n \in G
          PROVE  n + 1 \in G
      <4>1. n + 1 \in 1 .. N /\ (n + 1) - 1 = n /\ h[n] \in Seq(T)
        BY <1>1, <3>2
      <4>2. h[n + 1] = h[n] \o ss[n + 1] /\ ss[n + 1] \in Seq(T)
        BY <1>1, <2>8, <4>1
      <4>3. h[n + 1] \in Seq(T)
        BY <4>1, <4>2
      <4>4. QED
        BY <1>1, <4>1, <4>3
    <3> HIDE DEF G
    <3>3. \A n \in 0 .. N : n \in G
      BY <1>1, <3>1, <3>2, UpwardInduction
    <3>4. QED
      BY <3>3 DEF G
  <2>10. h \in [0 .. N -> Seq(T)]
    BY <2>9
  <2> HIDE DEF h
  <2>11. QED
    BY <2>7, <2>8, <2>10
<1>4. QED
  BY <1>2, <1>3

LEMMA FlattenTyped ==
  ASSUME NEW T, NEW ss \in Seq(Seq(T))
  PROVE  FlattenSeq(ss) \in Seq(T)
<1>1. PICK h \in [0 .. Len(ss) -> Seq(T)] : FlattenSeq(ss) = h[Len(ss)]
  BY FlattenIs
<1>2. Len(ss) \in 0 .. Len(ss)
  OBVIOUS
<1>3. QED
  BY <1>1, <1>2

(* Pieces of one length lie at the multiples of it. *)
LEMMA FlattenEven ==
  ASSUME NEW T, NEW L \in Nat, NEW ss \in Seq(Seq(T)), \A i \in 1 .. Len(ss) : Len(ss[i]) = L
  PROVE  Len(FlattenSeq(ss)) = L * Len(ss)
<1> DEFINE N == Len(ss)
<1>1. PICK h \in [0 .. N -> Seq(T)] :
        /\ h[0] = <<>>
        /\ \A n \in 1 .. N : h[n] = h[n - 1] \o ss[n]
        /\ FlattenSeq(ss) = h[N]
  BY FlattenIs
<1>2. N \in Nat /\ \A i \in 1 .. N : ss[i] \in Seq(T)
  OBVIOUS
<1> DEFINE G == {n \in 0 .. N : Len(h[n]) = L * n}
<1>3. 0 \in G
  <2>1. Len(h[0]) = 0 /\ L * 0 = 0
    BY <1>1
  <2>2. QED
    BY <1>2, <2>1
<1>4. ASSUME NEW n \in 0 .. N - 1, n \in G
      PROVE  n + 1 \in G
  <2>1. n + 1 \in 1 .. N /\ n + 1 \in 0 .. N /\ (n + 1) - 1 = n /\ n \in 0 .. N
    BY <1>2, <1>4
  <2>2. h[n + 1] = h[n] \o ss[n + 1] /\ h[n] \in Seq(T) /\ ss[n + 1] \in Seq(T)
    BY <1>1, <1>2, <2>1
  <2>3. Len(h[n + 1]) = Len(h[n]) + Len(ss[n + 1])
    BY <2>2
  <2>4. Len(h[n]) = L * n /\ Len(ss[n + 1]) = L
    BY <1>4, <2>1
  <2>5. L * n + L = L * (n + 1)
    BY <2>1
  <2>6. QED
    BY <2>1, <2>3, <2>4, <2>5
<1>5. \A n \in 0 .. N : n \in G
  <2> HIDE DEF G
  <2>1. QED
    BY <1>2, <1>3, <1>4, UpwardInduction
<1>6. N \in G
  <2>1. N \in 0 .. N
    BY <1>2
  <2> HIDE DEF G
  <2>2. QED
    BY <1>5, <2>1
<1>7. QED
  BY <1>1, <1>6

-----------------------------------------------------------------------------
(* Bits, numbers and bytes. *)
Bit == {0, 1}

LEMMA BitsAre ==
  ASSUME NEW v \in Int, NEW n \in Exponents
  PROVE  /\ Bits(v, n) \in Seq(Bit)
         /\ Len(Bits(v, n)) = n
         /\ \A i \in 1 .. n : Bits(v, n)[i] = (v \div 2 ^ (n - i)) % 2
<1>1. n \in Nat
  BY Powers
<1>2. ASSUME NEW i \in 1 .. n
      PROVE  (v \div 2 ^ (n - i)) % 2 \in Bit
  <2>1. n - i \in 0 .. n
    BY <1>1
  <2>2. 2 ^ (n - i) \in Nat \ {0}
    BY <2>1, Powers
  <2>3. \A p \in Nat \ {0} : v \div p \in Int
    BY Division
  <2>4. v \div 2 ^ (n - i) \in Int
    BY <2>2, <2>3
  <2>5. \A x \in Int : x % 2 \in Bit
    BY DEF Bit
  <2>6. QED
    BY <2>4, <2>5
<1>3. Bits(v, n) \in [1 .. n -> Bit]
  BY <1>2 DEF Bits
<1>4. QED
  BY <1>1, <1>3 DEF Bits

LEMMA NumberBounds ==
  ASSUME NEW bits \in Seq(Bit), Len(bits) \in Exponents
  PROVE  Number(bits) \in 0 .. 2 ^ Len(bits) - 1
<1> DEFINE N == Len(bits)
<1>1. N \in Nat /\ bits \in Seq(Int) /\ \A i \in 1 .. N : bits[i] \in {0, 1}
  BY DEF Bit
<1>2. PICK h \in [0 .. N -> Int] :
        /\ h[0] = 0
        /\ \A n \in 1 .. N : h[n] = 2 * h[n - 1] + bits[n]
        /\ Number(bits) = h[N]
  BY <1>1, NumberIs
<1> DEFINE G == {n \in 0 .. N : h[n] >= 0 /\ h[n] < 2 ^ n}
<1>3. 0 \in G
  <2>1. 2 ^ 0 = 1
    OBVIOUS
  <2>2. QED
    BY <1>1, <1>2, <2>1
<1>4. ASSUME NEW n \in 0 .. N - 1, n \in G
      PROVE  n + 1 \in G
  <2>1. n + 1 \in 1 .. N /\ (n + 1) - 1 = n /\ n \in 0 .. N /\ n + 1 \in 0 .. N
    BY <1>1, <1>4
  <2>2. n + 1 \in Exponents
    BY <2>1, Powers
  <2>3. 2 ^ (n + 1) = 2 * 2 ^ n /\ 2 ^ n \in Nat
    BY <2>1, <2>2, PowerNext, Powers
  <2>4. h[n + 1] = 2 * h[n] + bits[n + 1] /\ bits[n + 1] \in {0, 1} /\ h[n] \in Int
    BY <1>1, <1>2, <2>1
  <2>5. h[n] >= 0 /\ h[n] < 2 ^ n
    BY <1>4
  <2>6. h[n + 1] >= 0 /\ h[n + 1] < 2 ^ (n + 1)
    BY <2>3, <2>4, <2>5
  <2>7. QED
    BY <2>1, <2>6
<1>5. N \in G
  <2> HIDE DEF G
  <2>1. \A n \in 0 .. N : n \in G
    BY <1>1, <1>3, <1>4, UpwardInduction
  <2>2. QED
    BY <1>1, <2>1
<1>6. 2 ^ N \in Nat
  BY Powers
<1>7. QED
  BY <1>1, <1>2, <1>5, <1>6

LEMMA BytesAre ==
  ASSUME NEW T, NEW bits \in Seq(T)
  PROVE  /\ Bytes(bits) \in Nat
         /\ ByteBits * Bytes(bits) <= Len(bits)
         /\ Len(bits) < ByteBits * Bytes(bits) + ByteBits
<1>1. Len(bits) \in Nat /\ ByteBits \in Nat \ {0}
  BY Widths
<1>2. PICK q \in Int, r \in 0 .. ByteBits - 1 : q = Bytes(bits) /\ Len(bits) = ByteBits * q + r
  <2>1. /\ Len(bits) \div ByteBits \in Int
        /\ Len(bits) % ByteBits \in 0 .. ByteBits - 1
        /\ Len(bits) = ByteBits * (Len(bits) \div ByteBits) + (Len(bits) % ByteBits)
    BY <1>1, Division
  <2>2. QED
    BY ONLY <2>1 DEF Bytes
<1>3. Len(bits) = ByteBits * q + r
  BY <1>2
<1>4. q >= 0
  <2>1. CASE q <= -1
    <3>1. ByteBits * q <= ByteBits * (-1)
      BY <1>1, <2>1, ProductGrows
    <3>2. ByteBits * q \in Int /\ ByteBits * (-1) = -ByteBits
      BY <1>1
    <3>3. QED
      BY <1>1, <1>3, <3>1, <3>2
  <2>2. QED
    BY <2>1
<1>5. ByteBits * q \in Nat
  BY <1>1, <1>4
<1>6. QED
  BY <1>1, <1>2, <1>3, <1>4, <1>5

LEMMA SliceIs ==
  ASSUME NEW T, NEW bits \in Seq(T), NEW offset \in Nat, NEW n \in Nat, offset + n <= Bytes(bits)
  PROVE  /\ Slice(bits, offset, n) \in Seq(T)
         /\ Len(Slice(bits, offset, n)) = ByteBits * n
         /\ \A i \in 1 .. ByteBits * n :
              /\ ByteBits * offset + i \in 1 .. Len(bits)
              /\ Slice(bits, offset, n)[i] = bits[ByteBits * offset + i]
<1>1. PICK from \in Nat : from = ByteBits * offset
  BY Widths, ProductNat
<1>2. PICK len \in Nat : len = ByteBits * n
  BY Widths, ProductNat
<1>3. ByteBits * (offset + n) = from + len
  BY Widths, <1>1, <1>2
<1>4. from + len <= Len(bits)
  <2>0. Bytes(bits) \in Int /\ offset + n \in Int /\ ByteBits \in Nat
    BY Widths, BytesAre
  <2>1. ByteBits * (offset + n) <= ByteBits * Bytes(bits)
    BY <2>0, ProductGrows
  <2>2. ByteBits * Bytes(bits) <= Len(bits) /\ ByteBits * Bytes(bits) \in Int
    BY BytesAre, Widths
  <2>3. QED
    BY <1>3, <2>1, <2>2
<1>5. Slice(bits, offset, n) = SubSeq(bits, from + 1, from + len)
  BY <1>1, <1>3 DEF Slice
<1>6. SubSeq(bits, from + 1, from + len) = [i \in 1 .. len |-> bits[from + i]]
  <2>1. (from + len) - (from + 1) + 1 = len
    OBVIOUS
  <2>2. \A i \in 1 .. len : (from + 1) + i - 1 = from + i
    OBVIOUS
  <2>3. QED
    BY <2>1, <2>2, <1>4
<1>7. \A i \in 1 .. len : from + i \in 1 .. Len(bits) /\ bits[from + i] \in T
  BY <1>4
<1>8. Slice(bits, offset, n) = [i \in 1 .. len |-> bits[from + i]]
  BY <1>5, <1>6
<1>9. /\ Slice(bits, offset, n) \in Seq(T)
      /\ Len(Slice(bits, offset, n)) = len
      /\ \A i \in 1 .. len :
           /\ from + i \in 1 .. Len(bits)
           /\ Slice(bits, offset, n)[i] = bits[from + i]
  BY ONLY len \in Nat, <1>7, <1>8
<1>10. QED
  BY ONLY <1>1, <1>2, <1>9

LEMMA ByteAtIs ==
  ASSUME NEW bits \in Seq(Bit), NEW offset \in Nat, offset < Bytes(bits)
  PROVE  ByteAt(bits, offset) \in 0 .. 2 ^ ByteBits - 1
<1>1. offset + 1 <= Bytes(bits)
  BY BytesAre
<1>2. Slice(bits, offset, 1) \in Seq(Bit) /\ Len(Slice(bits, offset, 1)) = ByteBits
  BY <1>1, SliceIs, Widths
<1>3. ByteBits \in Exponents
  BY Widths, Powers
<1>4. QED
  BY <1>2, <1>3, NumberBounds DEF ByteAt

LEMMA RoundUpIs ==
  ASSUME NEW n \in Nat
  PROVE  /\ RoundUp(n) \in Nat
         /\ n <= RoundUp(n) /\ RoundUp(n) < n + ByteBits
         /\ \E k \in Nat : RoundUp(n) = ByteBits * k
         /\ \A k \in Nat : n <= ByteBits * k => RoundUp(n) <= ByteBits * k
<1>1. ByteBits \in Nat \ {0}
  BY Widths
<1>2. PICK q \in Int, r \in 0 .. ByteBits - 1 :
        q = (n + ByteBits - 1) \div ByteBits /\ n + ByteBits - 1 = ByteBits * q + r
  <2>1. PICK x \in Int : x = n + ByteBits - 1
    BY <1>1
  <2>2. /\ x \div ByteBits \in Int
        /\ x % ByteBits \in 0 .. ByteBits - 1
        /\ x = ByteBits * (x \div ByteBits) + (x % ByteBits)
    BY <1>1, Division
  <2>3. QED
    BY ONLY <2>1, <2>2
<1>3. n + ByteBits - 1 = ByteBits * q + r
  BY <1>2
<1>4. RoundUp(n) = ByteBits * q /\ ByteBits * q \in Int
  BY <1>1, <1>2 DEF RoundUp
<1>5. n <= ByteBits * q /\ ByteBits * q < n + ByteBits
  BY <1>1, <1>3, <1>4
<1>6. q \in Nat
  <2>1. CASE q <= -1
    <3>1. ByteBits * q <= ByteBits * (-1)
      BY <1>1, <2>1, ProductGrows
    <3>2. ByteBits * (-1) = -ByteBits
      BY <1>1
    <3>3. QED
      BY <1>1, <1>4, <1>5, <3>1, <3>2
  <2>2. QED
    BY <2>1
<1>7. ASSUME NEW k \in Nat, n <= ByteBits * k
      PROVE  ByteBits * q <= ByteBits * k
  <2>1. CASE q <= k
    BY <1>1, <2>1, ProductGrows
  <2>2. CASE k + 1 <= q
    <3>1. ByteBits * (k + 1) <= ByteBits * q
      BY <1>1, <2>2, ProductGrows
    <3>2. ByteBits * (k + 1) = ByteBits * k + ByteBits /\ ByteBits * k \in Int
      BY <1>1
    <3>3. QED
      BY <1>1, <1>4, <1>5, <1>7, <3>1, <3>2
  <2>3. QED
    BY <2>1, <2>2
<1>8. QED
  BY <1>4, <1>5, <1>6, <1>7

LEMMA FromLittleEndianBounds ==
  ASSUME NEW bits \in Seq(Bit), ByteBits * Bytes(bits) \in Exponents
  PROVE  FromLittleEndian(bits) \in 0 .. 2 ^ (ByteBits * Bytes(bits)) - 1
<1> DEFINE N == Bytes(bits)
           W == 2 ^ ByteBits
<1>1. N \in Nat /\ ByteBits \in Nat /\ ByteBits \in Exponents /\ W \in Nat
  BY BytesAre, Widths, Powers
<1>2. \A n \in 0 .. N - 1 : ByteAt(bits, n) \in 0 .. W - 1
  BY <1>1, ByteAtIs
<1>3. PICK h \in [0 .. N -> Int] :
        /\ h[0] = 0
        /\ \A k \in 1 .. N : h[k] = ByteAt(bits, N - k) + W * h[k - 1]
        /\ FromLittleEndian(bits) = h[N]
  <2>1. \A n \in 0 .. N - 1 : ByteAt(bits, n) \in Int
    BY <1>1, <1>2
  <2>2. QED
    BY <1>1, <2>1, FromLittleEndianIs
<1> DEFINE P(k) == 2 ^ (ByteBits * k)
           G == {k \in 0 .. N : h[k] >= 0 /\ h[k] <= P(k) - 1}
<1>4. \A k \in 0 .. N : ByteBits * k \in Exponents /\ P(k) \in Nat
  <2> SUFFICES ASSUME NEW k \in 0 .. N PROVE ByteBits * k \in Exponents
    BY Powers
  <2>1. ByteBits * N \in Exponents
    OBVIOUS
  <2> HIDE DEF N
  <2>2. N \in Nat /\ ByteBits \in Nat
    BY ONLY <1>1
  <2>3. QED
    BY ONLY <2>1, <2>2, k \in 0 .. N, SmallerExponent
<1>5. 0 \in G
  <2>1. ByteBits * 0 = 0 /\ 2 ^ 0 = 1
    BY <1>1
  <2>2. QED
    BY <1>1, <1>3, <2>1
<1>6. ASSUME NEW k \in 0 .. N - 1, k \in G
      PROVE  k + 1 \in G
  <2>1. k + 1 \in 1 .. N /\ (k + 1) - 1 = k /\ k \in 0 .. N /\ k + 1 \in 0 .. N
    BY <1>1, <1>6
  <2>2. P(k + 1) = W * P(k)
    <3>1. PICK m \in Exponents : m = ByteBits * (k + 1)
      BY <1>4, <2>1
    <3>2. m - ByteBits = ByteBits * k /\ m >= ByteBits
      <4>1. ByteBits * (k + 1) = ByteBits * k + ByteBits /\ ByteBits * k \in Nat
        BY <1>1, <2>1
      <4>2. QED
        BY <1>1, <3>1, <4>1
    <3>3. ByteBits \in 0 .. m
      BY <1>1, <3>2, Powers
    <3>4. 2 ^ m = 2 ^ ByteBits * 2 ^ (m - ByteBits)
      BY <3>3, Powers
    <3>5. QED
      BY <3>1, <3>2, <3>4
  <2>3. PICK p \in Nat : p = P(k)
    BY <1>4, <2>1
  <2>4. PICK b \in 0 .. W - 1 : b = ByteAt(bits, N - (k + 1))
    <3>1. N - (k + 1) \in 0 .. N - 1
      BY <1>1, <2>1
    <3>2. QED
      BY <1>2, <3>1
  <2>5. PICK x \in Int : x = h[k] /\ x >= 0 /\ x <= p - 1
    BY <1>6, <2>1, <2>3
  <2>6. h[k + 1] = b + W * x
    BY <1>3, <2>1, <2>4, <2>5
  <2> HIDE DEF W, P, N
  <2>7. W * x <= W * p - W /\ W * x >= 0
    <3>0. W \in Nat /\ p - 1 \in Int /\ x \in Int /\ x <= p - 1 /\ 0 <= x /\ 0 \in Int
      BY <1>1, <2>5
    <3>1. W * x <= W * (p - 1) /\ W * 0 <= W * x
      BY ONLY <3>0, ProductGrows
    <3>2. W * (p - 1) = W * p - W /\ W * 0 = 0
      BY <1>1
    <3>3. QED
      BY <3>1, <3>2
  <2>8. W * p \in Int /\ W * x \in Int
    BY <1>1
  <2>9. h[k + 1] >= 0 /\ h[k + 1] <= W * p - 1
    <3>1. b \in Int /\ b >= 0 /\ b <= W - 1 /\ W \in Int
      BY <1>1, <2>4
    <3>2. PICK wx \in Int, wp \in Int : wx = W * x /\ wp = W * p
      BY <2>8
    <3>3. QED
      BY ONLY <3>1, <3>2, <2>6, <2>7
  <2>10. QED
    BY <2>1, <2>2, <2>3, <2>9
<1>7. N \in G
  <2> HIDE DEF G
  <2>1. \A n \in 0 .. N : n \in G
    BY <1>1, <1>5, <1>6, UpwardInduction
  <2>2. QED
    BY <1>1, <2>1
<1>8. P(N) \in Nat /\ h[N] \in Int
  BY <1>1, <1>4
<1> HIDE DEF N
<1>9. h[N] \in 0 .. P(N) - 1
  BY <1>7, <1>8
<1>10. QED
  BY <1>3, <1>9 DEF N

LEMMA LittleEndianIs ==
  ASSUME NEW v \in Int, NEW n \in 0 .. U64Bytes
  PROVE  /\ LittleEndian(v, n) \in Seq(Bit)
         /\ Len(LittleEndian(v, n)) = ByteBits * n
<1> DEFINE ss == [i \in 1 .. n |-> Bits(v \div 2 ^ (ByteBits * (i - 1)), ByteBits)]
<1>1. ByteBits \in Nat /\ ByteBits \in Exponents /\ n \in Nat /\ U64Bytes \in Nat
  BY Widths, Powers
<1>2. ASSUME NEW i \in 1 .. n
      PROVE  ss[i] \in Seq(Bit) /\ Len(ss[i]) = ByteBits
  <2>1. i - 1 \in 0 .. U64Bytes
    BY <1>1
  <2>2. ByteBits * (i - 1) \in Exponents
    BY <2>1, Shifts
  <2>3. PICK p \in Nat \ {0} : p = 2 ^ (ByteBits * (i - 1))
    BY <2>2, Powers
  <2>4. v \div p \in Int
    BY <2>3, Division
  <2>5. QED
    BY <1>1, <2>3, <2>4, BitsAre
<1>3. ss \in Seq(Seq(Bit)) /\ Len(ss) = n
  <2>1. DOMAIN ss = 1 .. n /\ \A i \in 1 .. n : ss[i] \in Seq(Bit)
    BY <1>2
  <2> HIDE DEF ss
  <2>2. ss = [i \in 1 .. n |-> ss[i]]
    BY <2>1 DEF ss
  <2>3. QED
    BY <1>1, <2>1, <2>2
<1>4. LittleEndian(v, n) = FlattenSeq(ss)
  BY DEF LittleEndian
<1> HIDE DEF ss
<1>5. FlattenSeq(ss) \in Seq(Bit)
  BY <1>3, FlattenTyped
<1>6. Len(FlattenSeq(ss)) = ByteBits * n
  BY <1>1, <1>2, <1>3, FlattenEven
<1>7. QED
  BY <1>4, <1>5, <1>6

LEMMA VarintLenIs ==
  ASSUME NEW v \in 0 .. 2 ^ (GroupBits * VarintBytes) - 1
  PROVE  /\ VarintLen(v) \in 1 .. VarintBytes
         /\ v < 2 ^ (GroupBits * VarintLen(v))
         /\ \A n \in 1 .. VarintLen(v) - 1 : v >= 2 ^ (GroupBits * n)
<1> DEFINE S == {n \in 1 .. VarintBytes : v < 2 ^ (GroupBits * n)}
<1>1. VarintBytes \in Nat /\ VarintBytes >= 1 /\ 2 ^ (GroupBits * VarintBytes) \in Nat
  BY Widths, Powers
<1>2. VarintBytes \in S
  BY <1>1
<1>3. S \subseteq Nat
  BY <1>1
<1>4. VarintLen(v) \in S /\ \A n \in S : VarintLen(v) <= n
  <2> HIDE DEF S
  <2>1. \E m \in S : \A n \in S : m <= n
    BY <1>2, <1>3, LeastNatural
  <2>2. QED
    BY <2>1 DEF VarintLen, Min, S
<1>5. ASSUME NEW n \in 1 .. VarintLen(v) - 1
      PROVE  v >= 2 ^ (GroupBits * n)
  <2>1. n \in 1 .. VarintBytes /\ ~ (VarintLen(v) <= n)
    BY <1>1, <1>4
  <2>2. n \notin S
    BY <1>4, <2>1
  <2>3. ~ (v < 2 ^ (GroupBits * n))
    BY <2>1, <2>2
  <2>4. 2 ^ (GroupBits * n) \in Int /\ v \in Int
    <3>1. n \in 0 .. VarintBytes
      BY <1>1, <2>1
    <3>2. PICK m \in Exponents : m = GroupBits * n
      BY <3>1, Shifts
    <3>3. 2 ^ m \in Int
      BY Powers
    <3>4. QED
      BY <1>1, <3>2, <3>3
  <2>5. QED
    BY <2>3, <2>4
<1>6. QED
  BY <1>4, <1>5

LEMMA VarintLenTyped ==
  ASSUME NEW v \in 0 .. 2 ^ (GroupBits * VarintBytes) - 1
  PROVE  VarintLen(v) \in Nat /\ VarintLen(v) \in 1 .. VarintBytes /\ v < 2 ^ (GroupBits * VarintLen(v))
<1>1. VarintLen(v) \in 1 .. VarintBytes /\ v < 2 ^ (GroupBits * VarintLen(v))
  BY VarintLenIs
<1>2. VarintBytes \in Nat
  BY Widths
<1>3. VarintLen(v) \in Nat
  BY ONLY <1>1, <1>2
<1>4. QED
  BY ONLY <1>1, <1>3

LEMMA VarintIs ==
  ASSUME NEW v \in 0 .. 2 ^ (GroupBits * VarintBytes) - 1
  PROVE  /\ Varint(v) \in Seq(Bit)
         /\ Len(Varint(v)) = ByteBits * VarintLen(v)
<1> DEFINE N == VarintLen(v)
           ss == [i \in 1 .. N |-> <<IF i < N THEN 1 ELSE 0>> \o Bits(VarintGroup(v, i), GroupBits)]
<1>1. N \in 1 .. VarintBytes /\ N \in Nat /\ v \in Int
  BY VarintLenIs, Widths
<1>2. GroupBits \in Nat /\ GroupBits \in Exponents /\ ByteBits = GroupBits + 1
  BY Widths, Powers
<1>3. ASSUME NEW i \in 1 .. N
      PROVE  ss[i] \in Seq(Bit) /\ Len(ss[i]) = ByteBits
  <2>1. i - 1 \in 0 .. VarintBytes
    BY <1>1, Widths
  <2>2. GroupBits * (i - 1) \in Exponents
    BY <2>1, Shifts
  <2>3. PICK p \in Nat \ {0} : p = 2 ^ (GroupBits * (i - 1))
    BY <2>2, Powers
  <2>4. PICK w \in Nat \ {0} : w = 2 ^ GroupBits
    BY <1>2, Powers
  <2>5. (v \div p) % w \in Int
    <3>1. v \div p \in Int
      BY <1>1, Division
    <3>2. (v \div p) % w \in 0 .. w - 1
      BY <3>1, Division
    <3>3. QED
      BY <3>2
  <2>6. VarintGroup(v, i) \in Int
    BY <2>3, <2>4, <2>5 DEF VarintGroup
  <2>7. Bits(VarintGroup(v, i), GroupBits) \in Seq(Bit) /\ Len(Bits(VarintGroup(v, i), GroupBits)) = GroupBits
    BY <1>2, <2>6, BitsAre
  <2>8. <<IF i < N THEN 1 ELSE 0>> \in Seq(Bit) /\ Len(<<IF i < N THEN 1 ELSE 0>>) = 1
    BY DEF Bit
  <2> HIDE DEF N
  <2>9. QED
    BY <1>2, <2>7, <2>8
<1>4. ss \in Seq(Seq(Bit)) /\ Len(ss) = N
  <2>1. DOMAIN ss = 1 .. N /\ \A i \in 1 .. N : ss[i] \in Seq(Bit)
    BY <1>3
  <2>2. ss = [i \in 1 .. N |-> ss[i]]
    OBVIOUS
  <2> HIDE DEF ss, N
  <2>3. QED
    BY <1>1, <2>1, <2>2
<1>5. Varint(v) = FlattenSeq(ss)
  BY DEF Varint
<1> HIDE DEF ss
<1>6. QED
  BY <1>1, <1>2, <1>3, <1>4, <1>5, FlattenTyped, FlattenEven

-----------------------------------------------------------------------------
(* The varint readers. *)

(* Numbers in shifted groups: the shifts p, each g times the one before,   *)
(* with room for V groups of which all but the last end within W.          *)
InGroups(numbers, a, p, g, V, W, C) ==
  /\ p[0] = 1
  /\ \A i \in 1 .. V : p[i] = g * p[i - 1]
  /\ \A i \in 0 .. V - 1 : p[i] <= W
  /\ W = p[V - 1] * C
  /\ \A i \in DOMAIN numbers : a[i] < g /\ numbers[i] = a[i] * p[i - 1]

(* One more group: the sum stays below the next shift. *)
LEMMA GroupFits ==
  ASSUME NEW g \in Nat \ {0}, NEW p \in Nat \ {0}, NEW a \in 0 .. g - 1, NEW x \in 0 .. p - 1
  PROVE  a * p \in Nat /\ x + a * p \in 0 .. g * p - 1
<1>1. p * a <= p * (g - 1) /\ p * a \in Nat
  BY ProductGrows, ProductNat
<1>2. p * a = a * p /\ p * (g - 1) = g * p - p
  OBVIOUS
<1>3. PICK y \in Nat, z \in Int : y = a * p /\ z = g * p
  BY <1>1, <1>2
<1>4. y <= z - p
  BY <1>1, <1>2, <1>3
<1>5. x + y \in 0 .. z - 1
  BY <1>4
<1>6. QED
  BY <1>3, <1>5

IsProduct(W, p, C) == W = p * C
Wraps(x, y, W) == x + (y % W) = (x + y) % W

(* The last group: what lies above W is lost in both. *)
LEMMA GroupWraps ==
  ASSUME NEW C \in Nat \ {0}, NEW p \in Nat \ {0}, NEW a \in Nat, NEW x \in 0 .. p - 1,
         NEW W \in Nat \ {0}, IsProduct(W, p, C)
  PROVE  Wraps(x, a * p, W)
<1>1. PICK q \in Int, r \in 0 .. C - 1 : a = C * q + r
  <2>1. a \div C \in Int /\ a % C \in 0 .. C - 1 /\ a = C * (a \div C) + (a % C)
    <3>1. a \in Int
      OBVIOUS
    <3>2. QED
      BY ONLY <3>1, C \in Nat \ {0}, Division
  <2>2. QED
    BY ONLY <2>1
<1>2. PICK s \in Int : s = p * r
  OBVIOUS
<1>3. s >= 0 /\ s <= W - p
  <2>1. p * r <= p * (C - 1) /\ p * 0 <= p * r
    BY ProductGrows
  <2>2. p * (C - 1) = p * C - p /\ p * 0 = 0
    OBVIOUS
  <2>3. QED
    BY <1>2, <2>1, <2>2 DEF IsProduct
<1>4. a * p = W * q + s
  <2>1. a * p = (C * q + r) * p
    BY <1>1
  <2>2. (C * q + r) * p = (p * C) * q + p * r
    OBVIOUS
  <2>3. QED
    BY <1>2, <2>1, <2>2 DEF IsProduct
<1>5. s \in 0 .. W - 1 /\ x + s \in 0 .. W - 1
  BY ONLY s \in Int, W \in Nat \ {0}, p \in Nat \ {0}, x \in 0 .. p - 1, <1>3
<1>6. (W * q + s) % W = s /\ (W * q + (x + s)) % W = x + s
  BY ONLY <1>5, W \in Nat \ {0}, q \in Int, DivisionIs
<1>7. x + a * p = W * q + (x + s)
  <2>1. PICK z \in Int : z = W * q
    OBVIOUS
  <2>2. x + (z + s) = z + (x + s)
    OBVIOUS
  <2>3. QED
    BY ONLY <2>1, <2>2, <1>4
<1>8. QED
  BY ONLY <1>4, <1>6, <1>7 DEF Wraps

(* A number below the modulus is its own rest. *)
LEMMA SmallMod ==
  ASSUME NEW W \in Nat \ {0}, NEW x \in 0 .. W - 1
  PROVE  x % W = x
<1>1. (W * 0 + x) % W = x
  BY DivisionIs
<1>2. W * 0 + x = x
  OBVIOUS
<1>3. QED
  BY ONLY <1>1, <1>2

AtMost(y, W) == y <= W
Kept(y, W) == y % W = y

(* One step of the two sums, before the last possible group. *)
LEMMA GroupKept ==
  ASSUME NEW g \in Nat \ {0}, NEW p \in Nat \ {0}, NEW a \in 0 .. g - 1, NEW x \in 0 .. p - 1,
         NEW W \in Nat \ {0}, AtMost(g * p, W)
  PROVE  Kept(a * p, W)
<1>1. a * p \in Nat /\ x + a * p \in 0 .. g * p - 1
  BY ONLY g \in Nat \ {0}, p \in Nat \ {0}, a \in 0 .. g - 1, x \in 0 .. p - 1, GroupFits
<1>2. PICK y \in Nat, z \in Int : y = a * p /\ z = g * p
  BY <1>1
<1>3. x + y \in 0 .. z - 1 /\ z <= W
  BY ONLY <1>1, <1>2, AtMost(g * p, W) DEF AtMost
<1>4. y \in 0 .. W - 1
  BY ONLY <1>3, x \in 0 .. p - 1, p \in Nat \ {0}, y \in Nat, z \in Int, W \in Nat \ {0}
<1>5. y % W = y
  BY ONLY <1>4, W \in Nat \ {0}, SmallMod
<1>6. QED
  BY ONLY <1>2, <1>5 DEF Kept

(* The sum of the groups and the sum of what fits of them: all groups but  *)
(* the last possible one lie within W and cannot carry into each other.    *)
LEMMA SumsOfGroups ==
  ASSUME NEW V \in Nat \ {0}, NEW numbers \in Seq(Int), Len(numbers) \in 1 .. V,
         NEW g \in Nat \ {0}, NEW W \in Nat \ {0}, NEW C \in Nat \ {0},
         NEW a \in [1 .. Len(numbers) -> Nat], NEW p \in [0 .. V -> Nat \ {0}],
         InGroups(numbers, a, p, g, V, W, C)
  PROVE  /\ Total(numbers) \in Nat
         /\ Total([i \in DOMAIN numbers |-> numbers[i] % W]) = Total(numbers) % W
<1>1. PICK m \in Nat : m = Len(numbers) /\ m >= 1 /\ m <= V /\ DOMAIN numbers = 1 .. m
  OBVIOUS
<1>2. PICK kept : kept = [i \in 1 .. m |-> numbers[i] % W]
  OBVIOUS
<1>3. p[0] = 1
  BY DEF InGroups
<1>4. ASSUME NEW i \in 1 .. m
      PROVE  /\ i - 1 \in 0 .. V - 1 /\ i - 1 \in 0 .. V /\ i \in 1 .. V /\ i \in 0 .. V
             /\ p[i - 1] \in Nat \ {0} /\ p[i] \in Nat \ {0} /\ a[i] \in Nat /\ a[i] \in 0 .. g - 1
             /\ numbers[i] = a[i] * p[i - 1] /\ p[i] = g * p[i - 1] /\ p[i - 1] <= W
  <2>1. i \in DOMAIN numbers /\ i - 1 \in 0 .. V - 1 /\ i - 1 \in 0 .. V /\ i \in 1 .. V /\ i \in 0 .. V
    BY <1>1
  <2>2. p[i - 1] \in Nat \ {0} /\ p[i] \in Nat \ {0}
    BY ONLY <2>1, p \in [0 .. V -> Nat \ {0}]
  <2>3. a[i] \in Nat
    BY ONLY <1>1, a \in [1 .. Len(numbers) -> Nat], i \in 1 .. m
  <2>4. a[i] < g /\ numbers[i] = a[i] * p[i - 1]
    BY ONLY <2>1, InGroups(numbers, a, p, g, V, W, C) DEF InGroups
  <2>5. p[i] = g * p[i - 1] /\ p[i - 1] <= W
    BY ONLY <2>1, InGroups(numbers, a, p, g, V, W, C) DEF InGroups
  <2>6. a[i] \in 0 .. g - 1
    BY ONLY <2>3, <2>4, g \in Nat \ {0}
  <2>7. QED
    BY ONLY <2>1, <2>2, <2>3, <2>4, <2>5, <2>6
<1>5. ASSUME NEW n \in 1 .. m, n < V
      PROVE  p[n] <= W
  <2>1. n \in 0 .. V - 1
    BY <1>1, <1>5
  <2>2. QED
    BY ONLY <2>1, InGroups(numbers, a, p, g, V, W, C) DEF InGroups
<1>6. kept \in Seq(Int) /\ Len(kept) = m /\ \A i \in 1 .. m : kept[i] = numbers[i] % W
  <2>1. \A i \in 1 .. m : numbers[i] % W \in Int
    <3>1. ASSUME NEW i \in 1 .. m PROVE numbers[i] % W \in Int
      <4>1. numbers[i] \in Int
        BY <1>1
      <4>2. numbers[i] % W \in 0 .. W - 1
        BY ONLY <4>1, W \in Nat \ {0}, Division
      <4>3. QED
        BY ONLY <4>2, W \in Nat \ {0}
    <3>2. QED
      BY <3>1
  <2>2. QED
    BY ONLY <1>2, <2>1, m \in Nat
<1>7. PICK h \in [0 .. m -> Int] :
        /\ h[0] = 0
        /\ \A n \in 1 .. m : h[n] = h[n - 1] + numbers[n]
        /\ Total(numbers) = h[m]
  BY ONLY <1>1, numbers \in Seq(Int), TotalIs
<1>8. PICK k \in [0 .. m -> Int] :
         /\ k[0] = 0
         /\ \A n \in 1 .. m : k[n] = k[n - 1] + kept[n]
         /\ Total(kept) = k[m]
  BY ONLY <1>6, TotalIs
<1> DEFINE G == {n \in 0 .. m : h[n] \in 0 .. p[n] - 1 /\ (n < V => k[n] = h[n])}
<1>9. 0 \in G
  BY ONLY <1>3, <1>7, <1>8, m \in Nat
<1>10. ASSUME NEW n \in 0 .. m - 1, n \in G
       PROVE  n + 1 \in G
  <2>1. n + 1 \in 1 .. m /\ n + 1 \in 0 .. m /\ (n + 1) - 1 = n /\ n < V
    BY ONLY <1>1, n \in 0 .. m - 1, m \in Nat, V \in Nat
  <2>2. h[n] \in 0 .. p[n] - 1 /\ k[n] = h[n]
    BY ONLY <1>10, <2>1
  <2>3. h[n + 1] = h[n] + numbers[n + 1] /\ k[n + 1] = k[n] + kept[n + 1]
    BY ONLY <1>7, <1>8, <2>1
  <2>4. PICK P \in Nat \ {0} : P = p[n]
    BY ONLY <1>4, <2>1
  <2>5. PICK b \in 0 .. g - 1 : b = a[n + 1]
    BY ONLY <1>4, <2>1
  <2>6. numbers[n + 1] = b * P /\ p[n + 1] = g * P
    BY ONLY <1>4, <2>1, <2>4, <2>5
  <2>7. PICK x \in 0 .. P - 1 : x = h[n]
    BY ONLY <2>2, <2>4
  <2>8. x + b * P \in 0 .. g * P - 1
    BY ONLY g \in Nat \ {0}, P \in Nat \ {0}, b \in 0 .. g - 1, x \in 0 .. P - 1, GroupFits
  <2>9. h[n + 1] \in 0 .. p[n + 1] - 1
    <3>1. PICK y \in Int, z \in Int : y = b * P /\ z = g * P
      OBVIOUS
    <3>2. x + y \in 0 .. z - 1
      BY ONLY <2>8, <3>1
    <3>3. h[n + 1] = x + y
      BY ONLY <2>3, <2>6, <2>7, <3>1
    <3>4. QED
      BY ONLY <2>6, <3>1, <3>2, <3>3
  <2>10. ASSUME n + 1 < V
         PROVE  k[n + 1] = h[n + 1]
    <3>1. AtMost(g * P, W)
      BY ONLY <1>5, <2>1, <2>6, <2>10 DEF AtMost
    <3>2. Kept(b * P, W)
      BY ONLY <3>1, g \in Nat \ {0}, P \in Nat \ {0}, b \in 0 .. g - 1, x \in 0 .. P - 1, W \in Nat \ {0}, GroupKept
    <3>3. kept[n + 1] = numbers[n + 1]
      BY ONLY <1>6, <2>1, <2>6, <3>2 DEF Kept
    <3>4. QED
      BY ONLY <2>2, <2>3, <3>3
  <2>11. QED
    BY ONLY <2>1, <2>9, <2>10
<1>11. \A n \in 0 .. m : n \in G
  <2> HIDE DEF G
  <2>1. QED
    BY ONLY m \in Nat, <1>9, <1>10, UpwardInduction
<1>12. m \in 0 .. m /\ m \in 1 .. m /\ m \in 0 .. V
  BY ONLY <1>1, m \in Nat, V \in Nat
<1>13. h[m] \in 0 .. p[m] - 1 /\ (m < V => k[m] = h[m])
  BY ONLY <1>11, <1>12
<1>14. PICK Q \in Nat \ {0} : Q = p[m]
  BY ONLY <1>4, <1>12
<1>15. PICK t \in 0 .. Q - 1 : t = h[m]
  BY ONLY <1>13, <1>14
<1>16. k[m] = t % W
  <2>1. CASE m < V
    <3>1. Q <= W
      BY ONLY <1>5, <1>12, <1>14, <2>1
    <3>2. t \in 0 .. W - 1
      BY ONLY <3>1, t \in 0 .. Q - 1, Q \in Nat \ {0}, W \in Nat \ {0}
    <3>3. t % W = t
      BY ONLY <3>2, W \in Nat \ {0}, SmallMod
    <3>4. QED
      BY ONLY <1>13, <1>15, <2>1, <3>3
  <2>2. CASE m = V
    <3>1. m - 1 \in 0 .. m /\ m - 1 < V
      BY ONLY <1>1, <2>2, m \in Nat
    <3>2. PICK B \in Nat \ {0} : B = p[m - 1]
      BY ONLY <1>4, <1>12
    <3>3. IsProduct(W, B, C)
      BY ONLY <2>2, <3>2, InGroups(numbers, a, p, g, V, W, C) DEF InGroups, IsProduct
    <3>4. h[m - 1] \in 0 .. p[m - 1] - 1 /\ k[m - 1] = h[m - 1]
      BY ONLY <1>11, <3>1
    <3>5. PICK x \in 0 .. B - 1 : x = h[m - 1] /\ x = k[m - 1]
      BY ONLY <3>2, <3>4
    <3>6. PICK b \in Nat : b = a[m]
      BY ONLY <1>4, <1>12
    <3>7. numbers[m] = b * B
      BY ONLY <1>4, <1>12, <3>2, <3>6
    <3>8. Wraps(x, b * B, W)
      BY ONLY C \in Nat \ {0}, B \in Nat \ {0}, b \in Nat, x \in 0 .. B - 1, W \in Nat \ {0}, <3>3, GroupWraps
    <3>9. h[m] = x + b * B
      BY ONLY <1>7, <1>12, <3>5, <3>7
    <3>10. k[m] = x + ((b * B) % W)
      <4>1. k[m] = k[m - 1] + kept[m] /\ kept[m] = numbers[m] % W
        BY ONLY <1>6, <1>8, <1>12
      <4>2. QED
        BY ONLY <3>5, <3>7, <4>1
    <3>11. QED
      BY ONLY <1>15, <3>8, <3>9, <3>10 DEF Wraps
  <2>3. QED
    BY ONLY <1>1, <2>1, <2>2, V \in Nat
<1>17. Total(numbers) = t /\ Total(kept) = t % W /\ t \in Nat
  BY ONLY <1>7, <1>8, <1>15, <1>16, Q \in Nat
<1>18. QED
  BY ONLY <1>1, <1>2, <1>17

(* A varint that ends: where it does, and its two sums. *)
LEMMA VarintSums ==
  ASSUME NEW data \in Seq(Bit), NEW offset \in Nat, Ends(data, offset) # {}
  PROVE  /\ Min(Ends(data, offset)) \in 1 .. VarintBytes
         /\ offset + Min(Ends(data, offset)) <= Bytes(data)
         /\ Total(Shifted(data, offset)) \in Nat
         /\ Total(InU32(Shifted(data, offset))) = Total(Shifted(data, offset)) % 2 ^ U32Bits
<1>1. PICK V \in Nat \ {0}, b \in Nat \ {0} : V = VarintBytes /\ b = GroupBits
  BY Widths
<1>2. Min(Ends(data, offset)) \in Ends(data, offset)
  <2>1. Ends(data, offset) \in SUBSET (1 .. V)
    BY <1>1 DEF Ends
  <2>2. QED
    BY <1>1, <2>1, MinIn
<1>3. PICK m \in 1 .. V : m = Min(Ends(data, offset)) /\ offset + m <= Bytes(data)
  BY <1>1, <1>2 DEF Ends
<1>4. PICK g \in Nat \ {0}, W \in Nat \ {0} : g = 2 ^ GroupBits /\ W = 2 ^ U32Bits
  BY Widths, Powers, Shifts
<1>5. ASSUME NEW i \in 1 .. m
      PROVE  ByteAt(data, offset + i - 1) % g \in 0 .. g - 1 /\ ByteAt(data, offset + i - 1) % g \in Nat
  <2>1. offset + i - 1 \in Nat /\ offset + i - 1 < Bytes(data)
    BY <1>3, BytesAre
  <2>2. ByteAt(data, offset + i - 1) \in Int
    BY ONLY data \in Seq(Bit), <2>1, ByteAtIs
  <2>3. ByteAt(data, offset + i - 1) % g \in 0 .. g - 1
    BY ONLY <2>2, g \in Nat \ {0}, Division
  <2>4. 0 .. g - 1 \subseteq Nat
    BY ONLY g \in Nat \ {0}
  <2>5. QED
    BY ONLY <2>3, <2>4
<1>6. ASSUME NEW i \in 0 .. V
      PROVE  b * i \in Exponents /\ 2 ^ (b * i) \in Nat \ {0}
  BY <1>1, Shifts, Powers
<1>7. PICK a \in [1 .. m -> Nat] : \A i \in 1 .. m : a[i] = ByteAt(data, offset + i - 1) % g
  <2>1. \A i \in 1 .. m : ByteAt(data, offset + i - 1) % g \in Nat
    BY <1>5
  <2>2. [i \in 1 .. m |-> ByteAt(data, offset + i - 1) % g] \in [1 .. m -> Nat]
    BY ONLY <2>1
  <2>3. QED
    BY ONLY <2>2
<1>8. PICK p \in [0 .. V -> Nat \ {0}] : \A i \in 0 .. V : p[i] = 2 ^ (b * i)
  <2>1. [i \in 0 .. V |-> 2 ^ (b * i)] \in [0 .. V -> Nat \ {0}]
    BY <1>6
  <2>2. QED
    BY <2>1
<1>9. PICK numbers : numbers = Shifted(data, offset)
  OBVIOUS
<1>10. numbers = [i \in 1 .. m |-> a[i] * p[i - 1]]
  <2>1. numbers = [i \in 1 .. m |-> (ByteAt(data, offset + i - 1) % g) * 2 ^ (b * (i - 1))]
    BY <1>1, <1>3, <1>4, <1>9 DEF Shifted
  <2>2. ASSUME NEW i \in 1 .. m
        PROVE  a[i] = ByteAt(data, offset + i - 1) % g /\ p[i - 1] = 2 ^ (b * (i - 1))
    BY <1>7, <1>8
  <2>3. QED
    BY ONLY <2>1, <2>2
<1>11. numbers \in Seq(Int) /\ Len(numbers) = m /\ DOMAIN numbers = 1 .. m
  <2>1. ASSUME NEW i \in 1 .. m
        PROVE  a[i] * p[i - 1] \in Int
    <3>1. a[i] \in Nat /\ p[i - 1] \in Nat
      BY <1>3
    <3>2. QED
      BY ONLY <3>1
  <2>2. QED
    BY ONLY <1>10, <2>1, m \in 1 .. V
<1>12. PICK C \in Nat \ {0} : W = p[V - 1] * C
  <2>1. b * (V - 1) \in 0 .. U32Bits /\ U32Bits \in Exponents
    BY <1>1, Widths, Powers
  <2>2. U32Bits - b * (V - 1) \in Exponents /\ 2 ^ U32Bits = 2 ^ (b * (V - 1)) * 2 ^ (U32Bits - b * (V - 1))
    BY ONLY <2>1, Powers
  <2>3. p[V - 1] = 2 ^ (b * (V - 1))
    BY <1>8
  <2>4. 2 ^ (U32Bits - b * (V - 1)) \in Nat \ {0}
    BY ONLY <2>2, Powers
  <2>5. QED
    BY ONLY <1>4, <2>2, <2>3, <2>4
<1>13. ASSUME NEW i \in 1 .. V
       PROVE  p[i] = g * p[i - 1]
  <2>1. b * i \in Exponents /\ b * i - b = b * (i - 1) /\ b \in 0 .. b * i
    <3>1. b * 1 <= b * i
      BY ONLY b \in Nat \ {0}, i \in 1 .. V, V \in Nat \ {0}, ProductGrows
    <3>2. b * i - b = b * (i - 1) /\ b * 1 = b
      OBVIOUS
    <3>3. b * i \in Exponents
      <4>1. i \in 0 .. V
        OBVIOUS
      <4>2. QED
        BY ONLY <1>6, <4>1
    <3>4. QED
      BY ONLY <3>1, <3>2, <3>3, b \in Nat \ {0}, i \in 1 .. V, V \in Nat \ {0}
  <2>2. 2 ^ (b * i) = 2 ^ b * 2 ^ (b * i - b)
    BY ONLY <2>1, Powers
  <2>3. p[i] = 2 ^ (b * i) /\ p[i - 1] = 2 ^ (b * (i - 1))
    BY <1>8
  <2>4. QED
    BY ONLY <1>1, <1>4, <2>1, <2>2, <2>3
<1>14. ASSUME NEW i \in 0 .. V - 1
       PROVE  p[i] <= W
  <2>1. b * i <= b * (V - 1) /\ b * 0 <= b * i
    BY ONLY b \in Nat \ {0}, i \in 0 .. V - 1, V \in Nat \ {0}, ProductGrows
  <2>2. b * i \in 0 .. U32Bits /\ U32Bits \in Exponents
    <3>1. PICK y \in Int, z \in Int : y = b * i /\ z = b * (V - 1)
      OBVIOUS
    <3>2. z < U32Bits /\ U32Bits \in Nat /\ U32Bits \in Exponents
      BY ONLY <1>1, <3>1, Widths, Powers
    <3>3. b * 0 = 0
      OBVIOUS
    <3>4. y <= z /\ 0 <= y
      BY ONLY <2>1, <3>1, <3>3
    <3>5. y \in 0 .. U32Bits
      BY ONLY <3>2, <3>4, y \in Int, z \in Int
    <3>6. QED
      BY ONLY <3>1, <3>2, <3>5
  <2>3. 2 ^ (b * i) <= 2 ^ U32Bits
    BY ONLY <2>2, PowersGrow
  <2>4. p[i] = 2 ^ (b * i)
    BY <1>8
  <2>5. QED
    BY ONLY <1>4, <2>3, <2>4
<1>15. p[0] = 1
  <2>1. p[0] = 2 ^ (b * 0) /\ b * 0 = 0
    BY <1>8
  <2>2. 2 ^ 0 = 1
    OBVIOUS
  <2>3. QED
    BY ONLY <2>1, <2>2
<1>16. \A i \in 1 .. m : a[i] < g /\ numbers[i] = a[i] * p[i - 1]
  BY ONLY <1>5, <1>7, <1>10, g \in Nat \ {0}
<1>17. InGroups(numbers, a, p, g, V, W, C)
  BY ONLY <1>11, <1>12, <1>13, <1>14, <1>15, <1>16 DEF InGroups
<1>18. Total(numbers) \in Nat /\ Total([i \in DOMAIN numbers |-> numbers[i] % W]) = Total(numbers) % W
  <2>1. a \in [1 .. Len(numbers) -> Nat] /\ Len(numbers) \in 1 .. V
    BY <1>11
  <2>2. QED
    BY ONLY <1>11, <1>17, <2>1, V \in Nat \ {0}, g \in Nat \ {0}, W \in Nat \ {0}, C \in Nat \ {0},
            p \in [0 .. V -> Nat \ {0}], SumsOfGroups
<1>19. InU32(numbers) = [i \in DOMAIN numbers |-> numbers[i] % W]
  BY ONLY <1>4 DEF InU32
<1>20. QED
  BY ONLY <1>1, <1>3, <1>4, <1>9, <1>18, <1>19

(* What VarintReadersAgree says of one place in the data. *)
AgreeAt(data, offset) ==
  LET byBits == ReadVaru32([data |-> data, pos |-> ByteBits * offset])
      bySection == SectionVaru32(data, offset)
      bySession == SessionVaru32(data, offset)
      number == Total(Shifted(data, offset))
  IN IF Ends(data, offset) = {} THEN ~(byBits.ok \/ bySection.ok \/ bySession.ok)
     ELSE number < 2 ^ U32Bits =>
            /\ byBits.ok /\ byBits.val.value = number
            /\ bySection.ok /\ bySection.val.value = number
            /\ bySession = bySection
            /\ byBits.val.reader.pos = ByteBits * bySection.val.next

(* The three readers of varints agree on any bits. *)
LEMMA VarintsAgree ==
  ASSUME NEW data \in Seq(Bit), NEW offset \in Nat
  PROVE  AgreeAt(data, offset)
<1>1. PICK p \in Nat : p = ByteBits * offset
  BY Widths, ProductNat
<1>2. p \div ByteBits = offset /\ Misaligned(p) = None
  <2>1. ByteBits \in Nat \ {0} /\ 0 \in 0 .. ByteBits - 1
    BY Widths
  <2>2. (ByteBits * offset + 0) \div ByteBits = offset /\ (ByteBits * offset + 0) % ByteBits = 0
    BY ONLY <2>1, offset \in Nat, DivisionIs
  <2>3. p + 0 = p
    OBVIOUS
  <2>4. QED
    BY ONLY <1>1, <2>2, <2>3 DEF Misaligned
<1>3. PICK r : r = [data |-> data, pos |-> ByteBits * offset]
  OBVIOUS
<1>4. r.data = data /\ r.pos = p /\ [r EXCEPT !.pos = 0].pos = 0
  BY ONLY <1>1, <1>3
<1>5. SUFFICES /\ Ends(data, offset) = {} =>
                    ~(ReadVaru32(r).ok \/ SectionVaru32(data, offset).ok \/ SessionVaru32(data, offset).ok)
               /\ Ends(data, offset) # {} /\ Total(Shifted(data, offset)) < 2 ^ U32Bits =>
                    /\ ReadVaru32(r).ok /\ ReadVaru32(r).val.value = Total(Shifted(data, offset))
                    /\ SectionVaru32(data, offset).ok
                    /\ SectionVaru32(data, offset).val.value = Total(Shifted(data, offset))
                    /\ SessionVaru32(data, offset) = SectionVaru32(data, offset)
                    /\ ReadVaru32(r).val.reader.pos = ByteBits * SectionVaru32(data, offset).val.next
  BY ONLY <1>3, <1>5 DEF AgreeAt
<1>6. Then(Misaligned(r.pos), VarintError(r.data, r.pos \div ByteBits, "UnexpectedEof"))
        = VarintError(data, offset, "UnexpectedEof")
  BY ONLY <1>2, <1>4 DEF Then
<1>7. CASE Ends(data, offset) = {}
  <2>1. ASSUME NEW e, e # None
        PROVE  VarintError(data, offset, e) # None
    BY <1>7, <2>1 DEF VarintError, None
  <2>2. "Truncated" # None /\ "UnexpectedEof" # None
    BY DEF None
  <2>3. VarintError(data, offset, "Truncated") # None /\ VarintError(data, offset, "UnexpectedEof") # None
    BY <2>1, <2>2
  <2>4. /\ SectionVaru32(data, offset) = Err(VarintError(data, offset, "Truncated"))
        /\ SessionVaru32(data, offset) = Err(VarintError(data, offset, "Truncated"))
    BY ONLY <2>3 DEF SectionVaru32, SessionVaru32, Checked
  <2>5. ReadVaru32(r) = Err(VarintError(data, offset, "UnexpectedEof"))
    BY ONLY <1>6, <2>3 DEF ReadVaru32, Checked
  <2>6. \A e : Err(e).ok = FALSE
    BY DEF Err
  <2>7. QED
    BY ONLY <1>7, <2>4, <2>5, <2>6
<1>8. CASE Ends(data, offset) # {} /\ Total(Shifted(data, offset)) < 2 ^ U32Bits
  <2>1. PICK m \in Nat : m = Min(Ends(data, offset))
    <3>1. Min(Ends(data, offset)) \in 1 .. VarintBytes /\ VarintBytes \in Nat
      BY <1>8, VarintSums, Widths
    <3>2. Min(Ends(data, offset)) \in Nat
      BY ONLY <3>1
    <3>3. QED
      BY ONLY <3>2
  <2>2. PICK t : t = Total(InU32(Shifted(data, offset))) /\ t = Total(Shifted(data, offset)) % 2 ^ U32Bits
                 /\ t = Total(Shifted(data, offset))
    <3>1. PICK number \in Nat, W \in Nat \ {0} : number = Total(Shifted(data, offset)) /\ W = 2 ^ U32Bits
      <4>1. Total(Shifted(data, offset)) \in Nat
        BY <1>8, VarintSums
      <4>2. 2 ^ U32Bits \in Nat \ {0}
        BY Widths, Powers
      <4>3. QED
        BY ONLY <4>1, <4>2
    <3>2. number \in 0 .. W - 1
      BY ONLY <1>8, <3>1, number \in Nat, W \in Nat \ {0}
    <3>3. number % W = number
      BY ONLY <3>2, W \in Nat \ {0}, SmallMod
    <3>4. QED
      BY <1>8, <3>1, <3>3, VarintSums
  <2>3. \A e : VarintError(data, offset, e) = None
    BY <1>8 DEF VarintError
  <2>4. SectionVaru32(data, offset) = Ok([value |-> t, next |-> offset + m])
    BY ONLY <2>1, <2>2, <2>3 DEF SectionVaru32, Checked, VarintRead
  <2>5. SessionVaru32(data, offset) = Ok([value |-> t, next |-> offset + m])
    BY ONLY <2>1, <2>2, <2>3 DEF SessionVaru32, Checked, VarintRead
  <2>6. ReadVaru32(r) = Ok(Took(r, t, ByteBits * m))
    BY ONLY <1>2, <1>4, <1>6, <2>1, <2>2, <2>3 DEF ReadVaru32, Checked
  <2>7. p + ByteBits * m = ByteBits * (offset + m)
    BY <1>1, Widths
  <2>8. Took(r, t, ByteBits * m).reader.pos = p + ByteBits * m /\ Took(r, t, ByteBits * m).value = t
    BY ONLY <1>1, <1>3, <1>4 DEF Took
  <2>9. QED
    BY ONLY <1>8, <2>2, <2>4, <2>5, <2>6, <2>7, <2>8 DEF Ok
<1>9. QED
  BY ONLY <1>7, <1>8

-----------------------------------------------------------------------------
(* The writers. *)

WholeBytes(bits) == \E k \in Nat : Len(bits) = ByteBits * k

IsWriter(w) ==
  /\ w = [buf |-> w.buf, pos |-> w.pos, grows |-> w.grows]
  /\ w.buf \in Seq(Bit) /\ WholeBytes(w.buf)
  /\ w.pos \in 0 .. Len(w.buf)
  /\ w.grows \in BOOLEAN

(* What a write leaves: a writer, and a fixed buffer of the size it had. *)
Wrote(w, result) ==
  result.ok => /\ IsWriter(result.val)
               /\ result.val.grows = w.grows
               /\ ~w.grows => Len(result.val.buf) = Len(w.buf)

LEMMA WholeBytesAre ==
  ASSUME NEW T, NEW bits \in Seq(T), NEW k \in Nat, Len(bits) = ByteBits * k
  PROVE  Bytes(bits) = k /\ WholeBytes(bits)
<1>1. ByteBits \in Nat \ {0} /\ 0 \in 0 .. ByteBits - 1
  BY Widths
<1>2. (ByteBits * k + 0) \div ByteBits = k
  BY ONLY <1>1, k \in Nat, DivisionIs
<1>3. Len(bits) + 0 = Len(bits)
  OBVIOUS
<1>4. QED
  BY ONLY <1>2, <1>3, k \in Nat, Len(bits) = ByteBits * k DEF Bytes, WholeBytes

LEMMA OverwriteIs ==
  ASSUME NEW T, NEW buf \in Seq(T), NEW at \in Int, NEW bits \in Seq(T)
  PROVE  Overwrite(buf, at, bits) \in Seq(T) /\ Len(Overwrite(buf, at, bits)) = Len(buf)
<1>1. PICK N \in Nat : N = Len(buf) /\ DOMAIN buf = 1 .. N
  OBVIOUS
<1>2. \A i \in 1 .. N : (IF i - at \in DOMAIN bits THEN bits[i - at] ELSE buf[i]) \in T
  BY <1>1
<1>3. Overwrite(buf, at, bits) = [i \in 1 .. N |-> IF i - at \in DOMAIN bits THEN bits[i - at] ELSE buf[i]]
  BY <1>1 DEF Overwrite
<1>4. QED
  BY ONLY <1>1, <1>2, <1>3, N \in Nat

LEMMA ZerosAre ==
  ASSUME NEW n \in Nat
  PROVE  Zeros(n) \in Seq(Bit) /\ Len(Zeros(n)) = n
BY DEF Zeros, Bit

LEMMA WriteContents ==
  ASSUME NEW w, IsWriter(w), NEW bits \in Seq(Bit)
  PROVE  /\ Wrote(w, Write(w, bits))
         /\ w.grows => Write(w, bits).ok
         /\ Write(w, bits).ok =>
              /\ Write(w, bits).val.pos = w.pos + Len(bits)
              /\ \A i \in 1 .. w.pos + Len(bits) :
                   Write(w, bits).val.buf[i] = IF i <= w.pos THEN w.buf[i] ELSE bits[i - w.pos]
<1>1. PICK n \in Nat : n = Len(bits)
  OBVIOUS
<1>2. PICK buf \in Seq(Bit), pos \in Nat, grows \in BOOLEAN :
        w = [buf |-> buf, pos |-> pos, grows |-> grows]
  BY DEF IsWriter
<1>3. PICK k \in Nat : Len(buf) = ByteBits * k
  BY <1>2 DEF IsWriter, WholeBytes
<1>4. PICK R \in Nat : R = RoundUp(pos + n)
  <2>1. pos + n \in Nat
    OBVIOUS
  <2>2. RoundUp(pos + n) \in Nat
    BY ONLY <2>1, RoundUpIs
  <2>3. QED
    BY ONLY <2>2
<1>5. /\ pos + n <= R
      /\ \E j \in Nat : R = ByteBits * j
      /\ pos + n <= Len(buf) => R <= Len(buf)
  <2>1. pos + n \in Nat
    OBVIOUS
  <2>2. QED
    BY ONLY <1>3, <1>4, <2>1, k \in Nat, RoundUpIs
<1>6. PICK fit \in Seq(Bit) :
        /\ WithCapacity(w, n) = [buf |-> fit, pos |-> pos, grows |-> grows]
        /\ WholeBytes(fit) /\ pos + n <= Len(fit)
        /\ pos + n <= Len(buf) => Len(fit) = Len(buf)
        /\ \A i \in 1 .. Len(buf) : fit[i] = buf[i]
  <2>1. CASE R > Len(buf)
    <3>1. PICK more \in Seq(Bit) : more = Zeros(R - Len(buf)) /\ Len(more) = R - Len(buf)
      <4>1. R - Len(buf) \in Nat
        BY <2>1
      <4>2. Zeros(R - Len(buf)) \in Seq(Bit) /\ Len(Zeros(R - Len(buf))) = R - Len(buf)
        BY ONLY <4>1, ZerosAre
      <4>3. QED
        BY ONLY <4>2
    <3>2. PICK fit \in Seq(Bit) : fit = buf \o Zeros(R - Len(buf)) /\ Len(fit) = R
                               /\ \A i \in 1 .. Len(buf) : fit[i] = buf[i]
      <4>1. buf \o more \in Seq(Bit) /\ Len(buf \o more) = Len(buf) + Len(more)
            /\ \A i \in 1 .. Len(buf) : (buf \o more)[i] = buf[i]
        BY ONLY buf \in Seq(Bit), more \in Seq(Bit)
      <4>2. Len(buf) + Len(more) = R
        BY ONLY <3>1, R \in Nat, buf \in Seq(Bit)
      <4>3. QED
        BY ONLY <3>1, <4>1, <4>2
    <3>3. WithCapacity(w, n) = [buf |-> fit, pos |-> pos, grows |-> grows]
      BY ONLY <1>2, <1>4, <2>1, <3>2 DEF WithCapacity
    <3>4. WholeBytes(fit)
      BY ONLY <1>5, <3>2 DEF WholeBytes
    <3>5. pos + n <= Len(fit) /\ ~(pos + n <= Len(buf))
      BY ONLY <1>5, <2>1, <3>2, pos \in Nat, n \in Nat, R \in Nat, buf \in Seq(Bit)
    <3>6. QED
      BY ONLY <3>2, <3>3, <3>4, <3>5, fit \in Seq(Bit)
  <2>2. CASE ~(R > Len(buf))
    <3>1. WithCapacity(w, n) = [buf |-> buf, pos |-> pos, grows |-> grows]
      BY ONLY <1>2, <1>4, <2>2 DEF WithCapacity
    <3>2. WholeBytes(buf)
      BY ONLY <1>3, k \in Nat DEF WholeBytes
    <3>3. pos + n <= Len(buf)
      BY ONLY <1>5, <2>2, pos \in Nat, n \in Nat, R \in Nat, buf \in Seq(Bit)
    <3>4. QED
      BY ONLY <3>1, <3>2, <3>3, buf \in Seq(Bit)
  <2>3. QED
    BY <2>1, <2>2
<1>7. PICK over \in Seq(Bit) : over = Overwrite(fit, pos, bits) /\ Len(over) = Len(fit)
  BY ONLY fit \in Seq(Bit), bits \in Seq(Bit), pos \in Nat, OverwriteIs
<1>8. PICK put : put = [buf |-> over, pos |-> pos + n, grows |-> grows]
  OBVIOUS
<1>9. Put(WithCapacity(w, n), bits) = put
  <2>1. PICK x : x = [buf |-> fit, pos |-> pos, grows |-> grows]
    OBVIOUS
  <2>2. Put(x, bits) = [x EXCEPT !.buf = Overwrite(fit, pos, bits), !.pos = pos + n]
    BY ONLY <1>1, <2>1 DEF Put
  <2>3. [x EXCEPT !.buf = over, !.pos = pos + n] = [buf |-> over, pos |-> pos + n, grows |-> grows]
    <3>1. PICK y : y = [x EXCEPT !.buf = over]
      OBVIOUS
    <3>2. y = [buf |-> over, pos |-> pos, grows |-> grows]
      BY ONLY <2>1, <3>1
    <3>3. [y EXCEPT !.pos = pos + n] = [buf |-> over, pos |-> pos + n, grows |-> grows]
      <4>1. ASSUME NEW p, NEW e
            PROVE  [[buf |-> over, pos |-> p, grows |-> grows] EXCEPT !.pos = e]
                     = [buf |-> over, pos |-> e, grows |-> grows]
        OBVIOUS
      <4>2. QED
        BY ONLY <3>2, <4>1
    <3>4. [x EXCEPT !.buf = over, !.pos = pos + n] = [y EXCEPT !.pos = pos + n]
      BY ONLY <3>1
    <3>5. QED
      BY ONLY <3>3, <3>4
  <2>4. QED
    BY ONLY <1>6, <1>7, <1>8, <2>1, <2>2, <2>3
<1>10. IsWriter(put)
  <2>1. put.buf = over /\ put.pos = pos + n /\ put.grows = grows /\ put = [buf |-> put.buf, pos |-> put.pos, grows |-> put.grows]
    BY ONLY <1>8
  <2>2. WholeBytes(over)
    BY ONLY <1>6, <1>7 DEF WholeBytes
  <2>3. pos + n \in 0 .. Len(over)
    BY ONLY <1>6, <1>7, pos \in Nat, n \in Nat, over \in Seq(Bit)
  <2>4. QED
    BY ONLY <2>1, <2>2, <2>3, over \in Seq(Bit), grows \in BOOLEAN DEF IsWriter
<1>11. Write(w, bits) = Checked(NoRoom(w, n), put)
  BY ONLY <1>1, <1>9 DEF Write
<1>12. /\ Write(w, bits).ok => Write(w, bits).val = put /\ NoRoom(w, n) = None
       /\ ~Write(w, bits).ok => NoRoom(w, n) # None
  BY ONLY <1>11 DEF Checked, Ok, Err
<1>13. /\ grows => NoRoom(w, n) = None
       /\ ~grows /\ NoRoom(w, n) = None => pos + n <= Len(buf)
  <2>1. w.grows = grows /\ w.pos = pos /\ w.buf = buf
    BY ONLY <1>2
  <2>2. QED
    BY ONLY <2>1, pos \in Nat, n \in Nat, buf \in Seq(Bit), grows \in BOOLEAN DEF NoRoom, None
<1>14. /\ w.grows = grows /\ put.grows = grows /\ put.pos = pos + n /\ w.pos = pos
       /\ Len(w.buf) = Len(buf) /\ Len(put.buf) = Len(fit)
  BY ONLY <1>2, <1>7, <1>8
<1>15. ASSUME NEW i \in 1 .. pos + n
       PROVE  over[i] = IF i <= pos THEN buf[i] ELSE bits[i - pos]
  <2>1. i \in 1 .. Len(fit) /\ DOMAIN fit = 1 .. Len(fit) /\ DOMAIN bits = 1 .. n
    BY ONLY <1>1, <1>6, fit \in Seq(Bit), bits \in Seq(Bit), pos \in Nat, n \in Nat, i \in 1 .. pos + n
  <2>2. over[i] = IF i - pos \in 1 .. n THEN bits[i - pos] ELSE fit[i]
    BY ONLY <1>7, <2>1 DEF Overwrite
  <2>3. i - pos \in 1 .. n <=> ~(i <= pos)
    BY ONLY pos \in Nat, n \in Nat, i \in 1 .. pos + n
  <2>4. i <= pos => i \in 1 .. Len(buf)
    <3>1. pos <= Len(buf)
      BY <1>2 DEF IsWriter
    <3>2. QED
      BY ONLY <3>1, pos \in Nat, n \in Nat, i \in 1 .. pos + n, buf \in Seq(Bit)
  <2>5. QED
    BY ONLY <1>6, <2>2, <2>3, <2>4
<1>16. w.buf = buf /\ put.buf = over
  BY ONLY <1>2, <1>8
<1>17. QED
  BY ONLY <1>1, <1>6, <1>10, <1>12, <1>13, <1>14, <1>15, <1>16 DEF Wrote

LEMMA WriteIs ==
  ASSUME NEW w, IsWriter(w), NEW bits \in Seq(Bit)
  PROVE  /\ Wrote(w, Write(w, bits))
         /\ w.grows => Write(w, bits).ok
         /\ Write(w, bits).ok => Write(w, bits).val.pos = w.pos + Len(bits)
BY WriteContents

LEMMA WriteBitsIs ==
  ASSUME NEW w, IsWriter(w), NEW v \in Int, NEW n \in Nat
  PROVE  Wrote(w, WriteBits(w, v, n))
<1>1. CASE n > U64Bits
  BY <1>1 DEF WriteBits, Wrote, Err
<1>2. CASE n <= U64Bits
  <2>1. n \in Exponents
    BY <1>2, Widths, Powers
  <2>2. Bits(v, n) \in Seq(Bit)
    BY ONLY <2>1, v \in Int, BitsAre
  <2>3. Wrote(w, Write(w, Bits(v, n)))
    BY ONLY <2>2, IsWriter(w), WriteIs
  <2>4. WriteBits(w, v, n) \in {Err("ValueOutOfRange"), Write(w, Bits(v, n))}
    BY <1>2, Widths DEF WriteBits
  <2>5. Wrote(w, Err("ValueOutOfRange"))
    BY DEF Wrote, Err
  <2>6. QED
    BY ONLY <2>3, <2>4, <2>5
<1>3. QED
  BY <1>1, <1>2, Widths

LEMMA WriteAlignedIs ==
  ASSUME NEW w, IsWriter(w), NEW bytes \in Seq(Bit)
  PROVE  Wrote(w, WriteAligned(w, bytes))
<1>1. Wrote(w, Write(w, bytes))
  BY WriteIs
<1>2. Wrote(w, Err(Misaligned(w.pos)))
  BY DEF Wrote, Err
<1>3. QED
  BY ONLY <1>1, <1>2 DEF WriteAligned

LEMMA AlignToByteIs ==
  ASSUME NEW w, IsWriter(w)
  PROVE  /\ Wrote(w, AlignToByte(w))
         /\ AlignToByte(w).ok => WholeBytes(SubSeq(AlignToByte(w).val.buf, 1, AlignToByte(w).val.pos))
<1>1. PICK pos \in Nat : pos = w.pos
  BY DEF IsWriter
<1>2. PICK n \in Nat, k \in Nat : n = Padding(pos) /\ pos + n = ByteBits * k
  <2>1. RoundUp(pos) \in Nat /\ pos <= RoundUp(pos) /\ \E k \in Nat : RoundUp(pos) = ByteBits * k
    BY RoundUpIs
  <2>2. Padding(pos) \in Nat /\ pos + Padding(pos) = RoundUp(pos)
    BY ONLY <2>1, pos \in Nat DEF Padding
  <2>3. QED
    BY ONLY <2>1, <2>2
<1>3. Zeros(n) \in Seq(Bit) /\ Len(Zeros(n)) = n
  BY ZerosAre
<1>4. AlignToByte(w) = Write(w, Zeros(n))
  BY <1>1, <1>2 DEF AlignToByte
<1>5. Wrote(w, AlignToByte(w)) /\ (AlignToByte(w).ok => AlignToByte(w).val.pos = pos + n)
  BY ONLY <1>1, <1>3, <1>4, IsWriter(w), WriteIs
<1>6. ASSUME AlignToByte(w).ok
      PROVE  WholeBytes(SubSeq(AlignToByte(w).val.buf, 1, AlignToByte(w).val.pos))
  <2>1. PICK x : x = AlignToByte(w).val
    OBVIOUS
  <2>2. IsWriter(x) /\ x.pos = ByteBits * k
    BY ONLY <1>2, <1>5, <1>6, <2>1 DEF Wrote
  <2>3. Len(SubSeq(x.buf, 1, x.pos)) = x.pos
    BY ONLY <2>2 DEF IsWriter
  <2>4. QED
    BY ONLY <2>1, <2>2, <2>3, k \in Nat DEF WholeBytes
<1>7. QED
  BY <1>5, <1>6

-----------------------------------------------------------------------------
(* The values. *)

LEMMA LeastIn ==
  ASSUME NEW s, s \subseteq Nat, s # {}
  PROVE  Min(s) \in s
<1>1. PICK m \in s : \A n \in s : m <= n
  BY LeastNatural
<1>2. QED
  BY <1>1 DEF Min

(* One write after another. *)
LEMMA WroteThen ==
  ASSUME NEW w, NEW first, Wrote(w, first), NEW second, first.ok => Wrote(first.val, second)
  PROVE  Wrote(w, IF first.ok THEN second ELSE first)
BY DEF Wrote

LEMMA WroteNothing ==
  ASSUME NEW w, NEW e
  PROVE  Wrote(w, Err(e))
BY DEF Wrote, Err

(* The widths of the numbers: a u32 fits a varint. *)
LEMMA NumberWidths ==
  /\ 2 ^ U32Bits \in Nat \ {0} /\ 2 ^ (U32Bits - 1) \in Nat \ {0}
  /\ 2 ^ U32Bits = 2 * 2 ^ (U32Bits - 1)
  /\ 2 ^ U64Bits \in Nat \ {0} /\ 2 ^ (U64Bits - 1) \in Nat \ {0}
  /\ 2 ^ U64Bits = 2 * 2 ^ (U64Bits - 1)
  /\ 2 ^ (GroupBits * VarintBytes) \in Nat
  /\ 2 ^ U32Bits <= 2 ^ (GroupBits * VarintBytes)
  /\ 2 ^ U32Bits <= 2 ^ U64Bits
<1>1. U32Bits \in Exponents /\ U32Bits # 0 /\ U64Bits \in Exponents /\ U64Bits # 0
  BY Widths, Powers
<1>2. U32Bits - 1 \in Exponents /\ 2 ^ U32Bits = 2 * 2 ^ (U32Bits - 1)
  BY ONLY <1>1, PowerNext
<1>3. U64Bits - 1 \in Exponents /\ 2 ^ U64Bits = 2 * 2 ^ (U64Bits - 1)
  BY ONLY <1>1, PowerNext
<1>4. /\ GroupBits * VarintBytes \in Exponents /\ U32Bits \in 0 .. GroupBits * VarintBytes
      /\ U32Bits \in 0 .. U64Bits
  BY Widths, Powers
<1>5. 2 ^ U32Bits <= 2 ^ (GroupBits * VarintBytes) /\ 2 ^ U32Bits <= 2 ^ U64Bits
  BY ONLY <1>1, <1>4, PowersGrow
<1>6. \A n \in Exponents : 2 ^ n \in Nat \ {0}
  BY Powers
<1>7. QED
  BY ONLY <1>1, <1>2, <1>3, <1>4, <1>5, <1>6

LEMMA VarintTyped ==
  ASSUME NEW v \in 0 .. 2 ^ U32Bits - 1
  PROVE  Varint(v) \in Seq(Bit)
<1>1. v \in 0 .. 2 ^ (GroupBits * VarintBytes) - 1
  BY NumberWidths
<1>2. QED
  BY ONLY <1>1, VarintIs

LEMMA WriteVaruIs ==
  ASSUME NEW w, IsWriter(w), NEW v \in 0 .. 2 ^ U32Bits - 1
  PROVE  Wrote(w, WriteVaru32(w, v))
BY VarintTyped, WriteAlignedIs DEF WriteVaru32

LEMMA ZigzagIs ==
  ASSUME NEW v \in -(2 ^ (U32Bits - 1)) .. 2 ^ (U32Bits - 1) - 1
  PROVE  Zigzag(v) \in 0 .. 2 ^ U32Bits - 1
<1>1. PICK H \in Nat \ {0} : H = 2 ^ (U32Bits - 1) /\ 2 ^ U32Bits = 2 * H
  BY NumberWidths
<1>2. v \in -H .. H - 1
  BY <1>1
<1>3. Zigzag(v) \in 0 .. 2 * H - 1
  BY ONLY <1>2, H \in Nat \ {0} DEF Zigzag
<1>4. QED
  BY ONLY <1>1, <1>3

(* Arithmetic on i64. *)
LEMMA I64Is ==
  ASSUME NEW traps, NEW x \in Int
  PROVE  /\ AsI64(x) \in I64Min .. I64Max
         /\ AsU64(x) \in 0 .. 2 ^ U64Bits - 1 /\ AsU64(x) \in Int
         /\ I64(traps, x) \in {Err("panic"), Ok(AsI64(x))}
         /\ x \in I64Min .. I64Max => AsI64(x) = x /\ I64(traps, x) = Ok(x)
<1>1. PICK H \in Nat \ {0}, W \in Nat \ {0} : H = 2 ^ (U64Bits - 1) /\ W = 2 ^ U64Bits /\ W = 2 * H
  BY NumberWidths
<1>2. I64Min = -H /\ I64Max = H - 1
  BY <1>1 DEF I64Min, I64Max
<1>3. x % W \in 0 .. W - 1
  BY ONLY W \in Nat \ {0}, x \in Int, Division
<1>4. PICK y \in Int : y = x + H
  OBVIOUS
<1>5. y % W \in 0 .. W - 1
  BY ONLY W \in Nat \ {0}, y \in Int, Division
<1>6. AsI64(x) = (y % W) - H
  <2>1. x - I64Min = y
    BY <1>2, <1>4
  <2>2. AsI64(x) = (y % W) + I64Min
    BY ONLY <1>1, <2>1 DEF AsI64
  <2>3. QED
    BY ONLY <1>2, <1>5, <2>2, H \in Nat \ {0}, W \in Nat \ {0}
<1>7. AsI64(x) \in I64Min .. I64Max
  BY ONLY <1>1, <1>2, <1>5, <1>6, H \in Nat \ {0}, W \in Nat \ {0}
<1>8. ASSUME x \in I64Min .. I64Max
      PROVE  AsI64(x) = x
  <2>1. y \in 0 .. W - 1
    BY ONLY <1>1, <1>2, <1>4, <1>8, H \in Nat \ {0}, W \in Nat \ {0}, x \in Int
  <2>2. y % W = y
    BY ONLY <2>1, W \in Nat \ {0}, SmallMod
  <2>3. QED
    BY ONLY <1>4, <1>6, <2>2, x \in Int, H \in Nat \ {0}
<1>9. I64(traps, x) \in {Err("panic"), Ok(AsI64(x))} /\ (x \in I64Min .. I64Max => I64(traps, x) = Ok(AsI64(x)))
  BY ONLY TRUE DEF I64
<1>10. AsU64(x) \in 0 .. 2 ^ U64Bits - 1 /\ AsU64(x) \in Int
  <2>1. AsU64(x) = x % W
    BY ONLY <1>1 DEF AsU64
  <2>2. x % W \in Int
    BY ONLY <1>3, W \in Nat \ {0}
  <2>3. QED
    BY ONLY <1>1, <1>3, <2>1, <2>2
<1>11. QED
  BY ONLY <1>7, <1>8, <1>9, <1>10

LEMMA RequiredBitsAre ==
  ASSUME NEW range \in 0 .. 2 ^ U64Bits - 1
  PROVE  RequiredBits(range) \in Nat
<1>1. PICK S : S = {n \in 0 .. U64Bits : range < 2 ^ n}
  OBVIOUS
<1>2. S \subseteq Nat /\ S # {}
  <2>1. U64Bits \in Nat /\ range < 2 ^ U64Bits
    BY Widths, NumberWidths
  <2>2. U64Bits \in S
    BY ONLY <1>1, <2>1
  <2>3. S \subseteq Nat
    <3>1. S \subseteq 0 .. U64Bits
      BY ONLY <1>1
    <3>2. QED
      BY ONLY <2>1, <3>1
  <2>4. QED
    BY ONLY <2>2, <2>3
<1>3. Min(S) \in S
  BY ONLY <1>2, LeastIn
<1>4. QED
  BY ONLY <1>1, <1>2, <1>3 DEF RequiredBits

LEMMA WriteUIntIs ==
  ASSUME NEW w, IsWriter(w), NEW bits \in Nat, NEW v \in Int
  PROVE  Wrote(w, WriteUInt(w, bits, v))
<1>1. Wrote(w, WriteBits(w, v, bits))
  BY WriteBitsIs
<1>2. WriteUInt(w, bits, v) \in {Err("UnsignedOutOfRange"), WriteBits(w, v, bits)}
  BY DEF WriteUInt, AndThen, Checked, OutOfRange, Ok, Err, None
<1>3. QED
  BY ONLY <1>1, <1>2, WroteNothing

LEMMA WriteSIntIs ==
  ASSUME NEW w, IsWriter(w), NEW bits \in Nat, bits <= U64Bits, NEW v \in Int
  PROVE  Wrote(w, WriteSInt(w, bits, v))
<1>1. AsU64(v) % 2 ^ bits \in Int
  <2>1. 2 ^ bits \in Nat \ {0}
    <3>1. bits \in Exponents
      BY Powers, Widths
    <3>2. QED
      BY ONLY <3>1, Powers
  <2>2. AsU64(v) \in Int
    BY ONLY v \in Int, I64Is
  <2>3. AsU64(v) % 2 ^ bits \in 0 .. 2 ^ bits - 1
    BY ONLY <2>1, <2>2, Division
  <2>4. QED
    BY ONLY <2>1, <2>3
<1>2. Wrote(w, WriteBits(w, AsU64(v) % 2 ^ bits, bits))
  BY <1>1, WriteBitsIs
<1>3. WriteSInt(w, bits, v) \in {Err("SignedOutOfRange"), WriteBits(w, AsU64(v) % 2 ^ bits, bits)}
  BY DEF WriteSInt, AndThen, Checked, OutOfRange, Ok, Err, None
<1>4. QED
  BY ONLY <1>2, <1>3, WroteNothing

LEMMA WriteFixedPointIs ==
  ASSUME NEW traps, NEW w, IsWriter(w), NEW codec, codec.min \in Int, codec.max \in Int, NEW v \in Int
  PROVE  Wrote(w, WriteFixedPoint(traps, w, codec, v))
<1>1. PICK offset : offset = I64(traps, v - codec.min)
  OBVIOUS
<1>2. offset.ok => offset.val \in Int
  <2>1. v - codec.min \in Int
    OBVIOUS
  <2>2. AsI64(v - codec.min) \in I64Min .. I64Max /\ offset \in {Err("panic"), Ok(AsI64(v - codec.min))}
    BY ONLY <1>1, <2>1, I64Is
  <2>3. I64Min \in Int /\ I64Max \in Int
    BY NumberWidths DEF I64Min, I64Max
  <2>4. QED
    BY ONLY <2>2, <2>3 DEF Ok, Err
<1>3. PICK bits : bits = FixedRange(traps, codec)
  OBVIOUS
<1>4. bits.ok => bits.val \in Nat
  <2>1. PICK range : range = I64(traps, codec.max - codec.min)
    OBVIOUS
  <2>2. range.ok => range.val \in Int
    <3>1. codec.max - codec.min \in Int
      OBVIOUS
    <3>2. /\ AsI64(codec.max - codec.min) \in I64Min .. I64Max
          /\ range \in {Err("panic"), Ok(AsI64(codec.max - codec.min))}
      BY ONLY <2>1, <3>1, I64Is
    <3>3. I64Min \in Int /\ I64Max \in Int
      BY NumberWidths DEF I64Min, I64Max
    <3>4. QED
      BY ONLY <3>2, <3>3 DEF Ok, Err
  <2>3. bits = IF range.ok THEN Ok(RequiredBits(AsU64(range.val))) ELSE range
    BY ONLY <1>3, <2>1 DEF FixedRange, AndThen
  <2>4. range.ok => RequiredBits(AsU64(range.val)) \in Nat
    <3>1. SUFFICES ASSUME range.ok PROVE RequiredBits(AsU64(range.val)) \in Nat
      OBVIOUS
    <3>2. AsU64(range.val) \in 0 .. 2 ^ U64Bits - 1
      BY ONLY <2>2, <3>1, I64Is
    <3>3. QED
      BY ONLY <3>2, RequiredBitsAre
  <2>5. QED
    BY ONLY <2>3, <2>4 DEF Ok
<1>5. PICK written : written = WriteBits(w, AsU64(offset.val), bits.val)
  OBVIOUS
<1>6. ASSUME offset.ok, bits.ok
      PROVE  Wrote(w, written)
  <2>1. AsU64(offset.val) \in Int
    BY ONLY <1>2, <1>6, I64Is
  <2>2. bits.val \in Nat
    BY <1>4, <1>6
  <2>3. QED
    BY ONLY IsWriter(w), <1>5, <2>1, <2>2, WriteBitsIs
<1>7. WriteFixedPoint(traps, w, codec, v) =
        IF v \notin codec.min .. codec.max THEN Err("FixedPointOutOfRange")
        ELSE IF offset.ok THEN IF bits.ok THEN written ELSE bits ELSE offset
  BY ONLY <1>1, <1>3, <1>5 DEF WriteFixedPoint, AndThen
<1>8. (~offset.ok => Wrote(w, offset)) /\ (~bits.ok => Wrote(w, bits))
  BY DEF Wrote
<1>9. QED
  BY ONLY <1>6, <1>7, <1>8, WroteNothing

(* The codecs that write a varint: checked, aligned, written. *)
LEMMA WriteVarUIntIs ==
  ASSUME NEW traps, NEW w, IsWriter(w), NEW codec, codec.kind \in {"VarUInt", "VarSInt"}, NEW v \in Int
  PROVE  Wrote(w, WriteField(traps, w, codec, v))
<1>1. PICK H \in Nat \ {0}, W \in Nat \ {0} : H = 2 ^ (U32Bits - 1) /\ W = 2 ^ U32Bits
  BY NumberWidths
<1>2. PICK aligned : aligned = AlignToByte(w)
  OBVIOUS
<1>3. Wrote(w, aligned)
  BY <1>2, AlignToByteIs
<1>4. ASSUME aligned.ok
      PROVE  IsWriter(aligned.val)
  BY ONLY <1>3, <1>4 DEF Wrote
<1>5. CASE codec.kind = "VarUInt"
  <2>1. PICK second : second = WriteVaru32(aligned.val, v)
    OBVIOUS
  <2>2. v \in 0 .. W - 1 /\ aligned.ok => Wrote(aligned.val, second)
    BY ONLY <1>1, <1>4, <2>1, WriteVaruIs
  <2>3. v \in 0 .. W - 1 => Wrote(w, IF aligned.ok THEN second ELSE aligned)
    BY ONLY <1>3, <2>2, WroteThen
  <2>4. WriteField(traps, w, codec, v)
          = IF v \in 0 .. W - 1 THEN IF aligned.ok THEN second ELSE aligned ELSE Err("VarUIntOutOfRange")
    BY ONLY <1>1, <1>2, <1>5, <2>1 DEF WriteField, AndThen, Checked, OutOfRange, Ok, Err, None
  <2>5. QED
    BY ONLY <2>3, <2>4, WroteNothing
<1>6. CASE codec.kind = "VarSInt"
  <2>1. PICK second : second = WriteVaru32(aligned.val, Zigzag(v))
    OBVIOUS
  <2>2. v \in -H .. H - 1 /\ aligned.ok => Wrote(aligned.val, second)
    <3>1. SUFFICES ASSUME v \in -H .. H - 1, aligned.ok PROVE Wrote(aligned.val, second)
      OBVIOUS
    <3>2. Zigzag(v) \in 0 .. 2 ^ U32Bits - 1
      BY ONLY <1>1, <3>1, ZigzagIs
    <3>3. QED
      BY ONLY <1>4, <2>1, <3>1, <3>2, WriteVaruIs
  <2>3. v \in -H .. H - 1 => Wrote(w, IF aligned.ok THEN second ELSE aligned)
    BY ONLY <1>3, <2>2, WroteThen
  <2>4. WriteField(traps, w, codec, v)
          = IF v \in -H .. H - 1 THEN IF aligned.ok THEN second ELSE aligned ELSE Err("VarSIntOutOfRange")
    BY ONLY <1>1, <1>2, <1>6, <2>1 DEF WriteField, WriteVars32, AndThen, Checked, OutOfRange, Ok, Err, None
  <2>5. QED
    BY ONLY <2>3, <2>4, WroteNothing
<1>7. QED
  BY <1>5, <1>6

LEMMA WriteValueIs ==
  ASSUME NEW traps \in BOOLEAN, NEW w, IsWriter(w), NEW v, Writable(v)
  PROVE  Wrote(w, WriteValue(traps, w, v))
<1>1. CASE v.kind = "Field"
  <2>1. /\ v.codec.kind \in {"Bool", "UInt", "SInt", "VarUInt", "VarSInt", "FixedPoint"}
        /\ ValidField(v.codec)
        /\ v.codec.kind = "Bool" => v.value \in {0, 1}
        /\ v.codec.kind # "Bool" => v.value \in Int
        /\ v.codec.kind = "FixedPoint" => {v.codec.min, v.codec.max} \subseteq I64Min .. I64Max
    BY <1>1 DEF Writable
  <2>2. WriteValue(traps, w, v) = WriteField(traps, w, v.codec, v.value)
    BY <1>1 DEF WriteValue
  <2>3. CASE v.codec.kind = "Bool"
    <3>1. <<v.value>> \in Seq(Bit)
      BY <2>1, <2>3 DEF Bit
    <3>2. Wrote(w, Write(w, <<v.value>>))
      BY ONLY IsWriter(w), <3>1, WriteIs
    <3>3. QED
      BY ONLY <2>2, <2>3, <3>2 DEF WriteField
  <2>4. CASE v.codec.kind = "UInt"
    <3>1. v.codec.bits \in Nat /\ v.value \in Int
      BY <2>1, <2>4, Widths DEF ValidField
    <3>2. Wrote(w, WriteUInt(w, v.codec.bits, v.value))
      BY ONLY IsWriter(w), <3>1, WriteUIntIs
    <3>3. QED
      BY ONLY <2>2, <2>4, <3>2 DEF WriteField
  <2>5. CASE v.codec.kind = "SInt"
    <3>1. v.codec.bits \in Nat /\ v.codec.bits <= U64Bits /\ v.value \in Int
      BY <2>1, <2>5, Widths DEF ValidField
    <3>2. Wrote(w, WriteSInt(w, v.codec.bits, v.value))
      BY ONLY IsWriter(w), <3>1, WriteSIntIs
    <3>3. QED
      BY ONLY <2>2, <2>5, <3>2 DEF WriteField
  <2>6. CASE v.codec.kind \in {"VarUInt", "VarSInt"}
    <3>1. v.value \in Int
      BY <2>1, <2>6
    <3>2. QED
      BY ONLY <2>2, <2>6, <3>1, IsWriter(w), WriteVarUIntIs
  <2>7. CASE v.codec.kind = "FixedPoint"
    <3>1. v.codec.min \in Int /\ v.codec.max \in Int /\ v.value \in Int
      <4>1. I64Min .. I64Max \subseteq Int
        BY NumberWidths DEF I64Min, I64Max
      <4>2. QED
        BY <2>1, <2>7, <4>1
    <3>2. Wrote(w, WriteFixedPoint(traps, w, v.codec, v.value))
      BY ONLY IsWriter(w), <3>1, WriteFixedPointIs
    <3>3. QED
      BY ONLY <2>2, <2>7, <3>2 DEF WriteField
  <2>8. QED
    BY ONLY <2>1, <2>3, <2>4, <2>5, <2>6, <2>7
<1>2. CASE v.kind = "Align"
  BY <1>2, AlignToByteIs DEF WriteValue
<1>3. CASE v.kind = "Id"
  <2>1. v.value \in Int
    BY <1>3, NumberWidths DEF Writable
  <2>2. U32Bytes \in 0 .. U64Bytes
    BY WidthAssumption, Widths
  <2>3. LittleEndian(v.value, U32Bytes) \in Seq(Bit)
    BY ONLY <2>1, <2>2, LittleEndianIs
  <2>4. Wrote(w, WriteAligned(w, LittleEndian(v.value, U32Bytes)))
    BY ONLY IsWriter(w), <2>3, WriteAlignedIs
  <2>5. QED
    BY ONLY <1>3, <2>4 DEF WriteValue
<1>4. CASE v.kind = "Byte"
  <2>1. v.value \in Int
    <3>1. PICK B \in Nat : B = 2 ^ ByteBits
      BY Powers, Shifts
    <3>2. v.value \in 0 .. B - 1
      BY <1>4, <3>1 DEF Writable
    <3>3. QED
      BY ONLY <3>2, B \in Nat
  <2>2. Bits(v.value, ByteBits) \in Seq(Bit)
    BY ONLY <2>1, Shifts, BitsAre
  <2>3. Wrote(w, WriteAligned(w, Bits(v.value, ByteBits)))
    BY ONLY IsWriter(w), <2>2, WriteAlignedIs
  <2>4. QED
    BY ONLY <1>4, <2>3 DEF WriteValue
<1>5. CASE v.kind = "Count"
  <2>1. v.value \in 0 .. 2 ^ U32Bits - 1
    BY <1>5 DEF Writable
  <2>2. Wrote(w, WriteVaru32(w, v.value))
    BY ONLY IsWriter(w), <2>1, WriteVaruIs
  <2>3. QED
    BY ONLY <1>5, <2>2 DEF WriteValue
<1>6. CASE v.kind = "Index"
  <2>1. v.value \in Int /\ v.bits \in Nat
    BY <1>6, NumberWidths DEF Writable
  <2>2. Wrote(w, WriteBits(w, v.value, v.bits))
    BY ONLY IsWriter(w), <2>1, WriteBitsIs
  <2>3. QED
    BY ONLY <1>6, <2>2 DEF WriteValue
<1>7. v.kind \in {"Field", "Align", "Id", "Byte", "Count", "Index"}
  BY DEF Writable
<1>8. QED
  BY ONLY <1>1, <1>2, <1>3, <1>4, <1>5, <1>6, <1>7

-----------------------------------------------------------------------------
(* The packets. *)

LEMMA FinishIs ==
  ASSUME NEW w, IsWriter(w)
  PROVE  /\ Finish(w) \in Seq(Bit)
         /\ Len(Finish(w)) = RoundUp(w.pos) /\ RoundUp(w.pos) \in Nat
         /\ RoundUp(w.pos) <= Len(w.buf)
         /\ WholeBytes(Finish(w))
<1>1. PICK k \in Nat : Len(w.buf) = ByteBits * k
  BY DEF IsWriter, WholeBytes
<1>2. w.pos \in Nat /\ w.pos <= ByteBits * k /\ w.buf \in Seq(Bit)
  BY <1>1 DEF IsWriter
<1>3. RoundUp(w.pos) \in Nat /\ RoundUp(w.pos) <= ByteBits * k /\ \E j \in Nat : RoundUp(w.pos) = ByteBits * j
  BY ONLY <1>2, k \in Nat, RoundUpIs
<1>4. PICK R \in Nat : R = RoundUp(w.pos) /\ R <= Len(w.buf)
  BY ONLY <1>1, <1>3
<1>5. SubSeq(w.buf, 1, R) \in Seq(Bit) /\ Len(SubSeq(w.buf, 1, R)) = R
  BY ONLY <1>2, <1>4, R \in Nat
<1>6. Finish(w) = SubSeq(w.buf, 1, R)
  BY ONLY <1>4 DEF Finish
<1>7. WholeBytes(Finish(w))
  BY ONLY <1>3, <1>4, <1>5, <1>6 DEF WholeBytes
<1>8. QED
  BY ONLY <1>4, <1>5, <1>6, <1>7

LEMMA SectionTyped ==
  ASSUME NEW tag \in Int, NEW body \in Seq(Bit), Bytes(body) \in 0 .. 2 ^ U32Bits - 1
  PROVE  EncodeSection(tag, body) \in Seq(Bit)
<1>1. Bits(tag, ByteBits) \in Seq(Bit)
  BY ONLY tag \in Int, Shifts, BitsAre
<1>2. Varint(Bytes(body)) \in Seq(Bit)
  BY VarintTyped
<1>3. QED
  BY ONLY <1>1, <1>2, body \in Seq(Bit) DEF EncodeSection

LEMMA LayoutIs ==
  /\ DOMAIN HeaderLayout = 1 .. 7 /\ Len(HeaderLayout) = 7
  /\ HeaderLayout[1] = <<"magic", U32Bytes>> /\ HeaderLayout[2] = <<"version", U16Bytes>>
  /\ HeaderLayout[3] = <<"flags", U16Bytes>> /\ HeaderLayout[4] = <<"schema_hash", U64Bytes>>
  /\ HeaderLayout[5] = <<"tick", U32Bytes>> /\ HeaderLayout[6] = <<"baseline_tick", U32Bytes>>
  /\ HeaderLayout[7] = <<"payload_len", U32Bytes>>
BY DEF HeaderLayout

LEMMA WidthIs ==
  ASSUME NEW k \in 1 .. 7
  PROVE  HeaderLayout[k][2] \in 1 .. U64Bytes
<1>1. {U16Bytes, U32Bytes, U64Bytes} \subseteq 1 .. U64Bytes
  BY WidthAssumption, Widths
<1>2. k = 1 \/ k = 2 \/ k = 3 \/ k = 4 \/ k = 5 \/ k = 6 \/ k = 7
  OBVIOUS
<1>3. HeaderLayout[k][2] \in {U16Bytes, U32Bytes, U64Bytes}
  BY ONLY <1>2, LayoutIs
<1>4. QED
  BY ONLY <1>1, <1>3

(* Where the tick is, and that the header reaches past it. *)
LEMMA OffsetsAre ==
  OffsetOf(5) \in Nat /\ HeaderSize \in Nat /\ OffsetOf(5) + U32Bytes <= HeaderSize
<1>1. PICK width \in [1 .. 7 -> Nat \ {0}] : \A i \in 1 .. 7 : width[i] = HeaderLayout[i][2]
  <2>1. \A i \in 1 .. 7 : HeaderLayout[i][2] \in Nat \ {0}
    BY WidthIs, Widths
  <2>2. [i \in 1 .. 7 |-> HeaderLayout[i][2]] \in [1 .. 7 -> Nat \ {0}]
    BY ONLY <2>1
  <2>3. QED
    BY ONLY <2>2
<1>2. ASSUME NEW n \in 0 .. 7
      PROVE  \E h \in [0 .. n -> Int] :
               /\ h[0] = 0
               /\ \A i \in 1 .. n : h[i] = h[i - 1] + width[i]
               /\ OffsetOf(n + 1) = h[n]
  <2> n \in Nat /\ 1 .. n \subseteq 1 .. 7
    OBVIOUS
  <2>1. PICK numbers \in Seq(Int) : numbers = [i \in 1 .. n |-> width[i]] /\ Len(numbers) = n
    <3>1. \A i \in 1 .. n : width[i] \in Int
      <4>1. \A i \in 1 .. 7 : width[i] \in Int
        BY ONLY width \in [1 .. 7 -> Nat \ {0}]
      <4>2. QED
        BY ONLY <4>1, 1 .. n \subseteq 1 .. 7
    <3>2. [i \in 1 .. n |-> width[i]] \in Seq(Int) /\ Len([i \in 1 .. n |-> width[i]]) = n
      BY ONLY <3>1, n \in Nat
    <3>3. QED
      BY ONLY <3>2
  <2>2. OffsetOf(n + 1) = Total(numbers)
    <3>1. PICK layout : layout = HeaderLayout
      OBVIOUS
    <3>2. \A i \in 1 .. n : width[i] = layout[i][2]
      BY ONLY <1>1, <3>1, 1 .. n \subseteq 1 .. 7
    <3>3. OffsetOf(n + 1) = Total([i \in 1 .. (n + 1) - 1 |-> layout[i][2]])
      BY ONLY <3>1 DEF OffsetOf
    <3>4. [i \in 1 .. n |-> layout[i][2]] = [i \in 1 .. n |-> width[i]]
      BY ONLY <3>2
    <3>5. (n + 1) - 1 = n
      BY ONLY n \in Nat
    <3>6. QED
      BY ONLY <2>1, <3>3, <3>4, <3>5
  <2>3. PICK h \in [0 .. n -> Int] :
          /\ h[0] = 0
          /\ \A i \in 1 .. n : h[i] = h[i - 1] + numbers[i]
          /\ Total(numbers) = h[n]
    BY ONLY <2>1, TotalIs
  <2>4. QED
    BY ONLY <2>1, <2>2, <2>3
<1>3. width[5] = U32Bytes /\ \A i \in 1 .. 7 : width[i] \in Nat
  BY ONLY <1>1, LayoutIs
<1>4. OffsetOf(5) = width[1] + width[2] + width[3] + width[4]
  <2>1. PICK h \in [0 .. 4 -> Int] :
          h[0] = 0 /\ (\A i \in 1 .. 4 : h[i] = h[i - 1] + width[i]) /\ OffsetOf(4 + 1) = h[4]
    BY ONLY <1>2, 4 \in 0 .. 7
  <2>2. h[1] = 0 + width[1] /\ h[2] = h[1] + width[2] /\ h[3] = h[2] + width[3] /\ h[4] = h[3] + width[4]
    BY ONLY <2>1
  <2>3. QED
    BY ONLY <1>3, <2>1, <2>2
<1>5. HeaderSize = width[1] + width[2] + width[3] + width[4] + width[5] + width[6] + width[7]
  <2>1. PICK h \in [0 .. 7 -> Int] :
          h[0] = 0 /\ (\A i \in 1 .. 7 : h[i] = h[i - 1] + width[i]) /\ OffsetOf(7 + 1) = h[7]
    BY ONLY <1>2, 7 \in 0 .. 7
  <2>2. /\ h[1] = 0 + width[1] /\ h[2] = h[1] + width[2] /\ h[3] = h[2] + width[3] /\ h[4] = h[3] + width[4]
        /\ h[5] = h[4] + width[5] /\ h[6] = h[5] + width[6] /\ h[7] = h[6] + width[7]
    BY ONLY <2>1
  <2>3. HeaderSize = h[7]
    BY ONLY <2>1, LayoutIs DEF HeaderSize
  <2>4. QED
    BY ONLY <1>3, <2>2, <2>3
<1>6. QED
  BY ONLY <1>3, <1>4, <1>5

LEMMA HeaderTyped ==
  ASSUME NEW flags \in Int, NEW tick \in Int, NEW baseline_tick \in Int, NEW payload_len \in Int
  PROVE  EncodeHeader(PacketHeader(flags, tick, baseline_tick, payload_len)) \in Seq(Bit)
<1>1. PICK h : h = PacketHeader(flags, tick, baseline_tick, payload_len)
  OBVIOUS
<1>2. /\ h["magic"] \in Int /\ h["version"] \in Int /\ h["flags"] \in Int /\ h["schema_hash"] \in Int
      /\ h["tick"] \in Int /\ h["baseline_tick"] \in Int /\ h["payload_len"] \in Int
  BY <1>1, WireAssumption DEF PacketHeader
<1>3. ASSUME NEW k \in 1 .. 7
      PROVE  LittleEndian(h[HeaderLayout[k][1]], HeaderLayout[k][2]) \in Seq(Bit)
  <2>1. k = 1 \/ k = 2 \/ k = 3 \/ k = 4 \/ k = 5 \/ k = 6 \/ k = 7
    OBVIOUS
  <2>2. h[HeaderLayout[k][1]] \in Int
    BY ONLY <1>2, <2>1, LayoutIs
  <2>3. HeaderLayout[k][2] \in 0 .. U64Bytes
    BY WidthIs, Widths
  <2>4. QED
    BY ONLY <2>2, <2>3, LittleEndianIs
<1>4. PICK ss : ss = [k \in 1 .. 7 |-> LittleEndian(h[HeaderLayout[k][1]], HeaderLayout[k][2])]
  OBVIOUS
<1>5. ss \in Seq(Seq(Bit))
  BY ONLY <1>3, <1>4
<1>6. EncodeHeader(h) = FlattenSeq(ss)
  BY ONLY <1>4, LayoutIs DEF EncodeHeader
<1>7. QED
  BY ONLY <1>1, <1>5, <1>6, FlattenTyped

(* The tick of a header is a u32. *)
LEMMA HeaderTick ==
  ASSUME NEW buf \in Seq(Bit), HeaderSize <= Bytes(buf)
  PROVE  ReadHeader(buf).tick \in 0 .. 2 ^ U32Bits - 1
<1>1. PICK n \in Nat \ {0} : n = U32Bytes /\ ByteBits * n = U32Bits
  BY Widths DEF U32Bits
<1>2. PICK s : s = Slice(buf, OffsetOf(5), n)
  OBVIOUS
<1>3. s \in Seq(Bit) /\ Len(s) = ByteBits * n
  <2>1. OffsetOf(5) \in Nat /\ OffsetOf(5) + n <= Bytes(buf)
    BY <1>1, OffsetsAre, BytesAre
  <2>2. QED
    BY ONLY <1>2, <2>1, buf \in Seq(Bit), n \in Nat \ {0}, SliceIs
<1>4. Bytes(s) = n
  BY ONLY <1>3, n \in Nat \ {0}, WholeBytesAre
<1>5. ByteBits * Bytes(s) = U32Bits /\ U32Bits \in Exponents
  BY <1>1, <1>4, Widths, Powers
<1>6. FromLittleEndian(s) \in 0 .. 2 ^ U32Bits - 1
  BY ONLY <1>3, <1>5, FromLittleEndianBounds
<1>7. (CHOOSE k \in DOMAIN HeaderLayout : HeaderLayout[k][1] = "tick") = 5
  <2>1. ASSUME NEW k \in 1 .. 7, HeaderLayout[k][1] = "tick"
        PROVE  k = 5
    <3>1. k = 1 \/ k = 2 \/ k = 3 \/ k = 4 \/ k = 5 \/ k = 6 \/ k = 7
      OBVIOUS
    <3>2. QED
      BY ONLY <2>1, <3>1, LayoutIs
  <2>2. 5 \in 1 .. 7 /\ HeaderLayout[5][1] = "tick"
    BY LayoutIs
  <2>3. QED
    BY ONLY <2>1, <2>2, LayoutIs
<1>8. HeaderField(buf, "tick") = FromLittleEndian(s)
  BY ONLY <1>1, <1>2, <1>7, LayoutIs DEF HeaderField
<1>9. "tick" \in {HeaderLayout[k][1] : k \in DOMAIN HeaderLayout}
  <2>1. 5 \in DOMAIN HeaderLayout /\ HeaderLayout[5][1] = "tick"
    BY LayoutIs
  <2>2. QED
    BY ONLY <2>1
<1>10. ReadHeader(buf).tick = HeaderField(buf, "tick")
  BY ONLY <1>9 DEF ReadHeader
<1>11. QED
  BY ONLY <1>6, <1>8, <1>10

(* What a receiver takes from a session init: the tick of its header. *)
LEMMA HeardInitIs ==
  ASSUME packet.bits \in Seq(Bit), HeardInit.ok
  PROVE  /\ HeardInit.val = [session_id |-> HeardInit.val.session_id, last_tick |-> HeardInit.val.last_tick]
         /\ HeardInit.val.last_tick \in 0 .. 2 ^ U32Bits - 1
<1>1. PICK buf \in Seq(Bit) : buf = packet.bits
  OBVIOUS
<1>2. PICK decoded : decoded = DecodePacket(buf, limits)
  OBVIOUS
<1>3. PICK init : init = DecodeSessionInit(decoded.val)
  OBVIOUS
<1>4. HeardInit = IF decoded.ok THEN init ELSE decoded
  BY ONLY <1>1, <1>2, <1>3 DEF HeardInit, AndThen
<1>5. decoded.ok /\ init.ok /\ HeardInit = init
  BY ONLY <1>4, HeardInit.ok
<1>6. HeaderSize <= Bytes(buf) /\ decoded.val.header = ReadHeader(buf)
  <2>1. PICK sized : sized = Checked(SizeError(buf, limits), ReadHeader(buf))
    OBVIOUS
  <2>2. PICK checked : checked = Checked(HeaderError(sized.val, Bytes(buf) - HeaderSize), sized.val)
    OBVIOUS
  <2>3. PICK parts : parts = DecodeSections(Slice(buf, HeaderSize, Bytes(buf) - HeaderSize), limits)
    OBVIOUS
  <2>4. decoded = IF sized.ok
                  THEN IF checked.ok
                       THEN IF parts.ok THEN Ok([header |-> checked.val, sections |-> parts.val]) ELSE parts
                       ELSE checked
                  ELSE sized
    BY ONLY <1>2, <2>1, <2>2, <2>3 DEF DecodePacket, AndThen
  <2>5. sized.ok /\ checked.ok /\ parts.ok
    BY ONLY <1>5, <2>4
  <2>6. decoded.val.header = checked.val
    BY ONLY <2>4, <2>5 DEF Ok
  <2>7. checked.val = sized.val
    BY ONLY <2>2, <2>5 DEF Checked, Ok, Err
  <2>8. sized.val = ReadHeader(buf) /\ SizeError(buf, limits) = None
    BY ONLY <2>1, <2>5 DEF Checked, Ok, Err
  <2>9. ~(Bytes(buf) < HeaderSize)
    BY ONLY <2>8 DEF SizeError, None
  <2>10. QED
    BY ONLY <2>6, <2>7, <2>8, <2>9, OffsetsAre, BytesAre, buf \in Seq(Bit)
<1>7. \E id : init.val = [session_id |-> id, last_tick |-> decoded.val.header.tick]
  <2>1. PICK p : p = decoded.val
    OBVIOUS
  <2>2. PICK checked : checked = Checked(SessionInitError(p), p)
    OBVIOUS
  <2>3. PICK body : body = DecodeSessionInitBody(checked.val.sections[1].body)
    OBVIOUS
  <2>4. init = IF checked.ok
               THEN IF body.ok THEN Ok([session_id |-> body.val, last_tick |-> checked.val.header.tick]) ELSE body
               ELSE checked
    BY ONLY <1>3, <2>1, <2>2, <2>3 DEF DecodeSessionInit, AndThen
  <2>5. checked.ok /\ body.ok
    BY ONLY <1>5, <2>4
  <2>6. checked.val = p
    BY ONLY <2>2, <2>5 DEF Checked, Ok, Err
  <2>7. init.val = [session_id |-> body.val, last_tick |-> p.header.tick]
    BY ONLY <2>4, <2>5, <2>6 DEF Ok
  <2>8. QED
    BY ONLY <2>1, <2>7
<1>8. ReadHeader(buf).tick \in 0 .. 2 ^ U32Bits - 1
  BY ONLY <1>6, buf \in Seq(Bit), HeaderTick
<1>9. QED
  BY ONLY <1>5, <1>6, <1>7, <1>8

LEMMA SessionVaruIs ==
  ASSUME NEW data \in Seq(Bit), NEW offset \in Nat, SessionVaru32(data, offset).ok
  PROVE  SessionVaru32(data, offset).val.value \in Nat
<1>1. Ends(data, offset) # {}
  BY DEF SessionVaru32, VarintError, Checked, Err, None
<1>2. PICK x \in Nat : x = Total(Shifted(data, offset))
  BY <1>1, VarintSums
<1>3. PICK W \in Nat \ {0} : W = 2 ^ U32Bits
  BY NumberWidths
<1>4. x % W \in 0 .. W - 1
  BY ONLY x \in Nat, W \in Nat \ {0}, Division
<1>5. SessionVaru32(data, offset).val.value = x % W
  BY ONLY <1>2, <1>3, SessionVaru32(data, offset).ok DEF SessionVaru32, Checked, VarintRead, Ok, Err
<1>6. QED
  BY ONLY <1>4, <1>5, W \in Nat \ {0}

(* The tick of a compact header is after the last one, and a u32. *)
LEMMA SessionTick ==
  ASSUME NEW buf \in Seq(Bit), NEW last \in Nat, NEW lims,
         DecodeSessionPacket(buf, last, lims).ok
  PROVE  /\ DecodeSessionPacket(buf, last, lims).val.header.tick \in 0 .. 2 ^ U32Bits - 1
         /\ DecodeSessionPacket(buf, last, lims).val.header.tick > last
<1>1. PICK result : result = DecodeSessionPacket(buf, last, lims) /\ result.ok
  OBVIOUS
<1>2. PICK head : head = DecodeSessionHeader(buf, last)
  OBVIOUS
<1>3. head.ok /\ result.val.header.tick = head.val.tick
  <2>1. PICK checked : checked = Checked(Above(head.val.header_len + head.val.payload_len, Bytes(buf),
                                               "PayloadLengthMismatch"), head.val)
    OBVIOUS
  <2>2. PICK parts : parts = DecodeSections(Slice(buf, checked.val.header_len, checked.val.payload_len), lims)
    OBVIOUS
  <2>3. result = IF head.ok
                 THEN IF checked.ok
                      THEN IF parts.ok
                           THEN Ok([header |-> PacketHeader(checked.val.flags, checked.val.tick,
                                                            checked.val.baseline_tick, checked.val.payload_len),
                                    sections |-> parts.val])
                           ELSE parts
                      ELSE checked
                 ELSE head
    BY ONLY <1>1, <1>2, <2>1, <2>2 DEF DecodeSessionPacket, AndThen
  <2>4. head.ok /\ checked.ok /\ parts.ok
    BY ONLY <1>1, <2>3
  <2>5. result.val.header = PacketHeader(checked.val.flags, checked.val.tick,
                                         checked.val.baseline_tick, checked.val.payload_len)
    BY ONLY <2>3, <2>4 DEF Ok
  <2>6. checked.val = head.val
    BY ONLY <2>1, <2>4 DEF Checked, Ok, Err
  <2>7. QED
    BY ONLY <2>4, <2>5, <2>6 DEF PacketHeader
<1>4. PICK delta : delta = SessionVaru32(buf, 1)
  OBVIOUS
<1>5. PICK next : next = NextTick(last, delta.val.value)
  OBVIOUS
<1>6. delta.ok /\ next.ok /\ head.val.tick = next.val
  <2>1. PICK flags : flags = Checked(IF buf = <<>> THEN "PacketTooSmall"
                                     ELSE IF ByteAt(buf, 0) \notin ValidSessionFlags THEN "InvalidFlags"
                                     ELSE None, ByteAt(buf, 0))
    OBVIOUS
  <2>2. PICK b : b = SessionVaru32(buf, delta.val.next)
    OBVIOUS
  <2>3. PICK baseline : baseline = Checked(BaselineError(flags.val, next.val, b.val.value), next.val - b.val.value)
    OBVIOUS
  <2>4. PICK p : p = SessionVaru32(buf, b.val.next)
    OBVIOUS
  <2>5. head = IF flags.ok
               THEN IF delta.ok
                    THEN IF next.ok
                         THEN IF b.ok
                              THEN IF baseline.ok
                                   THEN IF p.ok
                                        THEN Ok([flags |-> flags.val, tick |-> next.val,
                                                 baseline_tick |-> baseline.val,
                                                 payload_len |-> p.val.value, header_len |-> p.val.next])
                                        ELSE p
                                   ELSE baseline
                              ELSE b
                         ELSE next
                    ELSE delta
               ELSE flags
    BY ONLY <1>2, <1>4, <1>5, <2>1, <2>2, <2>3, <2>4 DEF DecodeSessionHeader, AndThen
  <2>6. flags.ok /\ delta.ok /\ next.ok /\ b.ok /\ baseline.ok /\ p.ok
    BY ONLY <1>3, <2>5
  <2>7. QED
    BY ONLY <2>5, <2>6 DEF Ok
<1>7. PICK d \in Nat : d = delta.val.value
  BY <1>4, <1>6, SessionVaruIs
<1>8. PICK W \in Nat \ {0} : W = 2 ^ U32Bits
  BY NumberWidths
<1>9. next = Checked(IF d = 0 THEN "InvalidFlags" ELSE Above(last + d, W - 1, "InvalidFlags"), last + d)
  BY ONLY <1>5, <1>7, <1>8 DEF NextTick
<1>10. d # 0 /\ last + d <= W - 1 /\ next.val = last + d
  BY ONLY <1>6, <1>9, d \in Nat, last \in Nat, W \in Nat \ {0} DEF Checked, Above, Ok, Err, None
<1>11. next.val \in 0 .. W - 1 /\ next.val > last
  BY ONLY <1>10, d \in Nat, last \in Nat, W \in Nat \ {0}
<1>12. QED
  BY ONLY <1>1, <1>3, <1>6, <1>8, <1>11

LEMMA SessionHeaderTyped ==
  ASSUME NEW tick_delta \in 0 .. 2 ^ U32Bits - 1, NEW baseline_delta \in 0 .. 2 ^ U32Bits - 1,
         NEW payload_len \in 0 .. 2 ^ U32Bits - 1
  PROVE  EncodeSessionHeader(DeltaFlag, tick_delta, baseline_delta, payload_len).val \in Seq(Bit)
<1>1. Bits(DeltaFlag, ByteBits) \in Seq(Bit)
  BY Shifts, BitsAre DEF DeltaFlag
<1>2. Varint(tick_delta) \in Seq(Bit) /\ Varint(baseline_delta) \in Seq(Bit) /\ Varint(payload_len) \in Seq(Bit)
  BY VarintTyped
<1>3. PICK bits : bits = Bits(DeltaFlag, ByteBits) \o Varint(tick_delta) \o Varint(baseline_delta) \o Varint(payload_len)
  OBVIOUS
<1>4. bits \in Seq(Bit)
  BY ONLY <1>1, <1>2, <1>3
<1>5. EncodeSessionHeader(DeltaFlag, tick_delta, baseline_delta, payload_len) = Ok(bits)
  BY ONLY <1>3 DEF EncodeSessionHeader, Checked, ValidSessionFlags, DeltaFlag
<1>6. QED
  BY ONLY <1>4, <1>5 DEF Ok

(* A write of whole bytes at a byte, to a buffer that grows. *)
LEMMA GrowingWrite ==
  ASSUME NEW w, IsWriter(w), w.grows, NEW k \in Nat, w.pos = ByteBits * k,
         NEW bytes \in Seq(Bit), NEW n \in Nat, Len(bytes) = ByteBits * n
  PROVE  /\ WriteAligned(w, bytes).ok
         /\ IsWriter(WriteAligned(w, bytes).val) /\ WriteAligned(w, bytes).val.grows
         /\ WriteAligned(w, bytes).val.pos = ByteBits * (k + n)
<1>1. Misaligned(w.pos) = None
  <2>1. ByteBits \in Nat \ {0} /\ 0 \in 0 .. ByteBits - 1
    BY Widths
  <2>2. (ByteBits * k + 0) % ByteBits = 0
    BY ONLY <2>1, k \in Nat, DivisionIs
  <2>3. w.pos + 0 = w.pos
    BY DEF IsWriter
  <2>4. QED
    BY ONLY <2>2, <2>3, w.pos = ByteBits * k DEF Misaligned
<1>2. WriteAligned(w, bytes) = Write(w, bytes)
  BY ONLY <1>1 DEF WriteAligned
<1>3. /\ Write(w, bytes).ok /\ Wrote(w, Write(w, bytes))
      /\ Write(w, bytes).val.pos = w.pos + ByteBits * n
  BY ONLY IsWriter(w), w.grows, bytes \in Seq(Bit), Len(bytes) = ByteBits * n, WriteIs
<1>4. w.pos + ByteBits * n = ByteBits * (k + n)
  BY Widths
<1>5. QED
  BY ONLY <1>2, <1>3, <1>4, w.grows DEF Wrote

LEMMA VecWriterIs == IsWriter(NewVecWriter) /\ NewVecWriter.grows /\ NewVecWriter.pos = 0
<1>1. WholeBytes(<<>>)
  <2>1. ByteBits * 0 = 0
    BY Widths
  <2>2. QED
    BY ONLY <2>1, 0 \in Nat, Len(<<>>) = 0 DEF WholeBytes
<1>2. PICK v : v = NewVecWriter
  OBVIOUS
<1>3. v = [buf |-> <<>>, pos |-> 0, grows |-> TRUE]
  BY <1>2 DEF NewVecWriter
<1>4. v.buf = <<>> /\ v.pos = 0 /\ v.grows = TRUE
  BY ONLY <1>3
<1>5. v = [buf |-> v.buf, pos |-> v.pos, grows |-> v.grows]
  BY ONLY <1>3, <1>4
<1>6. <<>> \in Seq(Bit) /\ 0 \in 0 .. Len(<<>>)
  OBVIOUS
<1>7. v.buf \in Seq(Bit) /\ WholeBytes(v.buf) /\ v.pos \in 0 .. Len(v.buf) /\ v.grows \in BOOLEAN
  BY ONLY <1>1, <1>4, <1>6
<1>8. IsWriter(v)
  BY ONLY <1>5, <1>7 DEF IsWriter
<1>9. QED
  BY ONLY <1>2, <1>4, <1>8

LEMMA SessionInitTyped ==
  ASSUME NEW tick \in Int, NEW id \in Int
  PROVE  SessionInitPacket(tick, id).val \in Seq(Bit)
<1>1. IsWriter(NewVecWriter) /\ NewVecWriter.grows /\ NewVecWriter.pos = ByteBits * 0
  <2>1. ByteBits * 0 = 0
    BY Widths
  <2>2. QED
    BY ONLY <2>1, VecWriterIs
<1>2. PICK first : first = WriteAligned(NewVecWriter, LittleEndian(id, U64Bytes))
  OBVIOUS
<1>3. PICK u \in Nat : u = U64Bytes
  BY Widths
<1>4. first.ok /\ IsWriter(first.val) /\ first.val.grows /\ first.val.pos = ByteBits * (0 + u)
  <2>1. LittleEndian(id, u) \in Seq(Bit) /\ Len(LittleEndian(id, u)) = ByteBits * u
    <3>1. u \in 0 .. U64Bytes
      BY <1>3
    <3>2. QED
      BY ONLY <3>1, id \in Int, LittleEndianIs
  <2>2. QED
    BY ONLY <1>1, <1>2, <1>3, <2>1, 0 \in Nat, u \in Nat, GrowingWrite
<1>5. PICK second : second = WriteAligned(first.val, LittleEndian(SessionV1, 1))
  OBVIOUS
<1>6. second.ok /\ IsWriter(second.val) /\ second.val.pos = ByteBits * (u + 1)
  <2>1. LittleEndian(SessionV1, 1) \in Seq(Bit) /\ Len(LittleEndian(SessionV1, 1)) = ByteBits * 1
    <3>1. SessionV1 \in Int /\ 1 \in 0 .. U64Bytes
      BY Widths DEF SessionV1
    <3>2. QED
      BY ONLY <3>1, LittleEndianIs
  <2>2. 0 + u = u /\ 1 \in Nat
    OBVIOUS
  <2>3. first.val.pos = ByteBits * u
    BY ONLY <1>4, <2>2
  <2>4. QED
    BY ONLY <1>4, <1>5, <2>1, <2>2, <2>3, u \in Nat, GrowingWrite
<1>7. PICK body : body = Finish(second.val)
  OBVIOUS
<1>8. body \in Seq(Bit) /\ Bytes(body) \in 0 .. 2 ^ U32Bits - 1
  <2>1. /\ body \in Seq(Bit) /\ Len(body) = RoundUp(second.val.pos)
        /\ WholeBytes(body)
    BY ONLY <1>6, <1>7, FinishIs
  <2>2. PICK j \in Nat : Len(body) = ByteBits * j
    BY ONLY <2>1 DEF WholeBytes
  <2>3. ByteBits * (u + 1) \in Nat /\ u + 1 \in Nat
    BY Widths, ProductNat
  <2>4. RoundUp(ByteBits * (u + 1)) <= ByteBits * (u + 1)
    BY ONLY <2>3, RoundUpIs
  <2>5. ByteBits * j <= ByteBits * (u + 1)
    BY ONLY <1>6, <2>1, <2>2, <2>4
  <2>6. j <= u + 1
    <3>1. SUFFICES ASSUME u + 2 <= j PROVE FALSE
      OBVIOUS
    <3>2. ByteBits \in Nat /\ ByteBits > 0
      BY Widths
    <3>3. ByteBits * (u + 2) <= ByteBits * j
      BY ONLY <3>1, <3>2, j \in Nat, u \in Nat, ProductGrows
    <3>4. ByteBits * (u + 2) = ByteBits * (u + 1) + ByteBits
      BY <3>2
    <3>5. ByteBits * (u + 1) \in Int /\ ByteBits * j \in Int
      BY <3>2
    <3>6. QED
      BY ONLY <2>5, <3>2, <3>3, <3>4, <3>5
  <2>7. Bytes(body) = j
    BY ONLY <2>1, <2>2, WholeBytesAre
  <2>8. PICK W \in Nat : W = 2 ^ U32Bits /\ u + 1 <= W - 1
    BY <1>3, NumberWidths, WireAssumption
  <2>9. j \in 0 .. W - 1
    BY ONLY <2>6, <2>8, j \in Nat, u \in Nat, W \in Nat
  <2>10. QED
    BY ONLY <2>1, <2>7, <2>8, <2>9
<1>9. SessionInitBody(id) = Ok(body)
  <2>1. SessionInitBody(id) = IF first.ok THEN IF second.ok THEN Ok(Finish(second.val)) ELSE second ELSE first
    BY ONLY <1>2, <1>5 DEF SessionInitBody, AndThen
  <2>2. QED
    BY ONLY <1>4, <1>6, <1>7, <2>1
<1>10. PICK section \in Seq(Bit) : section = EncodeSection(SessionInitTag, body)
  <2>1. SessionInitTag \in Int
    BY DEF SessionInitTag
  <2>2. EncodeSection(SessionInitTag, body) \in Seq(Bit)
    BY ONLY <1>8, <2>1, SectionTyped
  <2>3. QED
    BY ONLY <2>2
<1>11. PICK header \in Seq(Bit) : header = EncodeHeader(PacketHeader(InitFlag, tick, 0, Bytes(section)))
  <2>1. InitFlag \in Int /\ 0 \in Int /\ Bytes(section) \in Int
    BY BytesAre DEF InitFlag
  <2>2. EncodeHeader(PacketHeader(InitFlag, tick, 0, Bytes(section))) \in Seq(Bit)
    BY ONLY <2>1, tick \in Int, HeaderTyped
  <2>3. QED
    BY ONLY <2>2
<1>12. SessionInitPacket(tick, id) = Ok(header \o section)
  <2>1. PICK made : made = SessionInitBody(id)
    OBVIOUS
  <2>2. SessionInitPacket(tick, id)
          = IF made.ok
            THEN Ok(EncodeHeader(PacketHeader(InitFlag, tick, 0, Bytes(EncodeSection(SessionInitTag, made.val))))
                      \o EncodeSection(SessionInitTag, made.val))
            ELSE made
    BY ONLY <2>1 DEF SessionInitPacket, AndThen
  <2>3. made.ok /\ made.val = body
    BY ONLY <1>9, <2>1 DEF Ok
  <2>4. QED
    BY ONLY <1>10, <1>11, <2>2, <2>3
<1>13. QED
  BY ONLY <1>12, header \in Seq(Bit), section \in Seq(Bit) DEF Ok

(* A body is moved down to the end of a head that was written before it:   *)
(* the two may overlap, and the head is no longer than the room for it.    *)
Moves(front, buf, head, M, prefixed, body, moved) ==
  /\ Len(head) <= Len(front) /\ M <= Len(buf)
  /\ prefixed = Overwrite(front \o buf, 0, head)
  /\ body = SubSeq(prefixed, Len(front) + 1, Len(front) + M)
  /\ moved = Overwrite(prefixed, Len(head), body)

LEMMA MovedDown ==
  ASSUME NEW T, NEW front \in Seq(T), NEW buf \in Seq(T), NEW head \in Seq(T), NEW M \in Nat,
         NEW prefixed, NEW body, NEW moved, Moves(front, buf, head, M, prefixed, body, moved)
  PROVE  SubSeq(moved, 1, Len(head) + M) = head \o SubSeq(buf, 1, M)
<1>0. /\ Len(head) <= Len(front) /\ M <= Len(buf)
      /\ prefixed = Overwrite(front \o buf, 0, head)
      /\ body = SubSeq(prefixed, Len(front) + 1, Len(front) + M)
      /\ moved = Overwrite(prefixed, Len(head), body)
  BY DEF Moves
<1>1. PICK H \in Nat, R \in Nat, B \in Nat : H = Len(head) /\ R = Len(front) /\ B = Len(buf)
  OBVIOUS
<1>2. H <= R /\ M <= B
  BY <1>0, <1>1
<1>3. /\ front \o buf \in Seq(T) /\ Len(front \o buf) = R + B
      /\ \A i \in 1 .. B : (front \o buf)[R + i] = buf[i]
  BY ONLY <1>1, front \in Seq(T), buf \in Seq(T), R \in Nat, B \in Nat
<1>4. PICK all \in Seq(T) : all = front \o buf
  BY <1>3
<1>5. Len(all) = R + B /\ DOMAIN all = 1 .. R + B /\ \A i \in 1 .. B : all[R + i] = buf[i]
  BY ONLY <1>3, <1>4, all \in Seq(T)
<1>6. DOMAIN head = 1 .. H /\ \A i \in 1 .. H : head[i] \in T
  BY ONLY <1>1, head \in Seq(T)
<1>7. prefixed = [i \in 1 .. R + B |-> IF i \in 1 .. H THEN head[i] ELSE all[i]]
  <2>1. prefixed = [i \in 1 .. R + B |-> IF i - 0 \in 1 .. H THEN head[i - 0] ELSE all[i]]
    BY ONLY <1>4, <1>5, <1>6, <1>0 DEF Overwrite
  <2>2. \A i \in 1 .. R + B : i - 0 = i
    BY ONLY R \in Nat, B \in Nat
  <2>3. QED
    BY ONLY <2>1, <2>2
<1>8. prefixed \in Seq(T) /\ Len(prefixed) = R + B
  <2>1. prefixed = Overwrite(all, 0, head)
    BY ONLY <1>0, <1>4
  <2>2. QED
    BY ONLY <1>5, <2>1, all \in Seq(T), head \in Seq(T), 0 \in Int, OverwriteIs
<1>9. body \in Seq(T) /\ Len(body) = M /\ \A i \in 1 .. M : body[i] = prefixed[R + i]
  <2>1. body = SubSeq(prefixed, R + 1, R + M)
    BY ONLY <1>1, <1>0
  <2>2. QED
    BY ONLY <1>2, <1>8, <2>1, prefixed \in Seq(T), R \in Nat, M \in Nat, B \in Nat
<1>10. ASSUME NEW i \in 1 .. M
       PROVE  body[i] = buf[i]
  <2>1. R + i \in 1 .. R + B /\ R + i \notin 1 .. H /\ i \in 1 .. B
    BY ONLY <1>2, i \in 1 .. M, M \in Nat, R \in Nat, H \in Nat, B \in Nat
  <2>2. prefixed[R + i] = all[R + i]
    <3>1. PICK j : j = R + i
      OBVIOUS
    <3>2. j \in 1 .. R + B /\ j \notin 1 .. H
      BY ONLY <2>1, <3>1
    <3>3. prefixed[j] = all[j]
      BY ONLY <1>7, <3>2
    <3>4. QED
      BY ONLY <3>1, <3>3
  <2>3. QED
    BY ONLY <1>5, <1>9, <2>1, <2>2, i \in 1 .. M
<1>11. DOMAIN body = 1 .. M
  BY ONLY <1>9
<1>12. moved = [i \in 1 .. R + B |-> IF i - H \in 1 .. M THEN body[i - H] ELSE prefixed[i]]
  BY ONLY <1>1, <1>7, <1>11, <1>0 DEF Overwrite
<1>13. moved \in Seq(T) /\ Len(moved) = R + B
  <2>1. moved = Overwrite(prefixed, H, body) /\ H \in Int
    BY ONLY <1>0, <1>1, H \in Nat
  <2>2. QED
    BY ONLY <1>8, <1>9, <2>1, OverwriteIs
<1>14. PICK left : left = SubSeq(moved, 1, H + M)
  OBVIOUS
<1>15. left \in Seq(T) /\ Len(left) = H + M /\ \A i \in 1 .. H + M : left[i] = moved[i]
  <2>1. PICK k \in Nat : k = H + M /\ k <= R + B
    BY ONLY <1>2, R \in Nat, M \in Nat, B \in Nat, H \in Nat
  <2>2. k <= Len(moved)
    BY ONLY <1>13, <2>1
  <2>3. SubSeq(moved, 1, k) \in Seq(T) /\ Len(SubSeq(moved, 1, k)) = k
        /\ \A i \in 1 .. k : SubSeq(moved, 1, k)[i] = moved[i]
    BY ONLY <1>13, <2>2, k \in Nat
  <2>4. QED
    BY ONLY <1>14, <2>1, <2>3
<1>16. PICK tail \in Seq(T) : tail = SubSeq(buf, 1, M) /\ Len(tail) = M /\ \A i \in 1 .. M : tail[i] = buf[i]
  <2>1. SubSeq(buf, 1, M) \in Seq(T) /\ Len(SubSeq(buf, 1, M)) = M /\ \A i \in 1 .. M : SubSeq(buf, 1, M)[i] = buf[i]
    BY ONLY <1>1, <1>2, buf \in Seq(T), M \in Nat, B \in Nat
  <2>2. QED
    BY ONLY <2>1
<1>17. PICK right : right = head \o tail
  OBVIOUS
<1>18. /\ right \in Seq(T) /\ Len(right) = H + M
       /\ \A i \in 1 .. H + M : right[i] = IF i <= H THEN head[i] ELSE tail[i - H]
  BY ONLY <1>1, <1>16, <1>17, head \in Seq(T), tail \in Seq(T), H \in Nat, M \in Nat
<1>19. ASSUME NEW i \in 1 .. H + M
       PROVE  left[i] = right[i]
  <2>1. i \in 1 .. R + B
    BY ONLY <1>2, i \in 1 .. H + M, H \in Nat, M \in Nat, R \in Nat, B \in Nat
  <2>2. CASE i <= H
    <3>1. i - H \notin 1 .. M /\ i \in 1 .. H
      BY ONLY <2>2, i \in 1 .. H + M, H \in Nat, M \in Nat
    <3>2. moved[i] = prefixed[i]
      BY ONLY <1>12, <2>1, <3>1
    <3>3. prefixed[i] = head[i]
      BY ONLY <1>7, <2>1, <3>1
    <3>4. QED
      BY ONLY <1>15, <1>18, <2>2, <3>2, <3>3, i \in 1 .. H + M
  <2>3. CASE ~(i <= H)
    <3>1. i - H \in 1 .. M
      BY ONLY <2>3, i \in 1 .. H + M, H \in Nat, M \in Nat
    <3>2. moved[i] = body[i - H]
      BY ONLY <1>12, <2>1, <3>1
    <3>3. body[i - H] = buf[i - H] /\ tail[i - H] = buf[i - H]
      BY ONLY <1>10, <1>16, <3>1
    <3>4. QED
      BY ONLY <1>15, <1>18, <2>3, <3>2, <3>3, i \in 1 .. H + M
  <2>4. QED
    BY ONLY <2>2, <2>3
<1>20. left = right
  <2>1. left = [i \in 1 .. H + M |-> left[i]] /\ right = [i \in 1 .. H + M |-> right[i]]
    BY ONLY <1>15, <1>18, H \in Nat, M \in Nat
  <2>2. QED
    BY ONLY <1>19, <2>1
<1>21. QED
  BY ONLY <1>1, <1>14, <1>16, <1>17, <1>20

(* A section closed in place: the output keeps its size, what is used of   *)
(* it is whole bytes, and it is the section made of the body.              *)
Closes(out, tag, w, maxSection, closed) ==
  /\ WholeBytes(out) /\ Bytes(out) <= 2 ^ U32Bits - 1
  /\ Len(out) = ByteBits * PrefixRoom + Len(w.buf)
  /\ closed = CloseSection(out, tag, w, maxSection) /\ closed.ok

LEMMA CloseSectionIs ==
  ASSUME NEW out \in Seq(Bit), NEW tag \in Int, NEW w, IsWriter(w), NEW maxSection,
         NEW closed, Closes(out, tag, w, maxSection, closed)
  PROVE  /\ closed.val.out \in Seq(Bit) /\ Len(closed.val.out) = Len(out)
         /\ closed.val.used \in Nat /\ closed.val.used <= Bytes(out)
         /\ Slice(closed.val.out, 0, closed.val.used) = EncodeSection(tag, Finish(w))
<1>0. /\ WholeBytes(out) /\ Bytes(out) <= 2 ^ U32Bits - 1
      /\ Len(out) = ByteBits * PrefixRoom + Len(w.buf)
      /\ closed = CloseSection(out, tag, w, maxSection) /\ closed.ok
  BY DEF Closes
<1>1. PICK n \in Nat : n = Bytes(Finish(w)) /\ ByteBits * n <= Len(w.buf)
  <2>1. PICK f \in Seq(Bit) : f = Finish(w) /\ Len(f) <= Len(w.buf)
    BY ONLY IsWriter(w), FinishIs
  <2>2. Bytes(f) \in Nat /\ ByteBits * Bytes(f) <= Len(f)
    BY ONLY f \in Seq(Bit), BytesAre
  <2>3. w.buf \in Seq(Bit) /\ ByteBits * Bytes(f) \in Int
    <3>1. w.buf \in Seq(Bit)
      BY DEF IsWriter
    <3>2. ByteBits \in Nat
      BY Widths
    <3>3. ByteBits * Bytes(f) \in Int
      BY ONLY <2>2, <3>2
    <3>4. QED
      BY ONLY <3>1, <3>3
  <2>4. ByteBits * Bytes(f) <= Len(w.buf)
    BY ONLY <2>1, <2>2, <2>3, f \in Seq(Bit)
  <2>5. QED
    BY ONLY <2>1, <2>2, <2>4
<1>2. PICK room \in Nat : room = PrefixRoom
  BY Widths DEF PrefixRoom
<1>3. PICK N \in Nat : N = Bytes(out) /\ Len(out) = ByteBits * N
  <2>1. PICK k \in Nat : Len(out) = ByteBits * k
    BY <1>0 DEF WholeBytes
  <2>2. QED
    BY ONLY <2>1, out \in Seq(Bit), WholeBytesAre
<1>4. room + n <= N
  <2>1. ByteBits \in Nat /\ ByteBits > 0
    BY Widths
  <2>2. ByteBits * room + ByteBits * n <= ByteBits * N
    <3>1. PICK x \in Int, y \in Int : x = ByteBits * room /\ y = ByteBits * n
      BY <2>1
    <3>2. w.buf \in Seq(Bit)
      BY DEF IsWriter
    <3>3. Len(out) = x + Len(w.buf) /\ y <= Len(w.buf)
      BY ONLY <1>1, <1>2, <3>1, <1>0
    <3>4. x + y <= Len(out)
      BY ONLY <3>2, <3>3, x \in Int, y \in Int
    <3>5. QED
      BY ONLY <1>3, <3>1, <3>4
  <2>3. SUFFICES ASSUME N + 1 <= room + n PROVE FALSE
    OBVIOUS
  <2>4. ByteBits * (N + 1) <= ByteBits * (room + n)
    BY ONLY <2>1, <2>3, N \in Nat, room \in Nat, n \in Nat, ProductGrows
  <2>5. ByteBits * (N + 1) = ByteBits * N + ByteBits /\ ByteBits * (room + n) = ByteBits * room + ByteBits * n
    BY <2>1
  <2>6. ByteBits * N \in Int /\ ByteBits * room \in Int /\ ByteBits * n \in Int
    BY <2>1
  <2>7. QED
    BY ONLY <2>1, <2>2, <2>4, <2>5, <2>6
<1>5. n \in 0 .. 2 ^ U32Bits - 1
  <2>1. PICK W \in Nat : W = 2 ^ U32Bits
    BY NumberWidths
  <2>2. N <= W - 1
    BY ONLY <1>3, <2>1, <1>0
  <2>3. n \in 0 .. W - 1
    BY ONLY <1>4, <2>2, n \in Nat, room \in Nat, N \in Nat, W \in Nat
  <2>4. QED
    BY ONLY <2>1, <2>3
<1>6. PICK written \in Seq(Bit) :
        written = SubSeq(out, 1, ByteBits * PrefixRoom) \o w.buf /\ Len(written) = Len(out)
  <2>1. PICK m \in Nat : m = ByteBits * PrefixRoom
    BY <1>2, Widths, ProductNat
  <2>2. w.buf \in Seq(Bit) /\ m <= Len(out)
    BY <1>0, <2>1 DEF IsWriter
  <2>3. SubSeq(out, 1, m) \in Seq(Bit) /\ Len(SubSeq(out, 1, m)) = m
    BY ONLY <2>2, out \in Seq(Bit), m \in Nat
  <2>4. SubSeq(out, 1, m) \o w.buf \in Seq(Bit) /\ Len(SubSeq(out, 1, m) \o w.buf) = m + Len(w.buf)
    <3>1. PICK s \in Seq(Bit), t \in Seq(Bit) : s = SubSeq(out, 1, m) /\ t = w.buf /\ Len(s) = m
      BY ONLY <2>2, <2>3
    <3>2. s \o t \in Seq(Bit) /\ Len(s \o t) = Len(s) + Len(t)
      BY ONLY s \in Seq(Bit), t \in Seq(Bit)
    <3>3. QED
      BY ONLY <3>1, <3>2
  <2>5. QED
    BY ONLY <2>1, <2>4, <1>0
<1>7. PICK prefixed \in Seq(Bit) :
        prefixed = Overwrite(written, 0, Bits(tag, ByteBits) \o Varint(n)) /\ Len(prefixed) = Len(out)
  <2>1. Bits(tag, ByteBits) \in Seq(Bit)
    BY ONLY tag \in Int, Shifts, BitsAre
  <2>2. Varint(n) \in Seq(Bit)
    BY ONLY <1>5, VarintTyped
  <2>3. Bits(tag, ByteBits) \o Varint(n) \in Seq(Bit)
    BY ONLY <2>1, <2>2
  <2>4. /\ Overwrite(written, 0, Bits(tag, ByteBits) \o Varint(n)) \in Seq(Bit)
        /\ Len(Overwrite(written, 0, Bits(tag, ByteBits) \o Varint(n))) = Len(written)
    BY ONLY <2>3, written \in Seq(Bit), 0 \in Int, OverwriteIs
  <2>5. QED
    BY ONLY <1>6, <2>4
<1>8. PICK len \in Nat : len = VarintLen(n) /\ len <= VarintBytes /\ Len(Varint(n)) = ByteBits * len
  <2>1. n \in 0 .. 2 ^ (GroupBits * VarintBytes) - 1
    BY <1>5, NumberWidths
  <2>2. VarintLen(n) \in 1 .. VarintBytes /\ VarintBytes \in Nat
    BY <2>1, VarintLenIs, Widths
  <2>3. VarintLen(n) \in Nat /\ VarintLen(n) <= VarintBytes
    BY ONLY <2>2
  <2>4. Len(Varint(n)) = ByteBits * VarintLen(n)
    BY ONLY <2>1, VarintIs
  <2>5. QED
    BY ONLY <2>3, <2>4
<1>9. PICK used \in Nat : used = SectionBytes(n) /\ used - n \in Int
  BY ONLY <1>8, n \in Nat, len \in Nat DEF SectionBytes
<1>10. PICK moved : moved = MoveBytes(prefixed, PrefixRoom, n, SectionBytes(n) - n)
  OBVIOUS
<1>11. moved \in Seq(Bit) /\ Len(moved) = Len(out)
  <2>1. Bytes(prefixed) = N
    BY ONLY <1>3, <1>7, N \in Nat, prefixed \in Seq(Bit), WholeBytesAre
  <2>2. Slice(prefixed, room, n) \in Seq(Bit)
    BY ONLY <1>4, <2>1, prefixed \in Seq(Bit), room \in Nat, n \in Nat, SliceIs
  <2>3. PICK at \in Int : at = ByteBits * (SectionBytes(n) - n)
    <3>1. ByteBits \in Nat /\ SectionBytes(n) - n \in Int
      BY <1>9, Widths
    <3>2. ByteBits * (SectionBytes(n) - n) \in Int
      BY ONLY <3>1
    <3>3. QED
      BY ONLY <3>2
  <2>4. /\ Overwrite(prefixed, at, Slice(prefixed, room, n)) \in Seq(Bit)
        /\ Len(Overwrite(prefixed, at, Slice(prefixed, room, n))) = Len(prefixed)
    BY ONLY <2>2, prefixed \in Seq(Bit), at \in Int, OverwriteIs
  <2>5. moved = Overwrite(prefixed, at, Slice(prefixed, room, n))
    BY ONLY <1>2, <1>10, <2>3 DEF MoveBytes
  <2>6. QED
    BY ONLY <1>7, <2>4, <2>5
<1>12. PICK error : error = Then(Above(n, maxSection, "SectionBytes"),
                                 Above(SectionBytes(n), Bytes(out), "OutputTooSmall"))
  OBVIOUS
<1>13. closed = Checked(error, [out |-> moved, used |-> used])
  BY ONLY <1>1, <1>6, <1>7, <1>9, <1>10, <1>12, <1>0 DEF CloseSection
<1>14. error = None /\ closed.val = [out |-> moved, used |-> used]
  BY ONLY <1>13, <1>0 DEF Checked, Ok, Err
<1>15. used <= N
  BY ONLY <1>3, <1>9, <1>12, <1>14, used \in Nat, N \in Nat DEF Then, Above, None
<1>16. Slice(moved, 0, used) = EncodeSection(tag, Finish(w))
  <2>1. PICK head \in Seq(Bit) :
          head = Bits(tag, ByteBits) \o Varint(n) /\ Len(head) = ByteBits * (1 + len)
    <3>1. PICK x \in Seq(Bit) : x = Bits(tag, ByteBits) /\ Len(x) = ByteBits
      <4>1. Bits(tag, ByteBits) \in Seq(Bit) /\ Len(Bits(tag, ByteBits)) = ByteBits
        BY ONLY tag \in Int, Shifts, BitsAre
      <4>2. QED
        BY ONLY <4>1
    <3>2. PICK y \in Seq(Bit) : y = Varint(n) /\ Len(y) = ByteBits * len
      <4>1. Varint(n) \in Seq(Bit)
        BY ONLY <1>5, VarintTyped
      <4>2. QED
        BY ONLY <1>8, <4>1
    <3>3. x \o y \in Seq(Bit) /\ Len(x \o y) = Len(x) + Len(y)
      BY ONLY x \in Seq(Bit), y \in Seq(Bit)
    <3>4. ByteBits + ByteBits * len = ByteBits * (1 + len)
      BY Widths
    <3>5. QED
      BY ONLY <3>1, <3>2, <3>3, <3>4
  <2>2. PICK front \in Seq(Bit) : front = SubSeq(out, 1, ByteBits * PrefixRoom) /\ Len(front) = ByteBits * room
    <3>1. PICK m \in Nat : m = ByteBits * room
      BY Widths, ProductNat
    <3>2. w.buf \in Seq(Bit)
      BY DEF IsWriter
    <3>3. m <= Len(out)
      BY ONLY <1>2, <3>1, <3>2, m \in Nat, <1>0
    <3>4. SubSeq(out, 1, m) \in Seq(Bit) /\ Len(SubSeq(out, 1, m)) = m
      BY ONLY <3>3, out \in Seq(Bit), m \in Nat
    <3>5. QED
      BY ONLY <1>2, <3>1, <3>4
  <2>3. PICK buf \in Seq(Bit) : buf = w.buf
    BY DEF IsWriter
  <2>4. PICK M \in Nat : M = ByteBits * n /\ M <= Len(buf)
    <3>1. ByteBits * n \in Nat
      BY Widths, ProductNat
    <3>2. QED
      BY ONLY <1>1, <2>3, <3>1
  <2>5. Len(head) <= Len(front)
    <3>1. len + 1 <= room
      <4>1. VarintBytes \in Nat
        BY Widths
      <4>2. room = 1 + VarintBytes
        BY <1>2 DEF PrefixRoom
      <4>3. QED
        BY ONLY <1>8, <4>1, <4>2, len \in Nat
    <3>2. 1 + len <= room /\ 1 + len \in Int /\ room \in Int /\ ByteBits \in Nat
      BY <3>1, Widths
    <3>3. ByteBits * (1 + len) <= ByteBits * room
      BY ONLY <3>2, ProductGrows
    <3>4. QED
      BY ONLY <2>1, <2>2, <3>3
  <2>6. prefixed = Overwrite(front \o buf, 0, head)
    BY ONLY <1>6, <1>7, <2>1, <2>2, <2>3
  <2>7. PICK body : body = SubSeq(prefixed, Len(front) + 1, Len(front) + M)
    OBVIOUS
  <2>8. body = Slice(prefixed, room, n)
    <3>1. ByteBits * (room + n) = ByteBits * room + ByteBits * n
      BY Widths
    <3>2. QED
      BY ONLY <2>2, <2>4, <2>7, <3>1 DEF Slice
  <2>9. moved = Overwrite(prefixed, Len(head), body)
    <3>1. used - n = 1 + len /\ used = SectionBytes(n)
      BY ONLY <1>8, <1>9, n \in Nat, len \in Nat, used \in Nat DEF SectionBytes
    <3>2. moved = Overwrite(prefixed, ByteBits * (1 + len), Slice(prefixed, room, n))
      BY ONLY <1>2, <1>10, <3>1 DEF MoveBytes
    <3>3. QED
      BY ONLY <2>1, <2>8, <3>2
  <2>10. SubSeq(moved, 1, Len(head) + M) = head \o SubSeq(buf, 1, M)
    <3>1. Moves(front, buf, head, M, prefixed, body, moved)
      BY ONLY <2>4, <2>5, <2>6, <2>7, <2>9 DEF Moves
    <3>2. QED
      BY ONLY <3>1, front \in Seq(Bit), buf \in Seq(Bit), head \in Seq(Bit), M \in Nat, MovedDown
  <2>11. Slice(moved, 0, used) = SubSeq(moved, 1, Len(head) + M)
    <3>1. ByteBits \in Nat
      BY Widths
    <3>2. used = 1 + len + n
      BY ONLY <1>8, <1>9 DEF SectionBytes
    <3>3. /\ ByteBits * 0 + 1 = 1
          /\ ByteBits * (0 + (1 + len + n)) = ByteBits * (1 + len) + ByteBits * n
      BY ONLY <3>1, len \in Nat, n \in Nat
    <3>4. ByteBits * (0 + used) = Len(head) + M
      BY ONLY <2>1, <2>4, <3>2, <3>3
    <3>5. QED
      BY ONLY <3>3, <3>4 DEF Slice
  <2>12. SubSeq(buf, 1, M) = Finish(w)
    <3>1. Len(Finish(w)) = RoundUp(w.pos) /\ WholeBytes(Finish(w)) /\ Finish(w) \in Seq(Bit)
      BY ONLY IsWriter(w), FinishIs
    <3>2. PICK k \in Nat : Len(Finish(w)) = ByteBits * k
      BY ONLY <3>1 DEF WholeBytes
    <3>3. Bytes(Finish(w)) = k
      BY ONLY <3>1, <3>2, k \in Nat, WholeBytesAre
    <3>4. RoundUp(w.pos) = M
      BY ONLY <1>1, <2>4, <3>1, <3>2, <3>3
    <3>5. QED
      BY ONLY <2>3, <3>4 DEF Finish
  <2>13. EncodeSection(tag, Finish(w)) = head \o Finish(w)
    BY ONLY <1>1, <2>1 DEF EncodeSection
  <2>14. QED
    BY ONLY <2>10, <2>11, <2>12, <2>13
<1>17. QED
  BY ONLY <1>3, <1>11, <1>14, <1>15, <1>16, used \in Nat

-----------------------------------------------------------------------------
(* The inductive invariant: what TypeOK says of sizes and ticks holds      *)
(* because all buffers are bits in whole bytes, and because an open writer *)
(* writes to the rest behind the room for its prefix.                      *)

Buffers ==
  /\ payload \in Seq(Bit) /\ WholeBytes(payload)
  /\ rest \in Seq(Bit) /\ WholeBytes(rest)
  /\ Len(payload) + Len(rest) = ByteBits * BufferBytes
  /\ values \in Seq(Writes)

OpenWriter ==
  writer # Absent =>
    /\ IsWriter(writer) /\ ~writer.grows
    /\ Len(rest) = ByteBits * PrefixRoom + Len(writer.buf)

Sessions ==
  /\ sender_last \in Ticks \cup {Absent}
  /\ session # Absent =>
       /\ session = [session_id |-> session.session_id, last_tick |-> session.last_tick]
       /\ session.last_tick \in 0 .. 2 ^ U32Bits - 1

Underway == packet # Absent => packet.bits \in Seq(Bit)

IInv == build \in Builds /\ Buffers /\ OpenWriter /\ Sessions /\ Underway

LEMMA BehindIs ==
  ASSUME NEW bits \in Seq(Bit), WholeBytes(bits), NEW n \in Nat, n <= Bytes(bits)
  PROVE  /\ SubSeq(bits, ByteBits * n + 1, Len(bits)) \in Seq(Bit)
         /\ Len(bits) = ByteBits * n + Len(SubSeq(bits, ByteBits * n + 1, Len(bits)))
         /\ WholeBytes(SubSeq(bits, ByteBits * n + 1, Len(bits)))
<1>1. PICK k \in Nat : Len(bits) = ByteBits * k /\ n <= k
  <2>1. PICK k \in Nat : Len(bits) = ByteBits * k
    BY DEF WholeBytes
  <2>2. Bytes(bits) = k
    BY ONLY <2>1, bits \in Seq(Bit), k \in Nat, WholeBytesAre
  <2>3. QED
    BY ONLY <2>1, <2>2, n <= Bytes(bits)
<1>2. PICK j \in Nat : j = k - n
  BY <1>1
<1>3. PICK x \in Nat, y \in Nat : x = ByteBits * n /\ y = ByteBits * j
  BY Widths, ProductNat
<1>4. Len(bits) = x + y
  <2>1. ByteBits \in Nat
    BY Widths
  <2>2. k = n + j
    BY ONLY <1>2, k \in Nat, n \in Nat
  <2>3. ByteBits * (n + j) = ByteBits * n + ByteBits * j
    BY ONLY <2>1, n \in Nat, j \in Nat
  <2>4. QED
    BY ONLY <1>1, <1>3, <2>2, <2>3
<1>5. PICK s : s = SubSeq(bits, x + 1, Len(bits))
  OBVIOUS
<1>6. s \in Seq(Bit) /\ Len(s) = y
  BY ONLY <1>4, <1>5, bits \in Seq(Bit), x \in Nat, y \in Nat
<1>7. WholeBytes(s)
  BY ONLY <1>3, <1>6, j \in Nat DEF WholeBytes
<1>8. QED
  BY ONLY <1>3, <1>4, <1>5, <1>6, <1>7

LEMMA FreshIs ==
  ASSUME NEW b \in Builds
  PROVE  Fresh(b) \in Seq(Bit) /\ WholeBytes(Fresh(b)) /\ Len(Fresh(b)) = ByteBits * BufferBytes
<1>1. b.fill \in Bit
  BY WireAssumption DEF Bit
<1>2. PICK W \in Nat : W = 2 ^ U32Bits
  BY NumberWidths
<1>3. BufferBytes \in 0 .. W - 1
  BY <1>2, WireAssumption
<1>4. PICK n \in Nat : n = BufferBytes
  BY ONLY <1>3, W \in Nat
<1>5. PICK m \in Nat : m = ByteBits * n
  BY Widths, ProductNat
<1>6. PICK f : f = [i \in 1 .. m |-> b.fill]
  OBVIOUS
<1>7. f \in Seq(Bit) /\ Len(f) = m
  BY ONLY <1>1, <1>6, m \in Nat
<1>8. WholeBytes(f)
  BY ONLY <1>5, <1>7, n \in Nat DEF WholeBytes
<1>9. Fresh(b) = f
  BY ONLY <1>4, <1>5, <1>6 DEF Fresh
<1>10. QED
  BY ONLY <1>4, <1>5, <1>7, <1>8, <1>9

(* A fresh buffer, as after a packet is sent or an encoding is given up. *)
LEMMA ResetKeeps ==
  ASSUME build \in Builds, Reset
  PROVE  Buffers' /\ OpenWriter'
<1>1. rest' \in Seq(Bit) /\ WholeBytes(rest') /\ Len(rest') = ByteBits * BufferBytes
  BY FreshIs DEF Reset
<1>2. payload' = <<>> /\ values' = <<>> /\ writer' = Absent
  BY DEF Reset
<1>3. <<>> \in Seq(Bit) /\ <<>> \in Seq(Writes) /\ Len(<<>>) = 0
  OBVIOUS
<1>4. WholeBytes(<<>>)
  <2>1. ByteBits * 0 = 0
    BY Widths
  <2>2. QED
    BY ONLY <1>3, <2>1, 0 \in Nat DEF WholeBytes
<1>5. payload' \in Seq(Bit) /\ WholeBytes(payload') /\ Len(payload') + Len(rest') = ByteBits * BufferBytes
  <2>1. PICK n \in Nat : n = Len(rest')
    BY <1>1
  <2>2. 0 + n = n
    OBVIOUS
  <2>3. QED
    BY ONLY <1>1, <1>2, <1>3, <1>4, <2>1, <2>2
<1>6. Buffers'
  BY ONLY <1>1, <1>2, <1>3, <1>5 DEF Buffers, WholeBytes
<1>7. QED
  BY ONLY <1>2, <1>6 DEF OpenWriter

LEMMA InitHolds == Init => IInv
<1> SUFFICES ASSUME Init PROVE IInv
  OBVIOUS
<1>1. build \in Builds /\ rest = Fresh(build) /\ payload = <<>> /\ values = <<>> /\ writer = Absent
      /\ sender_last = Absent /\ session = Absent /\ packet = Absent
  BY DEF Init
<1>2. rest \in Seq(Bit) /\ WholeBytes(rest) /\ Len(rest) = ByteBits * BufferBytes
  BY <1>1, FreshIs
<1>3. <<>> \in Seq(Bit) /\ <<>> \in Seq(Writes) /\ Len(<<>>) = 0
  OBVIOUS
<1>4. WholeBytes(<<>>)
  <2>1. ByteBits * 0 = 0
    BY Widths
  <2>2. QED
    BY ONLY <1>3, <2>1, 0 \in Nat DEF WholeBytes
<1>5. Len(payload) + Len(rest) = ByteBits * BufferBytes
  <2>1. PICK n \in Nat : n = Len(rest)
    BY <1>2
  <2>2. 0 + n = n
    OBVIOUS
  <2>3. QED
    BY ONLY <1>1, <1>2, <1>3, <2>1, <2>2
<1>6. Buffers
  BY ONLY <1>1, <1>2, <1>3, <1>4, <1>5 DEF Buffers
<1>7. OpenWriter /\ Sessions /\ Underway
  BY ONLY <1>1 DEF OpenWriter, Sessions, Underway
<1>8. QED
  BY ONLY <1>1, <1>6, <1>7 DEF IInv

LEMMA SizesAre ==
  ASSUME Buffers
  PROVE  /\ Bytes(payload) \in 0 .. 2 ^ U32Bits - 1
         /\ Bytes(rest) \in Nat /\ Bytes(rest) <= 2 ^ U32Bits - 1
<1>1. PICK W \in Nat : W = 2 ^ U32Bits
  BY NumberWidths
<1>2. PICK n \in Nat : n = BufferBytes /\ n <= W - 1
  <2>1. BufferBytes \in 0 .. W - 1
    BY <1>1, WireAssumption
  <2>2. QED
    BY ONLY <2>1, W \in Nat
<1>3. ByteBits \in Nat /\ ByteBits > 0
  BY Widths
<1>4. ASSUME NEW bits \in Seq(Bit), Len(bits) <= ByteBits * n
      PROVE  Bytes(bits) \in Nat /\ Bytes(bits) <= n
  <2>1. PICK b \in Nat : b = Bytes(bits) /\ ByteBits * b <= Len(bits)
    BY BytesAre
  <2>2. ASSUME n + 1 <= b PROVE FALSE
    <3>1. ByteBits * (n + 1) <= ByteBits * b
      BY ONLY <1>3, <2>2, n \in Nat, b \in Nat, ProductGrows
    <3>2. ByteBits * (n + 1) = ByteBits * n + ByteBits /\ ByteBits * n \in Int /\ ByteBits * b \in Int
      BY <1>3
    <3>3. QED
      BY ONLY <1>3, <1>4, <2>1, <3>1, <3>2, bits \in Seq(Bit)
  <2>3. b <= n
    BY ONLY <2>2, b \in Nat, n \in Nat
  <2>4. QED
    BY ONLY <2>1, <2>3, b \in Nat
<1>5. payload \in Seq(Bit) /\ rest \in Seq(Bit) /\ Len(payload) + Len(rest) = ByteBits * n
  BY <1>2 DEF Buffers
<1>6. Len(payload) <= ByteBits * n /\ Len(rest) <= ByteBits * n
  <2>1. PICK x \in Nat, y \in Nat : x = Len(payload) /\ y = Len(rest)
    BY <1>5
  <2>2. PICK z \in Int : z = ByteBits * n
    BY <1>3
  <2>3. x + y = z
    BY ONLY <1>5, <2>1, <2>2
  <2>4. x <= z /\ y <= z
    BY ONLY <2>3, x \in Nat, y \in Nat, z \in Int
  <2>5. QED
    BY ONLY <2>1, <2>2, <2>4
<1>7. Bytes(payload) \in Nat /\ Bytes(payload) <= n /\ Bytes(rest) \in Nat /\ Bytes(rest) <= n
  BY ONLY <1>4, <1>5, <1>6
<1>8. QED
  BY ONLY <1>1, <1>2, <1>7, n \in Nat, W \in Nat

LEMMA OpenKeeps ==
  ASSUME IInv, Open
  PROVE  IInv'
<1>1. Buffers /\ Sessions /\ Underway /\ build \in Builds
  BY DEF IInv
<1>2. Buffers' /\ Sessions' /\ Underway' /\ build' \in Builds
  BY <1>1 DEF Open, link, Buffers, Sessions, Underway
<1>3. PICK room \in Nat : room = PrefixRoom
  BY Widths DEF PrefixRoom
<1>4. PICK w : w = NewWriter(SubSeq(rest, ByteBits * room + 1, Len(rest)))
  OBVIOUS
<1>5. room <= Bytes(rest) /\ writer' = w
  <2>1. PICK opened : opened = Checked(Above(room, Bytes(rest), "OutputTooSmall"), w)
    OBVIOUS
  <2>2. opened = OpenSection(rest)
    BY ONLY <1>3, <1>4, <2>1 DEF OpenSection
  <2>3. opened.ok /\ writer' = opened.val
    BY <2>2 DEF Open
  <2>4. Above(room, Bytes(rest), "OutputTooSmall") = None /\ opened.val = w
    BY ONLY <2>1, <2>3 DEF Checked, Ok, Err
  <2>5. ~(room > Bytes(rest))
    BY ONLY <2>4 DEF Above, None
  <2>6. QED
    BY ONLY <1>1, <2>3, <2>4, <2>5, room \in Nat, SizesAre
<1>6. /\ w.buf \in Seq(Bit) /\ WholeBytes(w.buf)
      /\ Len(rest) = ByteBits * room + Len(w.buf)
  <2>1. w.buf = SubSeq(rest, ByteBits * room + 1, Len(rest))
    BY ONLY <1>4 DEF NewWriter
  <2>2. rest \in Seq(Bit) /\ WholeBytes(rest)
    BY <1>1 DEF Buffers
  <2>3. QED
    BY ONLY <1>5, <2>1, <2>2, room \in Nat, BehindIs
<1>7. w = [buf |-> w.buf, pos |-> w.pos, grows |-> w.grows] /\ w.pos = 0 /\ w.grows = FALSE
  BY ONLY <1>4 DEF NewWriter
<1>8. 0 \in 0 .. Len(w.buf)
  BY ONLY <1>6
<1>9. IsWriter(w)
  BY ONLY <1>6, <1>7, <1>8 DEF IsWriter
<1>10. rest' = rest
  BY DEF Open
<1>11. OpenWriter'
  BY ONLY <1>3, <1>5, <1>6, <1>7, <1>9, <1>10 DEF OpenWriter
<1>12. QED
  BY ONLY <1>2, <1>11 DEF IInv

LEMMA AppendKeeps ==
  ASSUME IInv, NEW v \in Writes, AppendValue(v)
  PROVE  IInv'
<1>1. Buffers /\ Sessions /\ Underway /\ build \in Builds /\ OpenWriter
  BY DEF IInv
<1>2. Buffers' /\ Sessions' /\ Underway' /\ build' \in Builds /\ rest' = rest
  BY <1>1 DEF AppendValue, link, Buffers, Sessions, Underway
<1>3. IsWriter(writer) /\ ~writer.grows /\ Len(rest) = ByteBits * PrefixRoom + Len(writer.buf)
  BY <1>1 DEF AppendValue, OpenWriter
<1>4. PICK written : written = WriteValue(build.traps, writer, v)
  OBVIOUS
<1>5. written.ok /\ writer' = written.val
  BY <1>4 DEF AppendValue
<1>6. build.traps \in BOOLEAN /\ Writable(v)
  BY <1>1, WireAssumption
<1>7. Wrote(writer, written)
  BY ONLY <1>3, <1>4, <1>6, WriteValueIs
<1>8. IsWriter(written.val) /\ ~written.val.grows /\ Len(written.val.buf) = Len(writer.buf)
  BY ONLY <1>3, <1>5, <1>7 DEF Wrote
<1>9. OpenWriter'
  BY ONLY <1>2, <1>3, <1>5, <1>8 DEF OpenWriter
<1>10. QED
  BY ONLY <1>2, <1>9 DEF IInv

(* What closing adds to the payload, of what it leaves in the buffer. *)
LEMMA ClosedIs ==
  ASSUME IInv, NEW tag \in Tags, Close(tag)
  PROVE  \E out \in Seq(Bit), used \in Nat, piece \in Seq(Bit) :
           /\ WholeBytes(out) /\ Len(out) = Len(rest) /\ used <= Bytes(out)
           /\ Len(piece) = ByteBits * used
           /\ AlignToByte(writer).ok /\ piece = EncodeSection(tag, Finish(AlignToByte(writer).val))
           /\ payload' = payload \o piece /\ rest' = SubSeq(out, ByteBits * used + 1, Len(out))
<1>1. Buffers /\ OpenWriter
  BY DEF IInv
<1>3. IsWriter(writer) /\ ~writer.grows /\ Len(rest) = ByteBits * PrefixRoom + Len(writer.buf)
  BY <1>1 DEF Close, OpenWriter
<1>4. PICK aligned : aligned = AlignToByte(writer)
  OBVIOUS
<1>5. PICK closed : closed = CloseSection(rest, tag, aligned.val, MaxSection)
  OBVIOUS
<1>6. /\ Closed(tag) = IF aligned.ok THEN closed ELSE aligned
      /\ Closed(tag).ok
  BY ONLY <1>4, <1>5, Close(tag) DEF Closed, AndThen, Close
<1>7. aligned.ok /\ closed.ok /\ Closed(tag) = closed
  BY ONLY <1>6
<1>8. IsWriter(aligned.val) /\ Len(aligned.val.buf) = Len(writer.buf)
  <2>1. Wrote(writer, aligned)
    BY ONLY <1>3, <1>4, AlignToByteIs
  <2>2. QED
    BY ONLY <1>3, <1>7, <2>1 DEF Wrote
<1>9. PICK out \in Seq(Bit), used \in Nat :
        /\ out = closed.val.out /\ used = closed.val.used /\ Len(out) = Len(rest) /\ used <= Bytes(rest)
        /\ Slice(out, 0, used) = EncodeSection(tag, Finish(aligned.val))
  <2>1. tag \in Int
    BY WireAssumption DEF SectionTags
  <2>2. rest \in Seq(Bit) /\ WholeBytes(rest) /\ Bytes(rest) <= 2 ^ U32Bits - 1
    BY <1>1, SizesAre DEF Buffers
  <2>3. Len(rest) = ByteBits * PrefixRoom + Len(aligned.val.buf)
    BY ONLY <1>3, <1>8
  <2>4. /\ closed.val.out \in Seq(Bit) /\ Len(closed.val.out) = Len(rest)
        /\ closed.val.used \in Nat /\ closed.val.used <= Bytes(rest)
        /\ Slice(closed.val.out, 0, closed.val.used) = EncodeSection(tag, Finish(aligned.val))
    <3>0. PICK w : w = aligned.val
      OBVIOUS
    <3>1. PICK old \in Seq(Bit) : old = rest
      BY ONLY <2>2
    <3>2. IsWriter(w) /\ Closes(old, tag, w, MaxSection, closed)
      BY ONLY <1>5, <1>7, <1>8, <2>2, <2>3, <3>0, <3>1 DEF Closes
    <3>3. /\ closed.val.out \in Seq(Bit) /\ Len(closed.val.out) = Len(old)
          /\ closed.val.used \in Nat /\ closed.val.used <= Bytes(old)
          /\ Slice(closed.val.out, 0, closed.val.used) = EncodeSection(tag, Finish(w))
      BY ONLY <2>1, <3>2, old \in Seq(Bit), CloseSectionIs
    <3>4. QED
      BY ONLY <3>0, <3>1, <3>3
  <2>5. QED
    BY ONLY <2>4
<1>10. payload' = payload \o Slice(out, 0, used) /\ rest' = SubSeq(out, ByteBits * used + 1, Len(out))
  BY ONLY <1>7, <1>9, Close(tag) DEF Close
<1>11. PICK k \in Nat : Len(rest) = ByteBits * k /\ Bytes(rest) = k /\ Bytes(out) = k /\ WholeBytes(out)
  <2>1. PICK k \in Nat : Len(rest) = ByteBits * k
    BY <1>1 DEF Buffers, WholeBytes
  <2>2. rest \in Seq(Bit) /\ Len(out) = ByteBits * k
    BY <1>1, <1>9, <2>1 DEF Buffers
  <2>3. QED
    BY ONLY <2>1, <2>2, out \in Seq(Bit), k \in Nat, WholeBytesAre
<1>12. PICK piece \in Seq(Bit) : piece = Slice(out, 0, used) /\ Len(piece) = ByteBits * used
  <2>1. 0 + used <= Bytes(out)
    BY ONLY <1>9, <1>11, used \in Nat
  <2>2. Slice(out, 0, used) \in Seq(Bit) /\ Len(Slice(out, 0, used)) = ByteBits * used
    BY ONLY <2>1, out \in Seq(Bit), 0 \in Nat, used \in Nat, SliceIs
  <2>3. QED
    BY ONLY <2>2
<1>13. used <= Bytes(out)
  BY ONLY <1>9, <1>11
<1>14. QED
  BY ONLY <1>4, <1>7, <1>9, <1>10, <1>11, <1>12, <1>13, out \in Seq(Bit), used \in Nat, piece \in Seq(Bit)

LEMMA CloseKeeps ==
  ASSUME IInv, NEW tag \in Tags, Close(tag)
  PROVE  IInv'
<1>1. Buffers /\ Sessions /\ Underway /\ build \in Builds
  BY DEF IInv
<1>2. Sessions' /\ Underway' /\ build' \in Builds /\ writer' = Absent /\ values' = <<>>
  BY <1>1 DEF Close, link, Sessions, Underway
<1>3. PICK out \in Seq(Bit), used \in Nat, piece \in Seq(Bit) :
        /\ WholeBytes(out) /\ Len(out) = Len(rest) /\ used <= Bytes(out)
        /\ Len(piece) = ByteBits * used
        /\ payload' = payload \o piece /\ rest' = SubSeq(out, ByteBits * used + 1, Len(out))
  BY ClosedIs
<1>4. PICK behind \in Seq(Bit) :
         behind = SubSeq(out, ByteBits * used + 1, Len(out)) /\ WholeBytes(behind)
         /\ Len(out) = ByteBits * used + Len(behind)
  BY ONLY <1>3, out \in Seq(Bit), used \in Nat, BehindIs
<1>5. /\ payload' \in Seq(Bit) /\ WholeBytes(payload')
       /\ Len(payload') = Len(payload) + ByteBits * used
  <2>1. PICK old \in Seq(Bit), j \in Nat : old = payload /\ Len(old) = ByteBits * j
    BY <1>1 DEF Buffers, WholeBytes
  <2>2. old \o piece \in Seq(Bit) /\ Len(old \o piece) = Len(old) + Len(piece)
    BY ONLY old \in Seq(Bit), piece \in Seq(Bit)
  <2>3. ByteBits * j + ByteBits * used = ByteBits * (j + used) /\ j + used \in Nat
    BY Widths
  <2>4. Len(old \o piece) = ByteBits * (j + used)
    BY ONLY <1>3, <2>1, <2>2, <2>3
  <2>5. WholeBytes(old \o piece)
    BY ONLY <2>3, <2>4 DEF WholeBytes
  <2>6. QED
    BY ONLY <1>3, <2>1, <2>2, <2>5
<1>6. Len(payload') + Len(rest') = ByteBits * BufferBytes
  <2>1. PICK x \in Nat, y \in Nat, z \in Nat : x = Len(payload) /\ y = Len(behind) /\ z = ByteBits * used
    <3>1. payload \in Seq(Bit)
      BY <1>1 DEF Buffers
    <3>2. ByteBits * used \in Nat
      BY Widths, ProductNat
    <3>3. QED
      BY ONLY <3>1, <3>2, behind \in Seq(Bit)
  <2>2. x + (z + y) = ByteBits * BufferBytes
    BY <1>1, <1>3, <1>4, <2>1 DEF Buffers
  <2>3. (x + z) + y = x + (z + y)
    BY ONLY x \in Nat, y \in Nat, z \in Nat
  <2>4. QED
    BY ONLY <1>3, <1>4, <1>5, <2>1, <2>2, <2>3
<1>7. <<>> \in Seq(Writes)
  OBVIOUS
<1>8. Buffers'
  BY ONLY <1>2, <1>3, <1>4, <1>5, <1>6, <1>7, behind \in Seq(Bit) DEF Buffers, WholeBytes
<1>9. OpenWriter'
  BY ONLY <1>2 DEF OpenWriter
<1>10. QED
  BY ONLY <1>2, <1>8, <1>9 DEF IInv

LEMMA TicksAre ==
  /\ Ticks \subseteq 0 .. 2 ^ U32Bits - 1
  /\ 0 .. 2 ^ U32Bits - 1 \subseteq Nat
  /\ 1 \in 0 .. 2 ^ U32Bits - 1
<1>1. PICK W \in Nat : W = 2 ^ U32Bits /\ W >= 2
  <2>1. 2 ^ U32Bits = 2 * 2 ^ (U32Bits - 1) /\ 2 ^ (U32Bits - 1) \in Nat \ {0}
    BY NumberWidths
  <2>2. PICK H \in Nat \ {0} : H = 2 ^ (U32Bits - 1)
    BY ONLY <2>1
  <2>3. 2 * H \in Nat /\ 2 * H >= 2
    OBVIOUS
  <2>4. QED
    BY ONLY <2>1, <2>2, <2>3
<1>2. Ticks \subseteq 0 .. 2 ^ U32Bits - 1
  BY ONLY WireAssumption
<1>3. 0 .. W - 1 \subseteq Nat /\ 1 \in 0 .. W - 1
  BY ONLY <1>1, W \in Nat
<1>4. QED
  BY ONLY <1>1, <1>2, <1>3

LEMMA SendPacketKeeps ==
  ASSUME IInv, NEW flags \in Int, NEW tick \in Ticks, NEW baseline_tick \in Int,
         SendPacket(flags, tick, baseline_tick)
  PROVE  IInv'
<1>1. Buffers /\ Sessions /\ build \in Builds
  BY DEF IInv
<1>2. Sessions' /\ build' \in Builds
  BY <1>1 DEF SendPacket, Sessions
<1>3. Buffers' /\ OpenWriter'
  BY <1>1, ResetKeeps DEF SendPacket
<1>4. PICK header : header = EncodeHeader(PacketHeader(flags, tick, baseline_tick, Bytes(payload)))
  OBVIOUS
<1>5. header \in Seq(Bit)
  <2>1. tick \in Int
    BY TicksAre
  <2>2. payload \in Seq(Bit)
    BY <1>1 DEF Buffers
  <2>3. Bytes(payload) \in Int
    BY <2>2, BytesAre
  <2>4. QED
    BY ONLY <1>4, <2>1, <2>3, flags \in Int, baseline_tick \in Int, HeaderTyped
<1>6. packet'.bits = header \o payload
  BY ONLY <1>4, SendPacket(flags, tick, baseline_tick) DEF SendPacket, Packet
<1>7. payload \in Seq(Bit)
  BY <1>1 DEF Buffers
<1>8. Underway'
  BY ONLY <1>5, <1>6, <1>7 DEF Underway
<1>9. QED
  BY ONLY <1>2, <1>3, <1>8 DEF IInv

LEMMA SendCompactKeeps ==
  ASSUME IInv, NEW tick \in Ticks, NEW baseline_tick \in {0, tick - 1, tick},
         SendCompact(tick, baseline_tick)
  PROVE  IInv'
<1>1. Buffers /\ Sessions /\ build \in Builds
  BY DEF IInv
<1>2. sender_last' = tick /\ session' = session /\ build' = build /\ Reset
  BY DEF SendCompact
<1>3. Sessions' /\ build' \in Builds
  BY ONLY <1>1, <1>2, tick \in Ticks DEF Sessions
<1>4. Buffers' /\ OpenWriter'
  BY ONLY <1>1, <1>2, ResetKeeps
<1>5. PICK W \in Nat : W = 2 ^ U32Bits
  BY NumberWidths
<1>6. PICK last \in Nat : last = sender_last /\ tick > last /\ baseline_tick <= tick
  BY <1>1, TicksAre DEF SendCompact, Sessions
<1>7. PICK t \in Nat : t = tick /\ t <= W - 1 /\ 1 <= W - 1
  <2>1. Ticks \subseteq 0 .. W - 1 /\ 1 \in 0 .. W - 1
    BY ONLY <1>5, TicksAre
  <2>2. tick \in 0 .. W - 1
    BY ONLY <2>1, tick \in Ticks
  <2>3. QED
    BY ONLY <2>1, <2>2, W \in Nat
<1>8. tick - sender_last \in 0 .. 2 ^ U32Bits - 1 /\ tick - baseline_tick \in 0 .. 2 ^ U32Bits - 1
  <2>1. t - last \in 0 .. W - 1
    BY ONLY <1>6, <1>7, t \in Nat, last \in Nat, W \in Nat
  <2>2. t - baseline_tick \in 0 .. W - 1
    <3>1. baseline_tick = 0 \/ baseline_tick = t - 1 \/ baseline_tick = t
      BY ONLY <1>7, baseline_tick \in {0, tick - 1, tick}
    <3>2. QED
      BY ONLY <1>7, <3>1, t \in Nat, W \in Nat
  <2>3. QED
    BY ONLY <1>5, <1>6, <1>7, <2>1, <2>2
<1>9. Bytes(payload) \in 0 .. 2 ^ U32Bits - 1 /\ payload \in Seq(Bit)
  BY <1>1, SizesAre DEF Buffers
<1>10. PICK header :
         header = EncodeSessionHeader(DeltaFlag, tick - sender_last, tick - baseline_tick, Bytes(payload)).val
  OBVIOUS
<1>11. header \in Seq(Bit)
  BY ONLY <1>8, <1>9, <1>10, SessionHeaderTyped
<1>12. packet'.bits = header \o payload
  BY ONLY <1>10, SendCompact(tick, baseline_tick) DEF SendCompact, Packet
<1>13. Underway'
  BY ONLY <1>9, <1>11, <1>12 DEF Underway
<1>14. QED
  BY ONLY <1>3, <1>4, <1>13 DEF IInv

LEMMA SendInitKeeps ==
  ASSUME IInv, NEW tick \in Ticks, NEW id \in SessionIds, SendInit(tick, id)
  PROVE  IInv'
<1>1. Buffers /\ OpenWriter /\ Sessions /\ build \in Builds
  BY DEF IInv
<1>2. Buffers' /\ OpenWriter' /\ build' \in Builds
  BY <1>1 DEF SendInit, buffer, Buffers, OpenWriter
<1>3. Sessions'
  BY <1>1 DEF SendInit, Sessions
<1>4. tick \in Int /\ id \in Int
  <2>1. PICK W \in Nat : W = 2 ^ U64Bits
    BY NumberWidths
  <2>2. SessionIds \subseteq 0 .. W - 1
    BY ONLY <2>1, WireAssumption
  <2>3. id \in Int
    BY ONLY <2>2, id \in SessionIds, W \in Nat
  <2>4. tick \in Int
    BY TicksAre
  <2>5. QED
    BY ONLY <2>3, <2>4
<1>5. PICK bits : bits = SessionInitPacket(tick, id).val
  OBVIOUS
<1>6. bits \in Seq(Bit)
  BY ONLY <1>4, <1>5, SessionInitTyped
<1>7. packet'.bits = bits
  BY ONLY <1>5, SendInit(tick, id) DEF SendInit, Packet
<1>8. Underway'
  BY ONLY <1>6, <1>7 DEF Underway
<1>9. QED
  BY ONLY <1>2, <1>3, <1>8 DEF IInv

LEMMA ReceiveInitKeeps ==
  ASSUME IInv, ReceiveInit
  PROVE  IInv'
<1>1. Buffers /\ OpenWriter /\ Sessions /\ Underway /\ build \in Builds
  BY DEF IInv
<1>2. Buffers' /\ OpenWriter' /\ Underway' /\ build' \in Builds /\ sender_last' = sender_last
  BY <1>1 DEF ReceiveInit, buffer, Buffers, OpenWriter, Underway
<1>3. PICK heard : heard = HeardInit
  OBVIOUS
<1>4. heard.ok /\ session' = heard.val
  BY ONLY <1>3, ReceiveInit DEF ReceiveInit
<1>5. packet.bits \in Seq(Bit)
  BY <1>1 DEF ReceiveInit, Underway
<1>6. /\ heard.val = [session_id |-> heard.val.session_id, last_tick |-> heard.val.last_tick]
      /\ heard.val.last_tick \in 0 .. 2 ^ U32Bits - 1
  BY ONLY <1>3, <1>4, <1>5, HeardInitIs
<1>7. Sessions'
  BY ONLY <1>1, <1>2, <1>4, <1>6 DEF Sessions
<1>8. QED
  BY ONLY <1>2, <1>7 DEF IInv

(* A compact packet that is received: the session is at a later tick. *)
LEMMA CompactAdvances ==
  ASSUME Sessions, Underway, ReceiveCompact
  PROVE  /\ session' = [session_id |-> session'.session_id, last_tick |-> session'.last_tick]
         /\ session'.last_tick \in 0 .. 2 ^ U32Bits - 1
         /\ session'.last_tick > session.last_tick
<1>1. PICK id : \E last \in Nat : session = [session_id |-> id, last_tick |-> last]
  BY TicksAre DEF ReceiveCompact, Sessions
<1> PICK last \in Nat : session = [session_id |-> id, last_tick |-> last]
  BY ONLY <1>1
<1>2. packet.bits \in Seq(Bit)
  BY DEF ReceiveCompact, Underway
<1>3. PICK heard : heard = DecodeSessionPacket(packet.bits, last, limits)
  OBVIOUS
<1>4. session.last_tick = last
  BY ONLY session = [session_id |-> id, last_tick |-> last]
<1>5. heard.ok /\ session' = [session EXCEPT !.last_tick = heard.val.header.tick]
  BY ONLY <1>3, <1>4, ReceiveCompact DEF ReceiveCompact
<1>6. heard.val.header.tick \in 0 .. 2 ^ U32Bits - 1 /\ heard.val.header.tick > last
  BY ONLY <1>2, <1>3, <1>5, last \in Nat, SessionTick
<1>7. session' = [session_id |-> id, last_tick |-> heard.val.header.tick]
  BY ONLY session = [session_id |-> id, last_tick |-> last], <1>5
<1>8. QED
  BY ONLY <1>4, <1>6, <1>7

LEMMA ReceiveCompactKeeps ==
  ASSUME IInv, ReceiveCompact
  PROVE  IInv'
<1>1. Buffers /\ OpenWriter /\ Sessions /\ Underway /\ build \in Builds
  BY DEF IInv
<1>2. Buffers' /\ OpenWriter' /\ Underway' /\ build' \in Builds /\ sender_last' = sender_last
  BY <1>1 DEF ReceiveCompact, buffer, Buffers, OpenWriter, Underway
<1>3. /\ session' = [session_id |-> session'.session_id, last_tick |-> session'.last_tick]
      /\ session'.last_tick \in 0 .. 2 ^ U32Bits - 1
  BY ONLY <1>1, ReceiveCompact, CompactAdvances
<1>4. Sessions'
  BY ONLY <1>1, <1>2, <1>3 DEF Sessions
<1>5. QED
  BY ONLY <1>2, <1>4 DEF IInv

LEMMA RefusalKeeps ==
  ASSUME IInv, Reset, UNCHANGED <<build, link>>
  PROVE  IInv'
<1>1. Sessions /\ Underway /\ build \in Builds
  BY DEF IInv
<1>2. Sessions' /\ Underway' /\ build' \in Builds
  BY <1>1 DEF link, Sessions, Underway
<1>3. Buffers' /\ OpenWriter'
  BY <1>1, ResetKeeps
<1>4. QED
  BY ONLY <1>2, <1>3 DEF IInv

LEMMA StepKeeps == IInv /\ [Next]_vars => IInv'
<1> SUFFICES ASSUME IInv, [Next]_vars PROVE IInv'
  OBVIOUS
<1>1. CASE Open
  BY <1>1, OpenKeeps
<1>2. ASSUME NEW v \in Writes, AppendValue(v)
      PROVE  IInv'
  BY <1>2, AppendKeeps
<1>3. ASSUME NEW v \in Writes, Refuse(v)
      PROVE  IInv'
  BY <1>3, RefusalKeeps DEF Refuse
<1>4. ASSUME NEW tag \in Tags, Close(tag)
      PROVE  IInv'
  BY <1>4, CloseKeeps
<1>5. ASSUME NEW tag \in Tags, CloseFails(tag)
      PROVE  IInv'
  BY <1>5, RefusalKeeps DEF CloseFails
<1>6. CASE EncoderFails
  BY <1>6, RefusalKeeps DEF EncoderFails
<1>7. ASSUME NEW tick \in Ticks, SendPacket(FullFlag, tick, 0)
      PROVE  IInv'
  <2>1. FullFlag \in Int /\ 0 \in Int
    BY DEF FullFlag
  <2>2. QED
    BY ONLY <1>7, <2>1, IInv, SendPacketKeeps
<1>8. ASSUME NEW tick \in Ticks, NEW baseline \in {0, tick - 1, tick}, SendPacket(DeltaFlag, tick, baseline)
      PROVE  IInv'
  <2>1. DeltaFlag \in Int
    BY DEF DeltaFlag
  <2>2. tick \in Int
    BY TicksAre
  <2>3. baseline \in Int
    BY ONLY <2>2, baseline \in {0, tick - 1, tick}
  <2>4. QED
    BY ONLY <1>8, <2>1, <2>3, IInv, SendPacketKeeps
<1>9. ASSUME NEW tick \in Ticks, NEW baseline \in {0, tick - 1, tick}, SendCompact(tick, baseline)
      PROVE  IInv'
  BY <1>9, SendCompactKeeps
<1>10. ASSUME NEW tick \in Ticks, NEW id \in SessionIds, SendInit(tick, id)
       PROVE  IInv'
  BY <1>10, SendInitKeeps
<1>11. CASE ReceiveInit
  BY <1>11, ReceiveInitKeeps
<1>12. CASE ReceiveCompact
  BY <1>12, ReceiveCompactKeeps
<1>13. CASE Gone
  BY <1>13 DEF Gone, buffer, IInv, Buffers, OpenWriter, Sessions, Underway
<1>14. CASE UNCHANGED vars
  BY <1>14 DEF vars, buffer, link, IInv, Buffers, OpenWriter, Sessions, Underway
<1>15. QED
  BY <1>1, <1>2, <1>3, <1>4, <1>5, <1>6, <1>7, <1>8, <1>9, <1>10, <1>11, <1>12, <1>13, <1>14 DEF Next

-----------------------------------------------------------------------------
(* A section made in place and the section made of a body: the same values *)
(* written to a fixed buffer, whatever it holds, and to one that grows.    *)

(* Two writers at one place, with the same bits before it. *)
Alike(w, u) ==
  /\ IsWriter(w) /\ IsWriter(u) /\ u.grows
  /\ w.pos = u.pos
  /\ \A i \in 1 .. w.pos : w.buf[i] = u.buf[i]

Likewise(first, second) == first.ok => second.ok /\ Alike(first.val, second.val)

LEMMA WriteAlike ==
  ASSUME NEW w, NEW u, Alike(w, u), NEW bits \in Seq(Bit)
  PROVE  Likewise(Write(w, bits), Write(u, bits))
<1>1. PICK first, second : first = Write(w, bits) /\ second = Write(u, bits)
  OBVIOUS
<1>2. IsWriter(w) /\ IsWriter(u) /\ u.grows /\ w.pos = u.pos /\ \A i \in 1 .. w.pos : w.buf[i] = u.buf[i]
  BY DEF Alike
<1>3. /\ Wrote(w, first)
      /\ first.ok => /\ first.val.pos = w.pos + Len(bits)
                     /\ \A i \in 1 .. w.pos + Len(bits) :
                          first.val.buf[i] = IF i <= w.pos THEN w.buf[i] ELSE bits[i - w.pos]
  BY ONLY <1>1, <1>2, bits \in Seq(Bit), WriteContents
<1>4. /\ Wrote(u, second) /\ second.ok
      /\ second.val.pos = u.pos + Len(bits)
      /\ \A i \in 1 .. u.pos + Len(bits) :
           second.val.buf[i] = IF i <= u.pos THEN u.buf[i] ELSE bits[i - u.pos]
  BY ONLY <1>1, <1>2, bits \in Seq(Bit), WriteContents
<1>5. PICK pos \in Nat : pos = w.pos /\ pos = u.pos
  BY <1>2 DEF IsWriter
<1>6. ASSUME first.ok, NEW i \in 1 .. pos + Len(bits)
      PROVE  first.val.buf[i] = second.val.buf[i]
  <2>1. /\ first.val.buf[i] = IF i <= pos THEN w.buf[i] ELSE bits[i - pos]
        /\ second.val.buf[i] = IF i <= pos THEN u.buf[i] ELSE bits[i - pos]
    BY ONLY <1>3, <1>4, <1>5, <1>6
  <2>2. i <= pos => i \in 1 .. pos
    BY ONLY i \in 1 .. pos + Len(bits), pos \in Nat
  <2>3. i <= pos => w.buf[i] = u.buf[i]
    BY ONLY <1>2, <1>5, <2>2
  <2>4. QED
    BY ONLY <2>1, <2>3
<1>7. ASSUME first.ok
      PROVE  second.ok /\ Alike(first.val, second.val)
  <2>1. IsWriter(first.val) /\ IsWriter(second.val) /\ second.val.grows
    BY ONLY <1>2, <1>3, <1>4, <1>7 DEF Wrote
  <2>2. first.val.pos = pos + Len(bits) /\ second.val.pos = pos + Len(bits)
    BY ONLY <1>3, <1>4, <1>5, <1>7
  <2>3. QED
    BY ONLY <1>4, <1>6, <1>7, <2>1, <2>2 DEF Alike
<1>8. QED
  BY ONLY <1>1, <1>7 DEF Likewise

LEMMA RefusedAlike ==
  ASSUME NEW e, NEW second
  PROVE  Likewise(Err(e), second)
BY DEF Likewise, Err

LEMMA WriteBitsAlike ==
  ASSUME NEW w, NEW u, Alike(w, u), NEW v \in Int, NEW n \in Nat
  PROVE  Likewise(WriteBits(w, v, n), WriteBits(u, v, n))
<1>1. CASE n > U64Bits
  BY <1>1 DEF WriteBits, Likewise, Err
<1>2. CASE n <= U64Bits
  <2>1. n \in Exponents
    BY <1>2, Widths, Powers
  <2>2. Bits(v, n) \in Seq(Bit)
    BY ONLY <2>1, v \in Int, BitsAre
  <2>3. Likewise(Write(w, Bits(v, n)), Write(u, Bits(v, n)))
    BY ONLY <2>2, Alike(w, u), WriteAlike
  <2>4. \/ WriteBits(w, v, n) = Err("ValueOutOfRange")
        \/ WriteBits(w, v, n) = Write(w, Bits(v, n)) /\ WriteBits(u, v, n) = Write(u, Bits(v, n))
    BY <1>2, Widths DEF WriteBits
  <2>5. QED
    BY ONLY <2>3, <2>4, RefusedAlike
<1>3. QED
  BY <1>1, <1>2, Widths

LEMMA WriteAlignedAlike ==
  ASSUME NEW w, NEW u, Alike(w, u), NEW bytes \in Seq(Bit)
  PROVE  Likewise(WriteAligned(w, bytes), WriteAligned(u, bytes))
<1>1. w.pos = u.pos
  BY DEF Alike
<1>2. Likewise(Write(w, bytes), Write(u, bytes))
  BY WriteAlike
<1>3. CASE Misaligned(w.pos) # None
  BY ONLY <1>3, RefusedAlike DEF WriteAligned
<1>4. CASE Misaligned(w.pos) = None
  <2>1. WriteAligned(w, bytes) = Write(w, bytes) /\ WriteAligned(u, bytes) = Write(u, bytes)
    BY ONLY <1>1, <1>4 DEF WriteAligned
  <2>2. QED
    BY ONLY <1>2, <2>1
<1>5. QED
  BY ONLY <1>3, <1>4

LEMMA AlignToByteAlike ==
  ASSUME NEW w, NEW u, Alike(w, u)
  PROVE  Likewise(AlignToByte(w), AlignToByte(u))
<1>1. PICK pos \in Nat : pos = w.pos /\ pos = u.pos
  BY DEF Alike, IsWriter
<1>2. Padding(pos) \in Nat
  <2>1. RoundUp(pos) \in Nat /\ pos <= RoundUp(pos)
    BY RoundUpIs
  <2>2. QED
    BY ONLY <2>1, pos \in Nat DEF Padding
<1>3. Zeros(Padding(pos)) \in Seq(Bit)
  BY <1>2, ZerosAre
<1>4. AlignToByte(w) = Write(w, Zeros(Padding(pos))) /\ AlignToByte(u) = Write(u, Zeros(Padding(pos)))
  BY ONLY <1>1 DEF AlignToByte
<1>5. QED
  BY ONLY <1>3, <1>4, Alike(w, u), WriteAlike

LEMMA WriteVaruAlike ==
  ASSUME NEW w, NEW u, Alike(w, u), NEW v \in 0 .. 2 ^ U32Bits - 1
  PROVE  Likewise(WriteVaru32(w, v), WriteVaru32(u, v))
BY VarintTyped, WriteAlignedAlike DEF WriteVaru32

(* One write after another. *)
LEMMA AlikeThen ==
  ASSUME NEW first, NEW second, Likewise(first, second), NEW third, NEW fourth,
         Alike(first.val, second.val) => Likewise(third, fourth)
  PROVE  Likewise(IF first.ok THEN third ELSE first, IF second.ok THEN fourth ELSE second)
BY DEF Likewise

LEMMA WriteUIntAlike ==
  ASSUME NEW w, NEW u, Alike(w, u), NEW bits \in Nat, NEW v \in Int
  PROVE  Likewise(WriteUInt(w, bits, v), WriteUInt(u, bits, v))
<1>1. Likewise(WriteBits(w, v, bits), WriteBits(u, v, bits))
  BY WriteBitsAlike
<1>2. \/ WriteUInt(w, bits, v) = Err("UnsignedOutOfRange")
      \/ WriteUInt(w, bits, v) = WriteBits(w, v, bits) /\ WriteUInt(u, bits, v) = WriteBits(u, v, bits)
  BY DEF WriteUInt, AndThen, Checked, OutOfRange, Ok, Err, None
<1>3. QED
  BY ONLY <1>1, <1>2, RefusedAlike

LEMMA WriteSIntAlike ==
  ASSUME NEW w, NEW u, Alike(w, u), NEW bits \in Nat, bits <= U64Bits, NEW v \in Int
  PROVE  Likewise(WriteSInt(w, bits, v), WriteSInt(u, bits, v))
<1>1. PICK raw \in Int : raw = AsU64(v) % 2 ^ bits
  <2>1. 2 ^ bits \in Nat \ {0}
    <3>1. bits \in Exponents
      BY Powers, Widths
    <3>2. QED
      BY ONLY <3>1, Powers
  <2>2. AsU64(v) \in Int
    BY ONLY v \in Int, I64Is
  <2>3. AsU64(v) % 2 ^ bits \in 0 .. 2 ^ bits - 1
    BY ONLY <2>1, <2>2, Division
  <2>4. QED
    BY ONLY <2>1, <2>3
<1>2. Likewise(WriteBits(w, raw, bits), WriteBits(u, raw, bits))
  BY WriteBitsAlike
<1>3. \/ WriteSInt(w, bits, v) = Err("SignedOutOfRange")
      \/ WriteSInt(w, bits, v) = WriteBits(w, raw, bits) /\ WriteSInt(u, bits, v) = WriteBits(u, raw, bits)
  BY ONLY <1>1 DEF WriteSInt, AndThen, Checked, OutOfRange, Ok, Err, None
<1>4. QED
  BY ONLY <1>2, <1>3, RefusedAlike

(* What the range of a fixed point makes of a value is not about writers. *)
LEMMA FixedPointWrites ==
  ASSUME NEW traps, NEW codec, codec.min \in Int, codec.max \in Int, NEW v \in Int
  PROVE  \/ \E error : /\ ~error.ok
                       /\ \A w : WriteFixedPoint(traps, w, codec, v) = error
         \/ \E raw \in Int, bits \in Nat :
              \A w : WriteFixedPoint(traps, w, codec, v) = WriteBits(w, raw, bits)
<1>1. PICK offset : offset = I64(traps, v - codec.min)
  OBVIOUS
<1>2. offset.ok => offset.val \in Int
  <2>1. v - codec.min \in Int
    OBVIOUS
  <2>2. AsI64(v - codec.min) \in I64Min .. I64Max /\ offset \in {Err("panic"), Ok(AsI64(v - codec.min))}
    BY ONLY <1>1, <2>1, I64Is
  <2>3. I64Min \in Int /\ I64Max \in Int
    BY NumberWidths DEF I64Min, I64Max
  <2>4. QED
    BY ONLY <2>2, <2>3 DEF Ok, Err
<1>3. PICK bits : bits = FixedRange(traps, codec)
  OBVIOUS
<1>4. bits.ok => bits.val \in Nat
  <2>1. PICK range : range = I64(traps, codec.max - codec.min)
    OBVIOUS
  <2>2. range.ok => range.val \in Int
    <3>1. codec.max - codec.min \in Int
      OBVIOUS
    <3>2. /\ AsI64(codec.max - codec.min) \in I64Min .. I64Max
          /\ range \in {Err("panic"), Ok(AsI64(codec.max - codec.min))}
      BY ONLY <2>1, <3>1, I64Is
    <3>3. I64Min \in Int /\ I64Max \in Int
      BY NumberWidths DEF I64Min, I64Max
    <3>4. QED
      BY ONLY <3>2, <3>3 DEF Ok, Err
  <2>3. bits = IF range.ok THEN Ok(RequiredBits(AsU64(range.val))) ELSE range
    BY ONLY <1>3, <2>1 DEF FixedRange, AndThen
  <2>4. range.ok => RequiredBits(AsU64(range.val)) \in Nat
    <3>1. SUFFICES ASSUME range.ok PROVE RequiredBits(AsU64(range.val)) \in Nat
      OBVIOUS
    <3>2. AsU64(range.val) \in 0 .. 2 ^ U64Bits - 1
      BY ONLY <2>2, <3>1, I64Is
    <3>3. QED
      BY ONLY <3>2, RequiredBitsAre
  <2>5. QED
    BY ONLY <2>3, <2>4 DEF Ok
<1>5. ASSUME NEW w
      PROVE  WriteFixedPoint(traps, w, codec, v) =
               IF v \notin codec.min .. codec.max THEN Err("FixedPointOutOfRange")
               ELSE IF offset.ok
                    THEN IF bits.ok THEN WriteBits(w, AsU64(offset.val), bits.val) ELSE bits
                    ELSE offset
  BY ONLY <1>1, <1>3 DEF WriteFixedPoint, AndThen
<1>6. CASE v \in codec.min .. codec.max /\ offset.ok /\ bits.ok
  <2>1. PICK raw \in Int, n \in Nat : raw = AsU64(offset.val) /\ n = bits.val
    <3>1. AsU64(offset.val) \in Int
      BY ONLY <1>2, <1>6, I64Is
    <3>2. QED
      BY ONLY <1>4, <1>6, <3>1
  <2>2. \A w : WriteFixedPoint(traps, w, codec, v) = WriteBits(w, raw, n)
    BY ONLY <1>5, <1>6, <2>1
  <2>3. QED
    BY ONLY <2>2, raw \in Int, n \in Nat
<1>7. CASE v \notin codec.min .. codec.max
  <2>1. PICK e : e = Err("FixedPointOutOfRange")
    OBVIOUS
  <2>2. ~e.ok
    BY ONLY <2>1 DEF Err
  <2>3. \A w : WriteFixedPoint(traps, w, codec, v) = e
    BY ONLY <1>5, <1>7, <2>1
  <2>4. QED
    BY ONLY <2>2, <2>3
<1>8. CASE v \in codec.min .. codec.max /\ ~offset.ok
  <2>1. \A w : WriteFixedPoint(traps, w, codec, v) = offset
    BY ONLY <1>5, <1>8
  <2>2. QED
    BY ONLY <1>8, <2>1
<1>9. CASE v \in codec.min .. codec.max /\ offset.ok /\ ~bits.ok
  <2>1. \A w : WriteFixedPoint(traps, w, codec, v) = bits
    BY ONLY <1>5, <1>9
  <2>2. QED
    BY ONLY <1>9, <2>1
<1>10. QED
  BY ONLY <1>6, <1>7, <1>8, <1>9

LEMMA WriteFixedPointAlike ==
  ASSUME NEW traps, NEW w, NEW u, Alike(w, u),
         NEW codec, codec.min \in Int, codec.max \in Int, NEW v \in Int
  PROVE  Likewise(WriteFixedPoint(traps, w, codec, v), WriteFixedPoint(traps, u, codec, v))
<1>1. CASE \E error : ~error.ok /\ \A x : WriteFixedPoint(traps, x, codec, v) = error
  BY ONLY <1>1 DEF Likewise
<1>2. CASE \E raw \in Int, bits \in Nat :
             \A x : WriteFixedPoint(traps, x, codec, v) = WriteBits(x, raw, bits)
  <2>1. PICK raw \in Int, bits \in Nat :
          \A x : WriteFixedPoint(traps, x, codec, v) = WriteBits(x, raw, bits)
    BY ONLY <1>2
  <2>2. Likewise(WriteBits(w, raw, bits), WriteBits(u, raw, bits))
    BY ONLY Alike(w, u), raw \in Int, bits \in Nat, WriteBitsAlike
  <2>3. QED
    BY ONLY <2>1, <2>2
<1>3. QED
  BY ONLY <1>1, <1>2, codec.min \in Int, codec.max \in Int, v \in Int, FixedPointWrites

LEMMA WriteVarUIntAlike ==
  ASSUME NEW traps, NEW w, NEW u, Alike(w, u),
         NEW codec, codec.kind \in {"VarUInt", "VarSInt"}, NEW v \in Int
  PROVE  Likewise(WriteField(traps, w, codec, v), WriteField(traps, u, codec, v))
<1>1. PICK H \in Nat \ {0}, W \in Nat \ {0} : H = 2 ^ (U32Bits - 1) /\ W = 2 ^ U32Bits
  BY NumberWidths
<1>2. PICK first, second : first = AlignToByte(w) /\ second = AlignToByte(u)
  OBVIOUS
<1>3. Likewise(first, second)
  BY <1>2, AlignToByteAlike
<1>4. CASE codec.kind = "VarUInt"
  <2>1. PICK third, fourth : third = WriteVaru32(first.val, v) /\ fourth = WriteVaru32(second.val, v)
    OBVIOUS
  <2>2. v \in 0 .. W - 1 /\ Alike(first.val, second.val) => Likewise(third, fourth)
    BY ONLY <1>1, <2>1, WriteVaruAlike
  <2>3. v \in 0 .. W - 1 => Likewise(IF first.ok THEN third ELSE first, IF second.ok THEN fourth ELSE second)
    BY ONLY <1>3, <2>2, AlikeThen
  <2>4. /\ WriteField(traps, w, codec, v)
             = IF v \in 0 .. W - 1 THEN IF first.ok THEN third ELSE first ELSE Err("VarUIntOutOfRange")
        /\ WriteField(traps, u, codec, v)
             = IF v \in 0 .. W - 1 THEN IF second.ok THEN fourth ELSE second ELSE Err("VarUIntOutOfRange")
    BY ONLY <1>1, <1>2, <1>4, <2>1 DEF WriteField, AndThen, Checked, OutOfRange, Ok, Err, None
  <2>5. QED
    BY ONLY <2>3, <2>4, RefusedAlike
<1>5. CASE codec.kind = "VarSInt"
  <2>1. PICK third, fourth :
          third = WriteVaru32(first.val, Zigzag(v)) /\ fourth = WriteVaru32(second.val, Zigzag(v))
    OBVIOUS
  <2>2. v \in -H .. H - 1 /\ Alike(first.val, second.val) => Likewise(third, fourth)
    <3>1. SUFFICES ASSUME v \in -H .. H - 1, Alike(first.val, second.val) PROVE Likewise(third, fourth)
      OBVIOUS
    <3>2. Zigzag(v) \in 0 .. 2 ^ U32Bits - 1
      BY ONLY <1>1, <3>1, ZigzagIs
    <3>3. QED
      BY ONLY <2>1, <3>1, <3>2, WriteVaruAlike
  <2>3. v \in -H .. H - 1 => Likewise(IF first.ok THEN third ELSE first, IF second.ok THEN fourth ELSE second)
    BY ONLY <1>3, <2>2, AlikeThen
  <2>4. /\ WriteField(traps, w, codec, v)
             = IF v \in -H .. H - 1 THEN IF first.ok THEN third ELSE first ELSE Err("VarSIntOutOfRange")
        /\ WriteField(traps, u, codec, v)
             = IF v \in -H .. H - 1 THEN IF second.ok THEN fourth ELSE second ELSE Err("VarSIntOutOfRange")
    BY ONLY <1>1, <1>2, <1>5, <2>1 DEF WriteField, WriteVars32, AndThen, Checked, OutOfRange, Ok, Err, None
  <2>5. QED
    BY ONLY <2>3, <2>4, RefusedAlike
<1>6. QED
  BY <1>4, <1>5

LEMMA WriteValueAlike ==
  ASSUME NEW traps \in BOOLEAN, NEW w, NEW u, Alike(w, u), NEW v, Writable(v)
  PROVE  Likewise(WriteValue(traps, w, v), WriteValue(traps, u, v))
<1>1. CASE v.kind = "Field"
  <2>1. /\ v.codec.kind \in {"Bool", "UInt", "SInt", "VarUInt", "VarSInt", "FixedPoint"}
        /\ ValidField(v.codec)
        /\ v.codec.kind = "Bool" => v.value \in {0, 1}
        /\ v.codec.kind # "Bool" => v.value \in Int
        /\ v.codec.kind = "FixedPoint" => {v.codec.min, v.codec.max} \subseteq I64Min .. I64Max
    BY <1>1 DEF Writable
  <2>2. /\ WriteValue(traps, w, v) = WriteField(traps, w, v.codec, v.value)
        /\ WriteValue(traps, u, v) = WriteField(traps, u, v.codec, v.value)
    BY <1>1 DEF WriteValue
  <2>3. CASE v.codec.kind = "Bool"
    <3>1. <<v.value>> \in Seq(Bit)
      BY <2>1, <2>3 DEF Bit
    <3>2. Likewise(Write(w, <<v.value>>), Write(u, <<v.value>>))
      BY ONLY Alike(w, u), <3>1, WriteAlike
    <3>3. QED
      BY ONLY <2>2, <2>3, <3>2 DEF WriteField
  <2>4. CASE v.codec.kind = "UInt"
    <3>1. v.codec.bits \in Nat /\ v.value \in Int
      BY <2>1, <2>4, Widths DEF ValidField
    <3>2. Likewise(WriteUInt(w, v.codec.bits, v.value), WriteUInt(u, v.codec.bits, v.value))
      BY ONLY Alike(w, u), <3>1, WriteUIntAlike
    <3>3. QED
      BY ONLY <2>2, <2>4, <3>2 DEF WriteField
  <2>5. CASE v.codec.kind = "SInt"
    <3>1. v.codec.bits \in Nat /\ v.codec.bits <= U64Bits /\ v.value \in Int
      BY <2>1, <2>5, Widths DEF ValidField
    <3>2. Likewise(WriteSInt(w, v.codec.bits, v.value), WriteSInt(u, v.codec.bits, v.value))
      BY ONLY Alike(w, u), <3>1, WriteSIntAlike
    <3>3. QED
      BY ONLY <2>2, <2>5, <3>2 DEF WriteField
  <2>6. CASE v.codec.kind \in {"VarUInt", "VarSInt"}
    <3>1. v.value \in Int
      BY <2>1, <2>6
    <3>2. QED
      BY ONLY <2>2, <2>6, <3>1, Alike(w, u), WriteVarUIntAlike
  <2>7. CASE v.codec.kind = "FixedPoint"
    <3>1. v.codec.min \in Int /\ v.codec.max \in Int /\ v.value \in Int
      <4>1. I64Min .. I64Max \subseteq Int
        BY NumberWidths DEF I64Min, I64Max
      <4>2. QED
        BY <2>1, <2>7, <4>1
    <3>2. Likewise(WriteFixedPoint(traps, w, v.codec, v.value), WriteFixedPoint(traps, u, v.codec, v.value))
      BY ONLY Alike(w, u), <3>1, WriteFixedPointAlike
    <3>3. QED
      BY ONLY <2>2, <2>7, <3>2 DEF WriteField
  <2>8. QED
    BY ONLY <2>1, <2>3, <2>4, <2>5, <2>6, <2>7
<1>2. CASE v.kind = "Align"
  BY <1>2, AlignToByteAlike DEF WriteValue
<1>3. CASE v.kind = "Id"
  <2>1. v.value \in Int
    BY <1>3, NumberWidths DEF Writable
  <2>2. U32Bytes \in 0 .. U64Bytes
    BY WidthAssumption, Widths
  <2>3. LittleEndian(v.value, U32Bytes) \in Seq(Bit)
    BY ONLY <2>1, <2>2, LittleEndianIs
  <2>4. Likewise(WriteAligned(w, LittleEndian(v.value, U32Bytes)), WriteAligned(u, LittleEndian(v.value, U32Bytes)))
    BY ONLY Alike(w, u), <2>3, WriteAlignedAlike
  <2>5. QED
    BY ONLY <1>3, <2>4 DEF WriteValue
<1>4. CASE v.kind = "Byte"
  <2>1. v.value \in Int
    <3>1. PICK B \in Nat : B = 2 ^ ByteBits
      BY Powers, Shifts
    <3>2. v.value \in 0 .. B - 1
      BY <1>4, <3>1 DEF Writable
    <3>3. QED
      BY ONLY <3>2, B \in Nat
  <2>2. Bits(v.value, ByteBits) \in Seq(Bit)
    BY ONLY <2>1, Shifts, BitsAre
  <2>3. Likewise(WriteAligned(w, Bits(v.value, ByteBits)), WriteAligned(u, Bits(v.value, ByteBits)))
    BY ONLY Alike(w, u), <2>2, WriteAlignedAlike
  <2>4. QED
    BY ONLY <1>4, <2>3 DEF WriteValue
<1>5. CASE v.kind = "Count"
  <2>1. v.value \in 0 .. 2 ^ U32Bits - 1
    BY <1>5 DEF Writable
  <2>2. Likewise(WriteVaru32(w, v.value), WriteVaru32(u, v.value))
    BY ONLY Alike(w, u), <2>1, WriteVaruAlike
  <2>3. QED
    BY ONLY <1>5, <2>2 DEF WriteValue
<1>6. CASE v.kind = "Index"
  <2>1. v.value \in Int /\ v.bits \in Nat
    BY <1>6, NumberWidths DEF Writable
  <2>2. Likewise(WriteBits(w, v.value, v.bits), WriteBits(u, v.value, v.bits))
    BY ONLY Alike(w, u), <2>1, WriteBitsAlike
  <2>3. QED
    BY ONLY <1>6, <2>2 DEF WriteValue
<1>7. v.kind \in {"Field", "Align", "Id", "Byte", "Count", "Index"}
  BY DEF Writable
<1>8. QED
  BY ONLY <1>1, <1>2, <1>3, <1>4, <1>5, <1>6, <1>7

(* The body of a growable writer, value by value. *)
Body(traps, vs) == FoldLeft(LAMBDA w, v : WriteValue(traps, w, v).val, NewVecWriter, vs)

(* What a reader has after one value more: the values so far, or the error. *)
ReadOn(traps, result, v) ==
  AndThen(result, LAMBDA r :
  AndThen(ReadValue(traps, r.reader, v), LAMBDA t :
  Ok([values |-> Append(r.values, t.value), reader |-> t.reader])))

Reading(traps, data, vs) ==
  FoldLeft(LAMBDA result, v : ReadOn(traps, result, v), Ok([values |-> <<>>, reader |-> NewReader(data)]), vs)

(* Both go through the values of a body.  A write that fails has no value: *)
(* the folds are defined by the steps whatever they give.                  *)
Turn(reads, traps, x, v) == IF reads THEN ReadOn(traps, x, v) ELSE WriteValue(traps, x, v).val

Along(reads, traps, base, vs, S, g) ==
  [s \in S |-> IF s = {} THEN base ELSE Turn(reads, traps, g[s \ {Max(s)}], vs[Max(s)])]

LEMMA SmallerSets ==
  ASSUME NEW N \in Nat, NEW s \in SUBSET (1 .. N)
  PROVE  /\ Cardinality(s) \in 0 .. N
         /\ Cardinality(s) = 0 <=> s = {}
         /\ s # {} => /\ s \ {Max(s)} \in SUBSET (1 .. N)
                      /\ Cardinality(s \ {Max(s)}) = Cardinality(s) - 1
<1>1. IsFiniteSet(1 .. N) /\ Cardinality(1 .. N) = N
  <2>1. IsFiniteSet(1 .. N) /\ Cardinality(1 .. N) = IF 1 > N THEN 0 ELSE N - 1 + 1
    BY FS_Interval
  <2>2. CASE N = 0
    BY <2>1, <2>2
  <2>3. CASE N # 0
    <3>1. ~ (1 > N) /\ N - 1 + 1 = N
      BY <2>3
    <3>2. QED
      BY <2>1, <3>1
  <2>4. QED
    BY <2>2, <2>3
<1>2. IsFiniteSet(s) /\ Cardinality(s) <= N
  <2>1. IsFiniteSet(s) /\ Cardinality(s) <= Cardinality(1 .. N)
    BY <1>1, FS_Subset
  <2>2. QED
    BY ONLY <1>1, <2>1
<1>3. Cardinality(s) \in Nat /\ (Cardinality(s) = 0 <=> s = {})
  BY <1>2, FS_CardinalityType, FS_EmptySet
<1>4. s # {} => Max(s) \in s
  BY MaxIn
<1>5. s # {} => Cardinality(s \ {Max(s)}) = Cardinality(s) - 1
  BY <1>2, <1>4, FS_RemoveElement
<1>6. s \ {Max(s)} \in SUBSET (1 .. N)
  OBVIOUS
<1>7. Cardinality(s) \in 0 .. N
  BY ONLY <1>2, <1>3, N \in Nat
<1>8. QED
  BY ONLY <1>3, <1>5, <1>6, <1>7

LEMMA TurnsExist ==
  ASSUME NEW reads, NEW traps, NEW base, NEW vs, NEW N \in Nat
  PROVE  \E g : g = Along(reads, traps, base, vs, SUBSET (1 .. N), g)
<1> DEFINE D == SUBSET (1 .. N)
           Level(n) == {s \in D : Cardinality(s) <= n}
           G == {n \in 0 .. N : \E g : g = Along(reads, traps, base, vs, Level(n), g)}
<1>1. 0 \in G
  <2> DEFINE g == [s \in Level(0) |-> base]
  <2>1. \A s \in Level(0) : s = {}
    <3> SUFFICES ASSUME NEW s \in D, Cardinality(s) <= 0 PROVE s = {}
      OBVIOUS
    <3>1. Cardinality(s) \in 0 .. N /\ (Cardinality(s) = 0 <=> s = {})
      BY SmallerSets
    <3>2. QED
      BY <3>1
  <2>2. g = Along(reads, traps, base, vs, Level(0), g)
    BY <2>1 DEF Along
  <2> HIDE DEF g, Level
  <2>3. QED
    BY <2>2
<1>2. ASSUME NEW n \in 0 .. N - 1, n \in G
      PROVE  n + 1 \in G
  <2>1. PICK h : h = Along(reads, traps, base, vs, Level(n), h)
    BY <1>2
  <2> DEFINE g == Along(reads, traps, base, vs, Level(n + 1), h)
  <2>2. ASSUME NEW s \in Level(n)
        PROVE  s \in Level(n + 1) /\ g[s] = h[s]
    <3>1. s \in Level(n + 1)
      <4>1. Cardinality(s) \in 0 .. N
        BY SmallerSets
      <4>2. QED
        BY <4>1
    <3> HIDE DEF Level
    <3>2. h[s] = IF s = {} THEN base ELSE Turn(reads, traps, h[s \ {Max(s)}], vs[Max(s)])
      BY ONLY <2>1, s \in Level(n) DEF Along
    <3>3. g[s] = IF s = {} THEN base ELSE Turn(reads, traps, h[s \ {Max(s)}], vs[Max(s)])
      BY ONLY <3>1 DEF Along
    <3>4. QED
      BY ONLY <3>1, <3>2, <3>3
  <2>3. ASSUME NEW s \in Level(n + 1), s # {}
        PROVE  s \ {Max(s)} \in Level(n)
    <3>1. /\ s \ {Max(s)} \in D
          /\ Cardinality(s \ {Max(s)}) = Cardinality(s) - 1
          /\ Cardinality(s) \in 0 .. N
      BY <2>3, SmallerSets
    <3>2. Cardinality(s \ {Max(s)}) <= n
      BY <3>1
    <3>3. QED
      BY ONLY <3>1, <3>2
  <2>4. g = Along(reads, traps, base, vs, Level(n + 1), g)
    <3> HIDE DEF Level
    <3>1. ASSUME NEW s \in Level(n + 1), s # {}
          PROVE  g[s \ {Max(s)}] = h[s \ {Max(s)}]
      BY ONLY <2>2, <2>3, <3>1
    <3> DEFINE f == g
    <3>2. \A s \in Level(n + 1) : s # {} => f[s \ {Max(s)}] = h[s \ {Max(s)}]
      BY ONLY <3>1
    <3>3. f = Along(reads, traps, base, vs, Level(n + 1), h)
      OBVIOUS
    <3> HIDE DEF f, g
    <3>4. f = Along(reads, traps, base, vs, Level(n + 1), f)
      BY ONLY <3>2, <3>3 DEF Along
    <3>5. QED
      BY <3>4 DEF f
  <2> HIDE DEF g, Level
  <2>5. n + 1 \in 0 .. N
    OBVIOUS
  <2>6. \E f : f = Along(reads, traps, base, vs, Level(n + 1), f)
    BY ONLY <2>4
  <2>7. QED
    BY ONLY <2>5, <2>6
<1>3. N \in G
  <2> HIDE DEF G
  <2>1. \A n \in 0 .. N : n \in G
    BY <1>1, <1>2, UpwardInduction
  <2>2. QED
    BY <2>1
<1>4. PICK g : g = Along(reads, traps, base, vs, Level(N), g)
  BY <1>3
<1>5. Level(N) = D
  <2>1. \A s \in D : Cardinality(s) <= N
    <3> SUFFICES ASSUME NEW s \in D PROVE Cardinality(s) <= N
      OBVIOUS
    <3>1. Cardinality(s) \in 0 .. N
      BY SmallerSets
    <3>2. QED
      BY <3>1
  <2>2. QED
    BY <2>1
<1>6. QED
  BY <1>4, <1>5

LEMMA BodyIs ==
  ASSUME NEW traps, NEW T, NEW vs \in Seq(T)
  PROVE  \E h : /\ h[0] = NewVecWriter
                /\ \A n \in 1 .. Len(vs) : h[n] = WriteValue(traps, h[n - 1], vs[n]).val
                /\ Body(traps, vs) = h[Len(vs)]
<1> DEFINE N == Len(vs)
           D == SUBSET (1 .. N)
           iter == CHOOSE g : g = [s \in D |-> IF s = {} THEN NewVecWriter
                                               ELSE LET x == Max(s) IN WriteValue(traps, g[s \ {x}], vs[x]).val]
<1>1. N \in Nat /\ DOMAIN vs = 1 .. N
  OBVIOUS
<1>2. Body(traps, vs) = iter[1 .. N]
  BY <1>1 DEF Body, FoldLeft, MapThenFoldSet
<1>3. iter = [s \in D |-> IF s = {} THEN NewVecWriter ELSE WriteValue(traps, iter[s \ {Max(s)}], vs[Max(s)]).val]
  <2>1. PICK g : g = Along(FALSE, traps, NewVecWriter, vs, D, g)
    <3>1. PICK n \in Nat : n = N
      BY ONLY <1>1
    <3>2. PICK g : g = Along(FALSE, traps, NewVecWriter, vs, SUBSET (1 .. n), g)
      BY ONLY n \in Nat, TurnsExist
    <3>3. QED
      BY ONLY <3>1, <3>2
  <2>2. g = [s \in D |-> IF s = {} THEN NewVecWriter ELSE WriteValue(traps, g[s \ {Max(s)}], vs[Max(s)]).val]
    BY ONLY <2>1 DEF Along, Turn
  <2>3. QED
    BY <2>2
<1> HIDE DEF iter
<1> DEFINE h == [n \in 0 .. N |-> iter[1 .. n]]
<1>4. h[0] = NewVecWriter
  <2>1. 0 \in 0 .. N /\ 1 .. 0 \in D /\ 1 .. 0 = {}
    BY <1>1, InitialPositions
  <2>2. QED
    BY <1>3, <2>1
<1>5. ASSUME NEW n \in 1 .. N
      PROVE  h[n] = WriteValue(traps, h[n - 1], vs[n]).val
  <2>0. n \in 0 .. N /\ n # 0 /\ n - 1 \in 0 .. N
    BY <1>1
  <2>1. 1 .. n \in D /\ 1 .. n # {} /\ Max(1 .. n) = n /\ (1 .. n) \ {n} = 1 .. n - 1
    BY <1>1, <2>0, InitialPositions
  <2>2. iter[1 .. n] = WriteValue(traps, iter[1 .. n - 1], vs[n]).val
    BY <1>3, <2>1
  <2>3. QED
    BY <2>0, <2>2
<1>6. h[N] = iter[1 .. N]
  BY <1>1
<1> HIDE DEF h
<1>7. QED
  BY <1>2, <1>4, <1>5, <1>6

(* The results after each of the values. *)
ReadsInTurn(traps, data, vs, h) ==
  /\ h[0] = Ok([values |-> <<>>, reader |-> NewReader(data)])
  /\ \A n \in 1 .. Len(vs) : h[n] = ReadOn(traps, h[n - 1], vs[n])
  /\ Reading(traps, data, vs) = h[Len(vs)]

LEMMA ReadingIs ==
  ASSUME NEW traps, NEW data, NEW T, NEW vs \in Seq(T)
  PROVE  \E h : ReadsInTurn(traps, data, vs, h)
<1> DEFINE base == Ok([values |-> <<>>, reader |-> NewReader(data)])
           N == Len(vs)
           D == SUBSET (1 .. N)
           iter == CHOOSE g : g = [s \in D |-> IF s = {} THEN base
                                               ELSE LET x == Max(s) IN ReadOn(traps, g[s \ {x}], vs[x])]
<1>1. N \in Nat /\ DOMAIN vs = 1 .. N
  OBVIOUS
<1>2. Reading(traps, data, vs) = iter[1 .. N]
  BY <1>1 DEF Reading, FoldLeft, MapThenFoldSet
<1>3. iter = [s \in D |-> IF s = {} THEN base ELSE ReadOn(traps, iter[s \ {Max(s)}], vs[Max(s)])]
  <2>1. PICK g : g = Along(TRUE, traps, base, vs, D, g)
    <3>1. PICK n \in Nat : n = N
      BY ONLY <1>1
    <3>2. PICK b : b = base
      OBVIOUS
    <3>3. PICK g : g = Along(TRUE, traps, b, vs, SUBSET (1 .. n), g)
      BY ONLY n \in Nat, TurnsExist
    <3>4. QED
      BY ONLY <3>1, <3>2, <3>3
  <2>2. g = [s \in D |-> IF s = {} THEN base ELSE ReadOn(traps, g[s \ {Max(s)}], vs[Max(s)])]
    BY ONLY <2>1 DEF Along, Turn
  <2>3. QED
    BY <2>2
<1> HIDE DEF iter
<1> DEFINE h == [n \in 0 .. N |-> iter[1 .. n]]
<1>4. h[0] = base
  <2>1. 0 \in 0 .. N /\ 1 .. 0 \in D /\ 1 .. 0 = {}
    BY <1>1, InitialPositions
  <2>2. QED
    BY <1>3, <2>1
<1>5. ASSUME NEW n \in 1 .. N
      PROVE  h[n] = ReadOn(traps, h[n - 1], vs[n])
  <2>0. n \in 0 .. N /\ n # 0 /\ n - 1 \in 0 .. N
    BY <1>1
  <2>1. 1 .. n \in D /\ 1 .. n # {} /\ Max(1 .. n) = n /\ (1 .. n) \ {n} = 1 .. n - 1
    BY <1>1, <2>0, InitialPositions
  <2>2. iter[1 .. n] = ReadOn(traps, iter[1 .. n - 1], vs[n])
    BY <1>3, <2>1
  <2>3. QED
    BY <2>0, <2>2
<1>6. h[N] = iter[1 .. N]
  BY <1>1
<1> HIDE DEF h
<1>7. QED
  BY <1>2, <1>4, <1>5, <1>6 DEF ReadsInTurn

LEMMA BodyStarts ==
  ASSUME NEW traps
  PROVE  Body(traps, <<>>) = NewVecWriter
<1>1. <<>> \in Seq(Bit) /\ Len(<<>>) = 0
  OBVIOUS
<1>2. PICK h : h[0] = NewVecWriter /\ Body(traps, <<>>) = h[Len(<<>>)]
  BY ONLY <1>1, BodyIs
<1>3. QED
  BY ONLY <1>1, <1>2

LEMMA BodyGrows ==
  ASSUME NEW traps, NEW T, NEW vs \in Seq(T), NEW v \in T
  PROVE  Body(traps, Append(vs, v)) = WriteValue(traps, Body(traps, vs), v).val
<1>1. PICK N \in Nat : N = Len(vs)
  OBVIOUS
<1>2. PICK more \in Seq(T) : more = Append(vs, v)
  <2>1. Append(vs, v) \in Seq(T)
    OBVIOUS
  <2>2. QED
    BY ONLY <2>1
<1>3. Len(more) = N + 1 /\ more[N + 1] = v /\ \A n \in 1 .. N : more[n] = vs[n]
  BY ONLY <1>1, <1>2, vs \in Seq(T), v \in T, N \in Nat
<1>4. PICK h : /\ h[0] = NewVecWriter
               /\ \A n \in 1 .. N : h[n] = WriteValue(traps, h[n - 1], vs[n]).val
               /\ Body(traps, vs) = h[N]
  BY ONLY <1>1, vs \in Seq(T), BodyIs
<1>5. PICK f : /\ f[0] = NewVecWriter
               /\ \A n \in 1 .. N + 1 : f[n] = WriteValue(traps, f[n - 1], more[n]).val
               /\ Body(traps, more) = f[N + 1]
  <2>1. PICK f : /\ f[0] = NewVecWriter
                 /\ \A n \in 1 .. Len(more) : f[n] = WriteValue(traps, f[n - 1], more[n]).val
                 /\ Body(traps, more) = f[Len(more)]
    BY ONLY more \in Seq(T), BodyIs
  <2>2. Len(more) = N + 1
    BY <1>3
  <2>3. QED
    BY ONLY <2>1, <2>2
<1> DEFINE G == {n \in 0 .. N : f[n] = h[n]}
<1>6. 0 \in G
  BY <1>4, <1>5
<1>7. ASSUME NEW n \in 0 .. N - 1, n \in G
      PROVE  n + 1 \in G
  <2>1. n + 1 \in 1 .. N /\ n + 1 \in 1 .. N + 1 /\ n + 1 \in 0 .. N /\ (n + 1) - 1 = n /\ f[n] = h[n]
    BY <1>7
  <2>2. f[n + 1] = WriteValue(traps, f[n], more[n + 1]).val /\ h[n + 1] = WriteValue(traps, h[n], vs[n + 1]).val
    BY ONLY <1>4, <1>5, <2>1
  <2>3. f[n + 1] = h[n + 1]
    BY ONLY <1>3, <2>1, <2>2
  <2>4. QED
    BY <2>1, <2>3
<1>8. N \in G
  <2> HIDE DEF G
  <2>1. \A n \in 0 .. N : n \in G
    BY <1>6, <1>7, UpwardInduction
  <2>2. QED
    BY <2>1
<1>9. N + 1 \in 1 .. N + 1 /\ (N + 1) - 1 = N /\ f[N] = h[N]
  BY <1>8
<1>10. f[N + 1] = WriteValue(traps, f[(N + 1) - 1], more[N + 1]).val
  BY ONLY <1>5, <1>9
<1>11. QED
  BY ONLY <1>2, <1>3, <1>4, <1>5, <1>9, <1>10

(* The list of parts, one part longer. *)
LEMMA FlattenGrows ==
  ASSUME NEW T, NEW ss \in Seq(Seq(T)), NEW s \in Seq(T)
  PROVE  FlattenSeq(Append(ss, s)) = FlattenSeq(ss) \o s
<1>1. PICK N \in Nat : N = Len(ss)
  OBVIOUS
<1>2. PICK more \in Seq(Seq(T)) : more = Append(ss, s)
  <2>1. Append(ss, s) \in Seq(Seq(T))
    OBVIOUS
  <2>2. QED
    BY ONLY <2>1
<1>3. Len(more) = N + 1 /\ more[N + 1] = s /\ \A n \in 1 .. N : more[n] = ss[n]
  <2>1. ASSUME NEW X, NEW xs \in Seq(X), NEW x \in X, NEW m, m = Append(xs, x), N = Len(xs)
        PROVE  Len(m) = N + 1 /\ m[N + 1] = x /\ \A n \in 1 .. N : m[n] = xs[n]
    BY ONLY <2>1, N \in Nat, xs \in Seq(X), x \in X
  <2>2. QED
    BY ONLY <1>1, <1>2, <2>1, ss \in Seq(Seq(T)), s \in Seq(T)
<1>4. PICK h : /\ h[0] = <<>>
               /\ \A n \in 1 .. N : h[n] = h[n - 1] \o ss[n]
               /\ FlattenSeq(ss) = h[N]
  BY ONLY <1>1, ss \in Seq(Seq(T)), FlattenIs
<1>5. PICK f : /\ f[0] = <<>>
               /\ \A n \in 1 .. N + 1 : f[n] = f[n - 1] \o more[n]
               /\ FlattenSeq(more) = f[N + 1]
  <2>1. PICK f : /\ f[0] = <<>>
                 /\ \A n \in 1 .. Len(more) : f[n] = f[n - 1] \o more[n]
                 /\ FlattenSeq(more) = f[Len(more)]
    BY ONLY more \in Seq(Seq(T)), FlattenIs
  <2>2. Len(more) = N + 1
    BY <1>3
  <2>3. QED
    BY ONLY <2>1, <2>2
<1> DEFINE G == {n \in 0 .. N : f[n] = h[n]}
<1>6. 0 \in G
  BY <1>4, <1>5
<1>7. ASSUME NEW n \in 0 .. N - 1, n \in G
      PROVE  n + 1 \in G
  <2>1. n + 1 \in 1 .. N /\ n + 1 \in 1 .. N + 1 /\ n + 1 \in 0 .. N /\ (n + 1) - 1 = n /\ f[n] = h[n]
    BY <1>7
  <2>2. f[n + 1] = f[n] \o more[n + 1] /\ h[n + 1] = h[n] \o ss[n + 1]
    BY ONLY <1>4, <1>5, <2>1
  <2>3. f[n + 1] = h[n + 1]
    BY ONLY <1>3, <2>1, <2>2
  <2>4. QED
    BY <2>1, <2>3
<1>8. N \in G
  <2> HIDE DEF G
  <2>1. \A n \in 0 .. N : n \in G
    BY <1>6, <1>7, UpwardInduction
  <2>2. QED
    BY <2>1
<1>9. N + 1 \in 1 .. N + 1 /\ (N + 1) - 1 = N /\ f[N] = h[N]
  BY <1>8
<1>10. f[N + 1] = f[(N + 1) - 1] \o more[N + 1]
  BY ONLY <1>5, <1>9
<1>11. QED
  BY ONLY <1>2, <1>3, <1>4, <1>5, <1>9, <1>10

(* A writer at the start of a buffer, whatever that holds. *)
LEMMA StartsAlike ==
  ASSUME NEW w, IsWriter(w), w.pos = 0
  PROVE  Alike(w, NewVecWriter)
<1>1. PICK u : u = NewVecWriter
  OBVIOUS
<1>2. IsWriter(u) /\ u.grows /\ u.pos = 0
  BY ONLY <1>1, VecWriterIs
<1>3. \A i \in 1 .. w.pos : w.buf[i] = u.buf[i]
  <2>1. 1 .. 0 = {}
    OBVIOUS
  <2>2. QED
    BY <2>1
<1>4. Alike(w, u)
  BY ONLY <1>2, <1>3, IsWriter(w), w.pos = 0 DEF Alike
<1>5. QED
  BY ONLY <1>1, <1>4

(* What was written up to a whole byte is all of the body. *)
LEMMA FinishAlike ==
  ASSUME NEW w, NEW u, Alike(w, u), NEW k \in Nat, w.pos = ByteBits * k
  PROVE  Finish(w) = Finish(u)
<1>1. PICK pos \in Nat : pos = w.pos /\ pos = u.pos /\ pos <= Len(w.buf) /\ pos <= Len(u.buf)
  BY DEF Alike, IsWriter
<1>2. RoundUp(pos) = pos
  <2>1. RoundUp(pos) \in Nat /\ pos <= RoundUp(pos) /\ (pos <= ByteBits * k => RoundUp(pos) <= ByteBits * k)
    BY ONLY pos \in Nat, k \in Nat, RoundUpIs
  <2>2. pos = ByteBits * k
    BY ONLY <1>1, w.pos = ByteBits * k
  <2>3. QED
    BY ONLY <2>1, <2>2, pos \in Nat
<1>3. PICK a \in Seq(Bit), b \in Seq(Bit) : a = w.buf /\ b = u.buf
  BY DEF Alike, IsWriter
<1>4. \A i \in 1 .. pos : a[i] = b[i]
  BY ONLY <1>1, <1>3, Alike(w, u) DEF Alike
<1>5. Finish(w) = SubSeq(a, 1, pos) /\ Finish(u) = SubSeq(b, 1, pos)
  BY ONLY <1>1, <1>2, <1>3 DEF Finish
<1>6. pos <= Len(a) /\ pos <= Len(b)
  BY ONLY <1>1, <1>3
<1>7. /\ SubSeq(a, 1, pos) = [i \in 1 .. pos |-> SubSeq(a, 1, pos)[i]]
      /\ SubSeq(b, 1, pos) = [i \in 1 .. pos |-> SubSeq(b, 1, pos)[i]]
      /\ \A i \in 1 .. pos : SubSeq(a, 1, pos)[i] = a[i] /\ SubSeq(b, 1, pos)[i] = b[i]
  BY ONLY <1>6, a \in Seq(Bit), b \in Seq(Bit), pos \in Nat
<1>8. SubSeq(a, 1, pos) = SubSeq(b, 1, pos)
  BY ONLY <1>4, <1>7
<1>9. QED
  BY ONLY <1>5, <1>8

Alignment == [kind |-> "Align"]

(* A body that is closed: both are aligned, and are the same bytes. *)
LEMMA ClosedBody ==
  ASSUME NEW traps, NEW vs \in Seq(Writes), NEW w, Alike(w, Body(traps, vs)),
         NEW aligned, aligned = AlignToByte(w), aligned.ok
  PROVE  Finish(aligned.val) = Finish(Body(traps, Append(vs, Alignment)))
<1>1. PICK u : u = Body(traps, vs)
  OBVIOUS
<1>2. PICK second : second = AlignToByte(u)
  OBVIOUS
<1>3. Alike(w, u)
  BY ONLY <1>1, Alike(w, Body(traps, vs))
<1>4. Alike(aligned.val, second.val)
  <2>1. Likewise(aligned, second)
    BY ONLY <1>2, <1>3, aligned = AlignToByte(w), AlignToByteAlike
  <2>2. QED
    BY ONLY <2>1, aligned.ok DEF Likewise
<1>5. Body(traps, Append(vs, Alignment)) = second.val
  <2>1. vs \in Seq(Writes \cup {Alignment}) /\ Alignment \in Writes \cup {Alignment}
    OBVIOUS
  <2>2. Body(traps, Append(vs, Alignment)) = WriteValue(traps, u, Alignment).val
    BY ONLY <1>1, <2>1, BodyGrows
  <2>3. Alignment.kind = "Align"
    BY DEF Alignment
  <2>4. WriteValue(traps, u, Alignment) = AlignToByte(u)
    BY ONLY <2>3 DEF WriteValue
  <2>5. QED
    BY ONLY <1>2, <2>2, <2>4
<1>6. PICK x : x = aligned.val
  OBVIOUS
<1>7. IsWriter(x) /\ WholeBytes(SubSeq(x.buf, 1, x.pos))
  <2>1. IsWriter(w)
    BY ONLY <1>3 DEF Alike
  <2>2. /\ Wrote(w, aligned)
        /\ aligned.ok => WholeBytes(SubSeq(aligned.val.buf, 1, aligned.val.pos))
    BY ONLY <2>1, aligned = AlignToByte(w), AlignToByteIs
  <2>3. QED
    BY ONLY <1>6, <2>2, aligned.ok DEF Wrote
<1>8. PICK k \in Nat : x.pos = ByteBits * k
  <2>1. PICK k \in Nat : Len(SubSeq(x.buf, 1, x.pos)) = ByteBits * k
    BY ONLY <1>7 DEF WholeBytes
  <2>2. Len(SubSeq(x.buf, 1, x.pos)) = x.pos
    BY ONLY <1>7 DEF IsWriter
  <2>3. QED
    BY ONLY <2>1, <2>2
<1>9. QED
  BY ONLY <1>4, <1>5, <1>6, <1>8, FinishAlike

-----------------------------------------------------------------------------
(* The second invariant, for what the sections hold: an open writer and    *)
(* the growable writer of its body are alike, and what was closed is the   *)
(* encoded sections.                                                       *)

SectionOf(traps, section) ==
  EncodeSection(section[1], Finish(Body(traps, Append(section[2], Alignment))))

Encoded(traps, said) == FlattenSeq([i \in DOMAIN said |-> SectionOf(traps, said[i])])

Closable(traps) == {s \in Tags \X Seq(Writes) : SectionOf(traps, s) \in Seq(Bit)}

InPlace ==
  /\ sections \in Seq(Closable(build.traps))
  /\ payload = Encoded(build.traps, sections)
  /\ writer # Absent => Alike(writer, Body(build.traps, values))
  /\ writer = Absent => values = <<>>

LEMMA EncodedStarts ==
  ASSUME NEW traps
  PROVE  Encoded(traps, <<>>) = <<>>
<1>1. PICK ss : ss = [i \in DOMAIN <<>> |-> SectionOf(traps, <<>>[i])]
  OBVIOUS
<1>2. ss \in Seq(Seq(Bit)) /\ Len(ss) = 0
  <2>1. DOMAIN <<>> = {}
    OBVIOUS
  <2>2. ss = <<>>
    BY ONLY <1>1, <2>1
  <2>3. QED
    BY ONLY <2>2
<1>3. PICK h : h[0] = <<>> /\ FlattenSeq(ss) = h[Len(ss)]
  <2>1. PICK h \in [0 .. Len(ss) -> Seq(Bit)] :
          /\ h[0] = <<>>
          /\ \A n \in 1 .. Len(ss) : h[n] = h[n - 1] \o ss[n]
          /\ FlattenSeq(ss) = h[Len(ss)]
    BY ONLY <1>2, FlattenIs
  <2>2. QED
    BY ONLY <2>1
<1>4. QED
  BY ONLY <1>1, <1>2, <1>3 DEF Encoded

LEMMA EncodedGrows ==
  ASSUME NEW traps, NEW said \in Seq(Closable(traps)), NEW section \in Closable(traps)
  PROVE  Encoded(traps, Append(said, section)) = Encoded(traps, said) \o SectionOf(traps, section)
<1>1. PICK S : S = Closable(traps)
  OBVIOUS
<1>2. PICK N \in Nat : N = Len(said) /\ DOMAIN said = 1 .. N
  OBVIOUS
<1>3. \A s \in S : SectionOf(traps, s) \in Seq(Bit)
  BY <1>1 DEF Closable
<1>4. PICK ss : ss = [i \in DOMAIN said |-> SectionOf(traps, said[i])]
  OBVIOUS
<1>5. PICK last \in Seq(Bit) : last = SectionOf(traps, section)
  BY <1>1, <1>3
<1>6. ss \in Seq(Seq(Bit)) /\ Len(ss) = N /\ \A i \in 1 .. N : ss[i] = SectionOf(traps, said[i])
  <2>1. PICK B : B = Seq(Bit)
    OBVIOUS
  <2>2. \A i \in 1 .. N : said[i] \in S
    BY ONLY <1>1, <1>2, said \in Seq(Closable(traps))
  <2>3. \A i \in 1 .. N : SectionOf(traps, said[i]) \in B
    BY ONLY <1>3, <2>1, <2>2
  <2>4. ss = [i \in 1 .. N |-> SectionOf(traps, said[i])]
    BY ONLY <1>2, <1>4
  <2>5. ss \in Seq(B) /\ Len(ss) = N /\ \A i \in 1 .. N : ss[i] = SectionOf(traps, said[i])
    BY ONLY <2>3, <2>4, N \in Nat
  <2>6. QED
    BY ONLY <2>1, <2>5
<1>7. PICK more : more = Append(said, section)
  OBVIOUS
<1>8. DOMAIN more = 1 .. N + 1 /\ more[N + 1] = section /\ \A i \in 1 .. N : more[i] = said[i]
  BY ONLY <1>1, <1>2, <1>7, said \in Seq(Closable(traps)), section \in Closable(traps), N \in Nat
<1>9. [i \in DOMAIN more |-> SectionOf(traps, more[i])] = Append(ss, last)
  <2>1. PICK left : left = [i \in 1 .. N + 1 |-> SectionOf(traps, more[i])]
    OBVIOUS
  <2>2. PICK right : right = Append(ss, last)
    OBVIOUS
  <2>3. /\ right = [i \in 1 .. N + 1 |-> right[i]]
        /\ right[N + 1] = last /\ \A i \in 1 .. N : right[i] = ss[i]
    <3>1. PICK B : B = Seq(Bit)
      OBVIOUS
    <3>2. ss \in Seq(B) /\ last \in B /\ Len(ss) = N
      BY ONLY <1>6, <3>1, last \in Seq(Bit)
    <3>3. /\ right \in Seq(B) /\ Len(right) = N + 1
          /\ right[N + 1] = last /\ \A i \in 1 .. N : right[i] = ss[i]
      BY ONLY <2>2, <3>2, N \in Nat
    <3>4. right = [i \in 1 .. Len(right) |-> right[i]]
      BY ONLY <3>3
    <3>5. QED
      BY ONLY <3>3, <3>4
  <2>4. ASSUME NEW i \in 1 .. N + 1
        PROVE  left[i] = right[i]
    <3>1. left[i] = SectionOf(traps, more[i])
      BY ONLY <2>1, i \in 1 .. N + 1
    <3>2. i \in 1 .. N \/ i = N + 1
      BY ONLY i \in 1 .. N + 1, N \in Nat
    <3>3. QED
      BY ONLY <1>5, <1>6, <1>8, <2>3, <3>1, <3>2
  <2>5. left = right
    BY ONLY <2>1, <2>3, <2>4
  <2>6. QED
    BY ONLY <1>8, <2>1, <2>2, <2>5
<1>10. FlattenSeq(Append(ss, last)) = FlattenSeq(ss) \o last
  BY ONLY <1>6, last \in Seq(Bit), FlattenGrows
<1>11. QED
  BY ONLY <1>4, <1>5, <1>7, <1>9, <1>10 DEF Encoded

LEMMA StartsInPlace ==
  ASSUME sections = <<>>, payload = <<>>, values = <<>>, writer = Absent
  PROVE  InPlace
<1>1. <<>> \in Seq(Closable(build.traps))
  OBVIOUS
<1>2. QED
  BY <1>1, EncodedStarts DEF InPlace

LEMMA ResetInPlace ==
  ASSUME Reset
  PROVE  InPlace'
<1>1. sections' = <<>> /\ payload' = <<>> /\ values' = <<>> /\ writer' = Absent
  BY DEF Reset
<1>2. <<>> \in Seq(Closable(build'.traps))
  OBVIOUS
<1>3. Encoded(build'.traps, <<>>) = <<>>
  BY EncodedStarts
<1>4. QED
  BY ONLY <1>1, <1>2, <1>3 DEF InPlace

LEMMA OpenInPlace ==
  ASSUME InPlace, IInv', Open
  PROVE  InPlace'
<1>1. writer' = NewWriter(SubSeq(rest, ByteBits * PrefixRoom + 1, Len(rest)))
  <2>1. PICK opened : opened = OpenSection(rest)
    OBVIOUS
  <2>2. opened.ok /\ writer' = opened.val
    BY <2>1 DEF Open
  <2>3. QED
    BY ONLY <2>1, <2>2 DEF OpenSection, Checked, Ok, Err
<1>2. writer'.pos = 0
  BY ONLY <1>1 DEF NewWriter
<1>3. writer' # Absent => IsWriter(writer')
  BY DEF IInv, OpenWriter
<1>4. writer' # Absent => Alike(writer', NewVecWriter)
  BY ONLY <1>2, <1>3, StartsAlike
<1>5. UNCHANGED <<build, sections, payload, values>> /\ values = <<>>
  BY DEF Open, InPlace
<1>6. Body(build.traps, values) = NewVecWriter
  BY ONLY <1>5, BodyStarts
<1>7. QED
  BY ONLY <1>4, <1>5, <1>6, InPlace DEF InPlace

LEMMA NoWriterAbsent ==
  ASSUME NEW w, IsWriter(w)
  PROVE  w # Absent
<1>1. PICK buf \in Seq(Bit), pos \in Nat, grows \in BOOLEAN :
        w = [buf |-> buf, pos |-> pos, grows |-> grows]
  <2>1. w.buf \in Seq(Bit) /\ w.pos \in 0 .. Len(w.buf) /\ w.grows \in BOOLEAN
    BY DEF IsWriter
  <2>2. w.pos \in Nat
    BY ONLY <2>1
  <2>3. w = [buf |-> w.buf, pos |-> w.pos, grows |-> w.grows]
    BY DEF IsWriter
  <2>4. QED
    BY ONLY <2>1, <2>2, <2>3
<1>2. Bit = {0, 1}
  BY DEF Bit
<1>3. w \in [buf : Seq({0, 1}), pos : Nat, grows : BOOLEAN]
  BY ONLY <1>1, <1>2
<1>4. QED
  BY <1>3, WireAssumption

LEMMA AppendInPlace ==
  ASSUME IInv, InPlace, NEW v \in Writes, AppendValue(v)
  PROVE  InPlace'
<1>1. build.traps \in BOOLEAN /\ Writable(v) /\ values \in Seq(Writes)
  BY WireAssumption DEF IInv, Buffers
<1>2. PICK traps \in BOOLEAN : traps = build.traps
  BY <1>1
<1>3. PICK first, second :
        first = WriteValue(traps, writer, v) /\ second = WriteValue(traps, Body(traps, values), v)
  OBVIOUS
<1>4. first.ok /\ writer' = first.val /\ values' = Append(values, v) /\ writer # Absent
      /\ UNCHANGED <<build, sections, payload>>
  BY <1>2, <1>3 DEF AppendValue
<1>5. Alike(writer, Body(traps, values))
  BY ONLY <1>2, <1>4, InPlace DEF InPlace
<1>6. Likewise(first, second)
  BY ONLY <1>1, <1>3, <1>5, traps \in BOOLEAN, WriteValueAlike
<1>7. Body(traps, Append(values, v)) = second.val
  BY ONLY <1>1, <1>3, v \in Writes, BodyGrows
<1>8. Alike(writer', Body(build'.traps, values'))
  BY ONLY <1>2, <1>4, <1>6, <1>7 DEF Likewise
<1>9. writer' = Absent => values' = <<>>
  <2>1. IsWriter(writer')
    BY ONLY <1>8 DEF Alike
  <2>2. writer' # Absent
    BY ONLY <2>1, NoWriterAbsent
  <2>3. QED
    BY ONLY <2>2
<1>10. QED
  BY ONLY <1>4, <1>8, <1>9, InPlace DEF InPlace

LEMMA CloseInPlace ==
  ASSUME IInv, InPlace, NEW tag \in Tags, Close(tag)
  PROVE  InPlace'
<1>1. PICK piece \in Seq(Bit) :
        /\ payload' = payload \o piece
        /\ AlignToByte(writer).ok /\ piece = EncodeSection(tag, Finish(AlignToByte(writer).val))
  BY ClosedIs
<1>2. /\ writer # Absent /\ writer' = Absent /\ values' = <<>> /\ build' = build
      /\ sections' = Append(sections, <<tag, values>>)
  BY DEF Close
<1>3. PICK traps : traps = build.traps
  OBVIOUS
<1>4. PICK vs \in Seq(Writes) : vs = values
  BY DEF IInv, Buffers
<1>5. PICK said \in Seq(Closable(traps)) : said = sections /\ payload = Encoded(traps, said)
  BY ONLY <1>3, InPlace DEF InPlace
<1>6. Alike(writer, Body(traps, vs))
  BY ONLY <1>2, <1>3, <1>4, InPlace DEF InPlace
<1>7. Finish(AlignToByte(writer).val) = Finish(Body(traps, Append(vs, Alignment)))
  BY ONLY <1>1, <1>6, vs \in Seq(Writes), ClosedBody
<1>8. PICK section : section = <<tag, vs>>
  OBVIOUS
<1>9. SectionOf(traps, section) = piece
  BY ONLY <1>1, <1>7, <1>8 DEF SectionOf
<1>10. section \in Closable(traps)
  <2>1. section \in Tags \X Seq(Writes)
    BY ONLY <1>8, tag \in Tags, vs \in Seq(Writes)
  <2>2. QED
    BY ONLY <1>9, <2>1, piece \in Seq(Bit) DEF Closable
<1>11. Encoded(traps, Append(said, section)) = Encoded(traps, said) \o piece
  BY ONLY <1>9, <1>10, said \in Seq(Closable(traps)), EncodedGrows
<1>12. Append(said, section) \in Seq(Closable(traps))
  <2>1. PICK S : S = Closable(traps)
    OBVIOUS
  <2>2. QED
    BY ONLY <1>10, <2>1, said \in Seq(Closable(traps))
<1>13. sections' = Append(said, section) /\ payload' = Encoded(traps, Append(said, section))
  BY ONLY <1>1, <1>2, <1>4, <1>5, <1>8, <1>11
<1>14. QED
  BY ONLY <1>2, <1>3, <1>12, <1>13 DEF InPlace

LEMMA StepInPlace == IInv /\ IInv' /\ InPlace /\ [Next]_vars => InPlace'
<1> SUFFICES ASSUME IInv, IInv', InPlace, [Next]_vars PROVE InPlace'
  OBVIOUS
<1>1. ASSUME UNCHANGED <<build, buffer>>
      PROVE  InPlace'
  BY <1>1 DEF buffer, InPlace
<1>2. CASE Open
  BY <1>2, OpenInPlace
<1>3. ASSUME NEW v \in Writes, AppendValue(v)
      PROVE  InPlace'
  BY <1>3, AppendInPlace
<1>4. ASSUME NEW tag \in Tags, Close(tag)
      PROVE  InPlace'
  BY <1>4, CloseInPlace
<1>5. CASE \/ \E v \in Writes : Refuse(v)
           \/ \E tag \in Tags : CloseFails(tag)
           \/ EncoderFails
  BY <1>5, ResetInPlace DEF Refuse, CloseFails, EncoderFails
<1>6. ASSUME NEW flags, NEW tick, NEW baseline, SendPacket(flags, tick, baseline) \/ SendCompact(tick, baseline)
      PROVE  InPlace'
  BY <1>6, ResetInPlace DEF SendPacket, SendCompact
<1>7. CASE \/ \E tick \in Ticks, id \in SessionIds : SendInit(tick, id)
           \/ ReceiveInit \/ ReceiveCompact \/ Gone
  BY <1>1, <1>7 DEF SendInit, ReceiveInit, ReceiveCompact, Gone
<1>8. CASE UNCHANGED vars
  BY <1>1, <1>8 DEF vars
<1>9. QED
  BY <1>2, <1>3, <1>4, <1>5, <1>6, <1>7, <1>8 DEF Next

LEMMA InPlaceSays == InPlace => InPlaceIsEncodeSection
<1>1. \A vs : VecBody(vs) = Finish(Body(build.traps, Append(vs, Alignment)))
  BY DEF VecBody, Body, Alignment
<1>2. [i \in DOMAIN sections |-> EncodeSection(sections[i][1], VecBody(sections[i][2]))]
        = [i \in DOMAIN sections |-> SectionOf(build.traps, sections[i])]
  BY <1>1 DEF SectionOf
<1>3. QED
  BY <1>2 DEF InPlace, Encoded, InPlaceIsEncodeSection

-----------------------------------------------------------------------------
(* What was written reads back.  First the arithmetic: a number is the     *)
(* number of its digits, in bits, groups and bytes.                        *)

(* The quotient and the remainder by b * P, of those by b and by P. *)
Splits(x, b, P, W) ==
  /\ x \div W = (x \div b) \div P
  /\ x % W = b * ((x \div b) % P) + (x % b)

LEMMA TwoDigits ==
  ASSUME NEW x \in Int, NEW b \in Nat \ {0}, NEW P \in Nat \ {0}, NEW W \in Nat \ {0}, IsProduct(W, b, P)
  PROVE  Splits(x, b, P, W)
<1>1. PICK q \in Int, r \in 0 .. b - 1 : q = x \div b /\ r = x % b /\ x = b * q + r
  BY Division
<1>2. PICK t \in Int, s \in 0 .. P - 1 : t = q \div P /\ s = q % P /\ q = P * t + s
  BY Division
<1>3. b * s \in Nat /\ b * s <= b * (P - 1)
  BY ONLY s \in 0 .. P - 1, P \in Nat \ {0}, b \in Nat \ {0}, ProductGrows, ProductNat
<1>4. b * s + r \in 0 .. W - 1
  <2>1. b * (P - 1) = W - b
    <3>1. b * (P - 1) = b * P - b
      OBVIOUS
    <3>2. QED
      BY ONLY <3>1, IsProduct(W, b, P) DEF IsProduct
  <2>2. PICK y \in Nat : y = b * s
    BY <1>3
  <2>3. y <= W - b
    BY ONLY <1>3, <2>1, <2>2
  <2>4. y + r \in 0 .. W - 1
    BY ONLY <2>3, r \in 0 .. b - 1, y \in Nat, W \in Nat, b \in Nat \ {0}
  <2>5. QED
    BY ONLY <2>2, <2>4
<1>5. x = W * t + (b * s + r)
  <2>1. b * (P * t + s) = (b * P) * t + b * s
    BY P \in Int, t \in Int, s \in Int, b \in Int
  <2>2. x = (b * P) * t + b * s + r
    BY ONLY <1>1, <1>2, <2>1
  <2>3. PICK y \in Int, z \in Int : y = W * t /\ z = b * s
    BY <1>3
  <2>4. x = y + z + r
    BY ONLY <2>2, <2>3, IsProduct(W, b, P) DEF IsProduct
  <2>5. x = y + (z + r)
    BY ONLY <2>4, y \in Int, z \in Int, r \in 0 .. b - 1, b \in Nat \ {0}
  <2>6. QED
    BY ONLY <2>3, <2>5
<1>6. (W * t + (b * s + r)) \div W = t /\ (W * t + (b * s + r)) % W = b * s + r
  BY ONLY <1>4, t \in Int, W \in Nat \ {0}, DivisionIs
<1>7. QED
  BY ONLY <1>1, <1>2, <1>5, <1>6 DEF Splits

LEMMA PowerSum ==
  ASSUME NEW m \in Nat, NEW n \in Nat, m + n \in Exponents
  PROVE  /\ m \in Exponents /\ n \in Exponents
         /\ 2 ^ m \in Nat \ {0} /\ 2 ^ n \in Nat \ {0} /\ 2 ^ (m + n) \in Nat \ {0}
         /\ IsProduct(2 ^ (m + n), 2 ^ m, 2 ^ n)
<1>1. PICK k : k = m + n
  OBVIOUS
<1>2. k \in Exponents /\ m \in 0 .. k /\ n \in 0 .. k /\ k - m = n
  BY <1>1
<1>3. m \in Exponents /\ n \in Exponents /\ 2 ^ k = 2 ^ m * 2 ^ (k - m)
  BY ONLY <1>2, Powers
<1>4. 2 ^ m \in Nat \ {0} /\ 2 ^ n \in Nat \ {0} /\ 2 ^ k \in Nat \ {0}
  BY ONLY <1>2, <1>3, Powers
<1>5. QED
  BY ONLY <1>1, <1>2, <1>3, <1>4 DEF IsProduct

LEMMA NumberOfBits ==
  ASSUME NEW v \in Int, NEW n \in Exponents
  PROVE  Number(Bits(v, n)) = v % 2 ^ n
<1>1. PICK bits \in Seq(Bit) :
        bits = Bits(v, n) /\ Len(bits) = n /\ \A i \in 1 .. n : bits[i] = (v \div 2 ^ (n - i)) % 2
  BY BitsAre
<1>2. n \in Nat
  BY Powers
<1>3. PICK h \in [0 .. n -> Int] :
        /\ h[0] = 0
        /\ \A k \in 1 .. n : h[k] = 2 * h[k - 1] + bits[k]
        /\ Number(bits) = h[n]
  <2>1. bits \in Seq(Int)
    BY DEF Bit
  <2>2. QED
    BY <1>1, <2>1, NumberIs
<1> DEFINE G == {k \in 0 .. n : h[k] = (v \div 2 ^ (n - k)) % 2 ^ k}
<1>4. 0 \in G
  <2>1. 2 ^ 0 = 1 /\ 2 ^ (n - 0) = 2 ^ n
    BY <1>2
  <2>2. v \div 2 ^ n \in Int
    BY Powers, Division
  <2>3. (v \div 2 ^ n) % 1 = 0
    BY <2>2
  <2>4. QED
    BY <1>2, <1>3, <2>1, <2>3
<1>5. ASSUME NEW k \in 0 .. n - 1, k \in G
      PROVE  k + 1 \in G
  <2>1. k \in Nat /\ k + 1 \in 1 .. n /\ k + 1 \in 0 .. n /\ (k + 1) - 1 = k
    BY <1>2
  <2>2. PICK m \in Nat : m = n - (k + 1) /\ m + 1 = n - k /\ m + 1 \in Exponents /\ 1 + k \in Exponents
    <3>1. n - (k + 1) \in Nat /\ (n - (k + 1)) + 1 = n - k /\ n - k \in 0 .. n /\ 1 + k \in 0 .. n
      BY <1>2
    <3>2. n - k \in Exponents /\ 1 + k \in Exponents
      BY <3>1, Powers
    <3>3. QED
      BY ONLY <3>1, <3>2
  <2>3. 2 ^ 1 = 2
    OBVIOUS
  <2>4. PICK a \in Nat \ {0}, c \in Nat \ {0}, P \in Nat \ {0}, W \in Nat \ {0} :
          /\ a = 2 ^ m /\ c = 2 ^ (m + 1) /\ IsProduct(c, a, 2)
          /\ P = 2 ^ k /\ W = 2 ^ (1 + k) /\ IsProduct(W, 2, P)
    <3>1. IsProduct(2 ^ (m + 1), 2 ^ m, 2 ^ 1) /\ 2 ^ m \in Nat \ {0} /\ 2 ^ (m + 1) \in Nat \ {0}
      BY ONLY <2>2, m \in Nat, 1 \in Nat, PowerSum
    <3>2. IsProduct(2 ^ (1 + k), 2 ^ 1, 2 ^ k) /\ 2 ^ k \in Nat \ {0} /\ 2 ^ (1 + k) \in Nat \ {0}
      BY ONLY <2>1, <2>2, 1 \in Nat, PowerSum
    <3>3. QED
      BY ONLY <2>3, <3>1, <3>2
  <2>5. PICK x \in Int : x = v \div a
    BY ONLY v \in Int, a \in Nat \ {0}, Division
  <2>6. v \div c = x \div 2
    <3>1. Splits(v, a, 2, c)
      BY ONLY <2>4, v \in Int, a \in Nat \ {0}, c \in Nat \ {0}, 2 \in Nat \ {0}, TwoDigits
    <3>2. QED
      BY ONLY <2>5, <3>1 DEF Splits
  <2>7. x % W = 2 * ((x \div 2) % P) + (x % 2)
    <3>1. Splits(x, 2, P, W)
      BY ONLY <2>4, x \in Int, P \in Nat \ {0}, W \in Nat \ {0}, 2 \in Nat \ {0}, TwoDigits
    <3>2. QED
      BY ONLY <3>1 DEF Splits
  <2>8. h[k] = (x \div 2) % P
    BY <1>5, <2>2, <2>4, <2>6
  <2>9. bits[k + 1] = x % 2
    BY ONLY <1>1, <2>1, <2>2, <2>4, <2>5
  <2>10. h[k + 1] = 2 * h[k] + bits[k + 1]
    BY ONLY <1>3, <2>1
  <2>11. h[k + 1] = x % W
    BY ONLY <2>7, <2>8, <2>9, <2>10
  <2>12. 1 + k = k + 1
    BY ONLY <2>1
  <2>13. QED
    BY ONLY <2>1, <2>2, <2>4, <2>5, <2>11, <2>12
<1>6. n \in G
  <2> HIDE DEF G
  <2>1. \A k \in 0 .. n : k \in G
    BY <1>2, <1>4, <1>5, UpwardInduction
  <2>2. QED
    BY <1>2, <2>1
<1>7. n - n = 0 /\ 2 ^ 0 = 1 /\ v \div 1 = v
  BY <1>2
<1>8. QED
  BY <1>1, <1>3, <1>6, <1>7

Joined(u, s, t, m) ==
  /\ Len(u) = m + Len(t)
  /\ \A i \in 1 .. m : u[i] = s[i]
  /\ \A i \in 1 .. Len(t) : u[m + i] = t[i]

LEMMA JoinedIs ==
  ASSUME NEW T, NEW s \in Seq(T), NEW t \in Seq(T), NEW m \in Nat, Len(s) = m
  PROVE  Joined(s \o t, s, t, m)
<1>1. PICK n \in Nat : n = Len(t)
  OBVIOUS
<1>2. Len(s \o t) = m + n
  BY <1>1
<1>3. ASSUME NEW i \in 1 .. m PROVE (s \o t)[i] = s[i]
  BY <1>1
<1>4. ASSUME NEW i \in 1 .. n PROVE (s \o t)[m + i] = t[i]
  BY <1>1
<1>5. QED
  BY ONLY <1>1, <1>2, <1>3, <1>4 DEF Joined

(* What stands at a place of a list of parts of one length. *)
At(s, L, ss, n) == \A j \in 0 .. n - 1 : \A i \in 1 .. L : s[L * j + i] = ss[j + 1][i]

LEMMA FlattenAt ==
  ASSUME NEW T, NEW L \in Nat, NEW ss \in Seq(Seq(T)), \A i \in 1 .. Len(ss) : Len(ss[i]) = L
  PROVE  At(FlattenSeq(ss), L, ss, Len(ss))
<1>1. PICK N \in Nat : N = Len(ss) /\ \A i \in 1 .. N : ss[i] \in Seq(T) /\ Len(ss[i]) = L
  <2>1. PICK N \in Nat : N = Len(ss)
    OBVIOUS
  <2>2. ASSUME NEW i \in 1 .. N PROVE ss[i] \in Seq(T)
    BY <2>1
  <2>3. QED
    BY ONLY <2>1, <2>2, \A i \in 1 .. Len(ss) : Len(ss[i]) = L
<1>2. PICK h \in [0 .. N -> Seq(T)] :
        /\ h[0] = <<>>
        /\ \A n \in 1 .. N : h[n] = h[n - 1] \o ss[n]
        /\ FlattenSeq(ss) = h[N]
  <2>1. PICK h \in [0 .. Len(ss) -> Seq(T)] :
          /\ h[0] = <<>>
          /\ \A n \in 1 .. Len(ss) : h[n] = h[n - 1] \o ss[n]
          /\ FlattenSeq(ss) = h[Len(ss)]
    BY FlattenIs
  <2>2. QED
    BY ONLY <1>1, <2>1
<1> DEFINE G == {n \in 0 .. N : Len(h[n]) = L * n /\ At(h[n], L, ss, n)}
<1>3. 0 \in G
  <2>1. Len(h[0]) = 0 /\ L * 0 = 0
    BY <1>2
  <2>2. At(h[0], L, ss, 0)
    BY DEF At
  <2>3. QED
    BY <2>1, <2>2
<1>4. ASSUME NEW n \in 0 .. N - 1, n \in G
      PROVE  n + 1 \in G
  <2>1. n \in Nat /\ n + 1 \in 1 .. N /\ n + 1 \in 0 .. N /\ (n + 1) - 1 = n /\ n \in 0 .. N
    BY <1>1
  <2>2. PICK s \in Seq(T), t \in Seq(T), m \in Nat :
          /\ s = h[n] /\ t = ss[n + 1] /\ h[n + 1] = s \o t
          /\ m = L * n /\ Len(s) = m /\ Len(t) = L /\ At(s, L, ss, n)
    <3>1. h[n] \in Seq(T) /\ ss[n + 1] \in Seq(T) /\ Len(ss[n + 1]) = L /\ h[n + 1] = h[n] \o ss[n + 1]
      BY ONLY <1>1, <1>2, <2>1
    <3>2. Len(h[n]) = L * n /\ At(h[n], L, ss, n)
      BY <1>4
    <3>3. L * n \in Nat
      BY ONLY L \in Nat, <2>1, ProductNat
    <3>4. QED
      BY ONLY <3>1, <3>2, <3>3
  <2>7. Joined(s \o t, s, t, m) /\ Len(t) = L
    BY ONLY <2>2, s \in Seq(T), t \in Seq(T), m \in Nat, JoinedIs
  <2>3. Len(h[n + 1]) = L * (n + 1)
    <3>1. Len(s \o t) = m + L
      BY ONLY <2>7 DEF Joined
    <3>2. L * (n + 1) = L * n + L
      BY <2>1
    <3>3. QED
      BY ONLY <2>2, <3>1, <3>2
  <2>4. ASSUME NEW j \in 0 .. n, NEW i \in 1 .. L
        PROVE  (s \o t)[L * j + i] = ss[j + 1][i]
    <3>1. CASE j = n
      <4>1. (s \o t)[m + i] = t[i]
        BY ONLY <2>7, i \in 1 .. L DEF Joined
      <4>2. QED
        BY ONLY <2>2, <3>1, <4>1
    <3>2. CASE j # n
      <4>1. j \in 0 .. n - 1 /\ j \in Nat
        BY ONLY <2>1, <3>2, j \in 0 .. n
      <4>2. PICK k \in Nat : k = L * j /\ k <= m - L
        <5>1. L * j <= L * (n - 1) /\ L * j \in Nat
          BY ONLY <2>1, <4>1, L \in Nat, ProductGrows, ProductNat
        <5>2. L * (n - 1) = L * n - L
          BY <2>1
        <5>3. QED
          BY ONLY <2>2, <5>1, <5>2
      <4>3. (s \o t)[k + i] = s[k + i]
        <5>1. k <= m - L
          BY ONLY <4>2
        <5>2. k + i \in 1 .. m
          BY ONLY <5>1, m \in Nat, k \in Nat, i \in 1 .. L, L \in Nat
        <5>3. QED
          BY ONLY <2>7, <5>2 DEF Joined
      <4>4. s[L * j + i] = ss[j + 1][i]
        BY ONLY <2>2, <4>1, i \in 1 .. L DEF At
      <4>5. QED
        BY ONLY <4>2, <4>3, <4>4
    <3>3. QED
      BY ONLY <3>1, <3>2
  <2>5. At(h[n + 1], L, ss, n + 1)
    <3>1. \A j \in 0 .. (n + 1) - 1 : \A i \in 1 .. L : (s \o t)[L * j + i] = ss[j + 1][i]
      BY ONLY <2>1, <2>4
    <3>2. At(s \o t, L, ss, n + 1)
      BY ONLY <3>1 DEF At
    <3>3. QED
      BY ONLY <2>2, <3>2
  <2>6. QED
    BY <2>1, <2>3, <2>5
<1>5. N \in G
  <2> HIDE DEF G
  <2>1. \A n \in 0 .. N : n \in G
    BY <1>3, <1>4, UpwardInduction
  <2>2. QED
    BY <2>1
<1>6. QED
  BY <1>1, <1>2, <1>5

(* A byte of data, when its bits are known. *)
HasByte(data, offset, byte) == \A i \in 1 .. ByteBits : data[ByteBits * offset + i] = byte[i]

LEMMA ByteOf ==
  ASSUME NEW data \in Seq(Bit), NEW offset \in Nat, offset < Bytes(data),
         NEW byte \in Seq(Bit), Len(byte) = ByteBits, HasByte(data, offset, byte)
  PROVE  ByteAt(data, offset) = Number(byte)
<1>1. offset + 1 <= Bytes(data) /\ Bytes(data) \in Nat
  BY BytesAre
<1>2. ByteBits \in Nat /\ ByteBits * 1 = ByteBits
  BY Widths
<1>3. PICK slice \in Seq(Bit) :
        slice = Slice(data, offset, 1) /\ Len(slice) = ByteBits
        /\ \A i \in 1 .. ByteBits : slice[i] = data[ByteBits * offset + i]
  <2>1. /\ Slice(data, offset, 1) \in Seq(Bit)
        /\ Len(Slice(data, offset, 1)) = ByteBits * 1
        /\ \A i \in 1 .. ByteBits * 1 : Slice(data, offset, 1)[i] = data[ByteBits * offset + i]
    BY ONLY <1>1, data \in Seq(Bit), offset \in Nat, 1 \in Nat, SliceIs
  <2>2. QED
    BY ONLY <1>2, <2>1
<1>4. slice = byte
  <2>1. slice = [i \in 1 .. ByteBits |-> slice[i]] /\ byte = [i \in 1 .. ByteBits |-> byte[i]]
    BY ONLY <1>2, <1>3, slice \in Seq(Bit), byte \in Seq(Bit), Len(byte) = ByteBits
  <2>2. \A i \in 1 .. ByteBits : slice[i] = byte[i]
    BY ONLY <1>3, HasByte(data, offset, byte) DEF HasByte
  <2>3. QED
    BY ONLY <2>1, <2>2
<1>5. QED
  BY ONLY <1>3, <1>4 DEF ByteAt

(* The bytes of v: what is written of it, and what a reader makes of them. *)
HasBytes(data, offset, v, n) ==
  \A j \in 0 .. n - 1 : HasByte(data, offset + j, Bits(v \div 2 ^ (ByteBits * j), ByteBits))

LEMMA BytesOf ==
  ASSUME NEW v \in Int, NEW n \in 0 .. U64Bytes
  PROVE  /\ LittleEndian(v, n) \in Seq(Bit)
         /\ Len(LittleEndian(v, n)) = ByteBits * n
         /\ HasBytes(LittleEndian(v, n), 0, v, n)
<1>1. PICK ss : ss = [i \in 1 .. n |-> Bits(v \div 2 ^ (ByteBits * (i - 1)), ByteBits)]
  OBVIOUS
<1>2. n \in Nat /\ ByteBits \in Nat
  BY Widths
<1>3. ASSUME NEW j \in 0 .. n - 1
      PROVE  /\ Bits(v \div 2 ^ (ByteBits * j), ByteBits) \in Seq(Bit)
             /\ Len(Bits(v \div 2 ^ (ByteBits * j), ByteBits)) = ByteBits
  <2>1. j \in 0 .. U64Bytes
    BY Widths
  <2>2. v \div 2 ^ (ByteBits * j) \in Int
    BY <2>1, Shifts, Powers, Division
  <2>3. QED
    BY ONLY <2>2, Shifts, BitsAre
<1>4. PICK B : B = Seq(Bit)
  OBVIOUS
<1>5. ASSUME NEW i \in 1 .. n
      PROVE  ss[i] \in B /\ Len(ss[i]) = ByteBits
  <2>1. i - 1 \in 0 .. n - 1
    BY ONLY <1>2
  <2>2. QED
    BY ONLY <1>1, <1>3, <1>4, <2>1
<1>6. ss \in Seq(B) /\ Len(ss) = n
  <2>1. ss = [i \in 1 .. n |-> ss[i]]
    BY ONLY <1>1
  <2>2. \A i \in 1 .. n : ss[i] \in B
    BY ONLY <1>5
  <2>3. QED
    BY ONLY <1>2, <2>1, <2>2
<1>7. LittleEndian(v, n) = FlattenSeq(ss)
  BY ONLY <1>1 DEF LittleEndian
<1>8. At(FlattenSeq(ss), ByteBits, ss, n)
  <2>1. ss \in Seq(Seq(Bit)) /\ \A i \in 1 .. Len(ss) : Len(ss[i]) = ByteBits
    BY ONLY <1>4, <1>5, <1>6
  <2>2. At(FlattenSeq(ss), ByteBits, ss, Len(ss))
    BY ONLY <1>2, <2>1, FlattenAt
  <2>3. QED
    BY ONLY <1>6, <2>2
<1>9. HasBytes(LittleEndian(v, n), 0, v, n)
  <2>1. ASSUME NEW j \in 0 .. n - 1, NEW i \in 1 .. ByteBits
        PROVE  FlattenSeq(ss)[ByteBits * (0 + j) + i] = Bits(v \div 2 ^ (ByteBits * j), ByteBits)[i]
    <3>1. 0 + j = j /\ j + 1 \in 1 .. n /\ (j + 1) - 1 = j
      BY ONLY <1>2
    <3>2. FlattenSeq(ss)[ByteBits * j + i] = ss[j + 1][i]
      BY ONLY <1>8, <2>1 DEF At
    <3>3. ss[j + 1] = Bits(v \div 2 ^ (ByteBits * j), ByteBits)
      BY ONLY <1>1, <3>1
    <3>4. QED
      BY ONLY <3>1, <3>2, <3>3
  <2>2. QED
    BY ONLY <1>7, <2>1 DEF HasBytes, HasByte
<1>10. QED
  BY ONLY <1>9, v \in Int, n \in 0 .. U64Bytes, LittleEndianIs

LEMMA FromBytes ==
  ASSUME NEW bits \in Seq(Bit), Bytes(bits) \in 0 .. U64Bytes,
         NEW v \in 0 .. 2 ^ (ByteBits * Bytes(bits)) - 1, HasBytes(bits, 0, v, Bytes(bits))
  PROVE  FromLittleEndian(bits) = v
<1>1. PICK n \in Nat : n = Bytes(bits) /\ n \in 0 .. U64Bytes
  BY BytesAre
<1>2. ByteBits \in Nat /\ ByteBits \in Exponents /\ ByteBits * n \in Exponents /\ U64Bytes \in Nat
  BY <1>1, Shifts, Widths
<1>3. v \in Int /\ v >= 0 /\ v < 2 ^ (ByteBits * n)
  BY <1>1, <1>2, Powers
<1>4. ASSUME NEW j \in 0 .. n - 1
      PROVE  ByteAt(bits, j) = (v \div 2 ^ (ByteBits * j)) % 2 ^ ByteBits
  <2>1. PICK x \in Int : x = v \div 2 ^ (ByteBits * j)
    <3>1. j \in 0 .. U64Bytes
      BY <1>1, <1>2
    <3>2. 2 ^ (ByteBits * j) \in Nat \ {0}
      BY <3>1, Shifts, Powers
    <3>3. QED
      BY ONLY <1>3, <3>2, Division
  <2>2. PICK byte \in Seq(Bit) : byte = Bits(x, ByteBits) /\ Len(byte) = ByteBits
    BY ONLY <1>2, x \in Int, BitsAre
  <2>3. HasByte(bits, j, byte)
    <3>1. HasByte(bits, 0 + j, byte)
      BY ONLY <1>1, <2>1, <2>2, j \in 0 .. n - 1, HasBytes(bits, 0, v, Bytes(bits)) DEF HasBytes
    <3>2. 0 + j = j
      BY <1>1
    <3>3. QED
      BY ONLY <3>1, <3>2
  <2>4. j \in Nat /\ j < Bytes(bits)
    BY <1>1
  <2>5. ByteAt(bits, j) = Number(byte)
    BY ONLY <2>2, <2>3, <2>4, bits \in Seq(Bit), byte \in Seq(Bit), ByteOf
  <2>6. Number(Bits(x, ByteBits)) = x % 2 ^ ByteBits
    BY ONLY <1>2, x \in Int, NumberOfBits
  <2>7. QED
    BY ONLY <2>1, <2>2, <2>5, <2>6
<1>5. PICK h \in [0 .. n -> Int] :
        /\ h[0] = 0
        /\ \A k \in 1 .. n : h[k] = ByteAt(bits, n - k) + 2 ^ ByteBits * h[k - 1]
        /\ FromLittleEndian(bits) = h[n]
  <2>1. \A j \in 0 .. n - 1 : ByteAt(bits, j) \in Int
    <3>1. ASSUME NEW j \in 0 .. n - 1 PROVE ByteAt(bits, j) \in Int
      <4>1. ByteAt(bits, j) \in 0 .. 2 ^ ByteBits - 1
        BY <1>1, ByteAtIs
      <4>2. QED
        BY ONLY <1>2, <4>1, Powers
    <3>2. QED
      BY ONLY <3>1
  <2>2. QED
    BY ONLY <1>1, <1>2, <2>1, FromLittleEndianIs
<1> DEFINE G == {k \in 0 .. n : h[k] = v \div 2 ^ (ByteBits * (n - k))}
<1>6. 0 \in G
  <2>1. n - 0 = n
    OBVIOUS
  <2>2. PICK W \in Nat \ {0} : W = 2 ^ (ByteBits * n)
    BY <1>2, Powers
  <2>3. v \div W = 0
    <3>1. W * 0 + v = v /\ v \in 0 .. W - 1
      BY <1>3, <2>2
    <3>2. (W * 0 + v) \div W = 0
      BY ONLY <3>1, W \in Nat \ {0}, 0 \in Int, DivisionIs
    <3>3. QED
      BY ONLY <3>1, <3>2
  <2>4. QED
    BY <1>5, <2>1, <2>2, <2>3
<1>7. ASSUME NEW k \in 0 .. n - 1, k \in G
      PROVE  k + 1 \in G
  <2>1. PICK j \in Nat : j = n - (k + 1) /\ j + 1 = n - k /\ j \in 0 .. n - 1 /\ j \in 0 .. U64Bytes /\ j + 1 \in 0 .. U64Bytes
    <3>1. n - (k + 1) \in Nat /\ (n - (k + 1)) + 1 = n - k /\ n - (k + 1) \in 0 .. n - 1 /\ n - k <= n
      BY ONLY n \in Nat, k \in 0 .. n - 1
    <3>2. n <= U64Bytes
      BY <1>1
    <3>3. QED
      BY ONLY <1>2, <3>1, <3>2
  <2>2. k + 1 \in 1 .. n /\ k + 1 \in 0 .. n /\ (k + 1) - 1 = k
    BY <1>1
  <2>3. PICK b \in Nat \ {0}, P \in Nat \ {0}, W \in Nat \ {0} :
          /\ b = 2 ^ (ByteBits * j) /\ P = 2 ^ ByteBits /\ W = 2 ^ (ByteBits * (j + 1)) /\ IsProduct(W, b, P)
    <3>1. ByteBits * (j + 1) = ByteBits * j + ByteBits
      BY <1>2
    <3>2. PICK c \in Nat : c = ByteBits * j
      BY ONLY <1>2, j \in Nat, ProductNat
    <3>3. c + ByteBits \in Exponents
      BY <2>1, <3>1, <3>2, Shifts
    <3>4. /\ 2 ^ c \in Nat \ {0} /\ 2 ^ ByteBits \in Nat \ {0} /\ 2 ^ (c + ByteBits) \in Nat \ {0}
          /\ IsProduct(2 ^ (c + ByteBits), 2 ^ c, 2 ^ ByteBits)
      BY ONLY <1>2, <3>3, c \in Nat, PowerSum
    <3>5. QED
      BY ONLY <3>1, <3>2, <3>4
  <2>4. PICK x \in Int : x = v \div b
    BY ONLY <1>3, b \in Nat \ {0}, Division
  <2>5. v \div W = x \div P
    <3>1. Splits(v, b, P, W)
      BY ONLY <1>3, <2>3, b \in Nat \ {0}, P \in Nat \ {0}, W \in Nat \ {0}, TwoDigits
    <3>2. QED
      BY ONLY <2>4, <3>1 DEF Splits
  <2>6. h[k] = x \div P
    BY <1>7, <2>1, <2>3, <2>5
  <2>7. h[k + 1] = (x % P) + P * h[k]
    BY ONLY <1>4, <1>5, <2>1, <2>2, <2>3, <2>4
  <2>8. PICK q \in Int, r \in 0 .. P - 1 : q = x \div P /\ r = x % P /\ x = P * q + r
    BY Division
  <2>9. h[k + 1] = x
    <3>1. PICK y \in Int, z \in Int : y = P * q /\ z = r
      BY P \in Int, q \in Int
    <3>2. h[k + 1] = z + y /\ x = y + z
      BY ONLY <2>6, <2>7, <2>8, <3>1
    <3>3. QED
      BY ONLY <3>2, y \in Int, z \in Int
  <2>10. QED
    BY <2>1, <2>2, <2>3, <2>4, <2>9
<1>8. n \in G
  <2> HIDE DEF G
  <2>1. \A k \in 0 .. n : k \in G
    BY <1>6, <1>7, UpwardInduction
  <2>2. QED
    BY <2>1
<1>9. ByteBits * (n - n) = 0 /\ 2 ^ 0 = 1 /\ v \div 1 = v
  BY <1>2, <1>3
<1>10. QED
  BY <1>5, <1>8, <1>9

(* A bit before others. *)
Leads(c, x, P) == IF c = 0 THEN x ELSE P + x

LEMMA NumberOfMore ==
  ASSUME NEW c \in Bit, NEW bits \in Seq(Bit), Len(bits) \in Exponents
  PROVE  Number(<<c>> \o bits) = Leads(c, Number(bits), 2 ^ Len(bits))
<1>1. PICK n \in Nat : n = Len(bits) /\ n \in Exponents
  OBVIOUS
<1>2. PICK more \in Seq(Bit) : more = <<c>> \o bits /\ Len(more) = n + 1 /\ more[1] = c
                               /\ \A i \in 1 .. n : more[i + 1] = bits[i]
  <2>1. <<c>> \o bits \in Seq(Bit) /\ Len(<<c>> \o bits) = n + 1 /\ (<<c>> \o bits)[1] = c
    BY <1>1
  <2>2. ASSUME NEW i \in 1 .. n PROVE (<<c>> \o bits)[i + 1] = bits[i]
    BY <1>1
  <2>3. QED
    BY ONLY <2>1, <2>2
<1>3. bits \in Seq(Int) /\ more \in Seq(Int)
  BY DEF Bit
<1>4. PICK h \in [0 .. n -> Int] :
        h[0] = 0 /\ (\A k \in 1 .. n : h[k] = 2 * h[k - 1] + bits[k]) /\ Number(bits) = h[n]
  BY ONLY <1>1, <1>3, NumberIs
<1>5. PICK g \in [0 .. n + 1 -> Int] :
        g[0] = 0 /\ (\A k \in 1 .. n + 1 : g[k] = 2 * g[k - 1] + more[k]) /\ Number(more) = g[n + 1]
  BY ONLY <1>2, <1>3, NumberIs
<1> DEFINE G == {k \in 0 .. n : g[k + 1] = Leads(c, h[k], 2 ^ k)}
<1>6. 0 \in G
  <2>1. 2 ^ 0 = 1 /\ 0 + 1 = 1 /\ 1 - 1 = 0
    OBVIOUS
  <2>2. g[1] = 2 * 0 + c
    BY <1>1, <1>2, <1>5, <2>1
  <2>3. QED
    BY <1>1, <1>4, <2>1, <2>2 DEF Leads, Bit
<1>7. ASSUME NEW k \in 0 .. n - 1, k \in G
      PROVE  k + 1 \in G
  <2>1. /\ k \in Nat /\ k + 1 \in 1 .. n /\ k + 1 \in 0 .. n /\ (k + 1) - 1 = k
        /\ (k + 1) + 1 \in 1 .. n + 1 /\ ((k + 1) + 1) - 1 = k + 1 /\ k \in 0 .. n /\ k + 1 \in 0 .. n + 1
    BY <1>1
  <2>2. PICK P \in Nat, Q \in Nat : P = 2 ^ k /\ Q = 2 ^ (k + 1) /\ Q = 2 * P
    <3>1. k + 1 \in Exponents /\ k + 1 # 0 /\ k \in Exponents
      BY <1>1, <2>1, Powers
    <3>2. 2 ^ (k + 1) = 2 * 2 ^ k
      BY <2>1, <3>1, PowerNext
    <3>3. 2 ^ k \in Nat /\ 2 ^ (k + 1) \in Nat
      BY <3>1, Powers
    <3>4. QED
      BY ONLY <3>2, <3>3
  <2>3. PICK x \in Int, y \in Int, z \in Int, u \in Int, b \in Int :
          x = h[k] /\ y = h[k + 1] /\ z = g[k + 1] /\ u = g[(k + 1) + 1] /\ b = bits[k + 1]
    <3>1. (k + 1) + 1 \in 0 .. n + 1 /\ bits[k + 1] \in Int
      BY <1>1, <1>3, <2>1
    <3>2. QED
      BY ONLY <2>1, <3>1, h \in [0 .. n -> Int], g \in [0 .. n + 1 -> Int]
  <2>4. y = 2 * x + b /\ u = 2 * z + b
    BY ONLY <1>2, <1>4, <1>5, <2>1, <2>3
  <2>5. z = Leads(c, x, P)
    BY <1>7, <2>2, <2>3
  <2>6. u = Leads(c, y, Q)
    BY ONLY <2>2, <2>4, <2>5, x \in Int, y \in Int, z \in Int, u \in Int, b \in Int, P \in Nat, Q \in Nat DEF Leads
  <2>7. QED
    BY <2>1, <2>2, <2>3, <2>6
<1>8. n \in G
  <2> HIDE DEF G
  <2>1. \A k \in 0 .. n : k \in G
    BY <1>6, <1>7, UpwardInduction
  <2>2. QED
    BY <2>1
<1>9. QED
  BY <1>1, <1>2, <1>4, <1>5, <1>8

(* The i-th byte of the varint of v. *)
VarintByte(v, i) == <<IF i < VarintLen(v) THEN 1 ELSE 0>> \o Bits(VarintGroup(v, i), GroupBits)

(* The data at an offset begin as the varint of v, as far as they go. *)
HasVarint(data, offset, v) ==
  \A i \in 1 .. VarintLen(v) :
    offset + i <= Bytes(data) => HasByte(data, offset + i - 1, VarintByte(v, i))

LEMMA VarintByteIs ==
  ASSUME NEW v \in 0 .. 2 ^ (GroupBits * VarintBytes) - 1, NEW i \in 1 .. VarintLen(v)
  PROVE  /\ VarintByte(v, i) \in Seq(Bit) /\ Len(VarintByte(v, i)) = ByteBits
         /\ VarintGroup(v, i) \in 0 .. 2 ^ GroupBits - 1
         /\ Number(VarintByte(v, i)) = Leads(IF i < VarintLen(v) THEN 1 ELSE 0, VarintGroup(v, i), 2 ^ GroupBits)
<1>1. VarintLen(v) \in 1 .. VarintBytes
  BY VarintLenIs
<1>2. PICK e \in Exponents : e = GroupBits * (i - 1)
  <2>1. i - 1 \in 0 .. VarintBytes
    BY <1>1, Widths
  <2>2. QED
    BY <2>1, Shifts
<1>3. PICK P \in Nat \ {0} : P = 2 ^ GroupBits
  BY Shifts, Powers
<1>4. v \in Int
  <2>1. 2 ^ (GroupBits * VarintBytes) \in Nat
    BY NumberWidths
  <2>2. QED
    BY <2>1
<1>5. PICK x \in Int : x = v \div 2 ^ e
  BY <1>2, <1>4, Powers, Division
<1>6. PICK g \in Int : g = VarintGroup(v, i) /\ g \in 0 .. P - 1
  <2>1. x % P \in 0 .. P - 1
    BY Division
  <2>2. VarintGroup(v, i) = x % P
    BY <1>2, <1>3, <1>5 DEF VarintGroup
  <2>3. QED
    BY ONLY <2>1, <2>2, P \in Nat \ {0}
<1>7. PICK c \in Bit : c = IF i < VarintLen(v) THEN 1 ELSE 0
  BY DEF Bit
<1>8. PICK bits \in Seq(Bit) : bits = Bits(g, GroupBits) /\ Len(bits) = GroupBits
  BY Shifts, BitsAre
<1>9. GroupBits \in Exponents /\ GroupBits \in Nat /\ ByteBits = GroupBits + 1
  BY Shifts, Widths
<1>10. Number(<<c>> \o bits) = Leads(c, Number(bits), P)
  BY ONLY <1>3, <1>8, <1>9, c \in Bit, NumberOfMore
<1>11. Number(bits) = g
  <2>1. Number(bits) = g % P
    BY ONLY <1>3, <1>8, <1>9, g \in Int, NumberOfBits
  <2>2. g % P = g
    BY ONLY <1>6, P \in Nat \ {0}, SmallMod
  <2>3. QED
    BY ONLY <2>1, <2>2
<1>12. <<c>> \o bits \in Seq(Bit) /\ Len(<<c>> \o bits) = ByteBits
  BY ONLY <1>8, <1>9, c \in Bit
<1>13. VarintByte(v, i) = <<c>> \o bits
  BY ONLY <1>6, <1>7, <1>8 DEF VarintByte
<1>14. QED
  BY ONLY <1>3, <1>6, <1>7, <1>10, <1>11, <1>12, <1>13

(* Data that begin, behind a position, as these bits do, as far as they go. *)
Agrees(data, from, bits) ==
  \A i \in 1 .. Len(bits) : from + i <= Len(data) => data[from + i] = bits[i]

LEMMA PartSeen ==
  ASSUME NEW data \in Seq(Bit), NEW offset \in Nat, NEW s \in Seq(Bit), NEW N \in Nat, NEW ss,
         At(s, ByteBits, ss, N), Len(s) = ByteBits * N, Agrees(data, ByteBits * offset, s),
         NEW j \in 0 .. N - 1, offset + j < Bytes(data)
  PROVE  HasByte(data, offset + j, ss[j + 1])
<1>1. ByteBits \in Nat /\ j \in Nat /\ j + 1 <= N
  BY Widths
<1>2. PICK b \in Nat : b = Bytes(data) /\ ByteBits * b <= Len(data) /\ offset + j + 1 <= b
  <2>1. Bytes(data) \in Nat /\ ByteBits * Bytes(data) <= Len(data)
    BY BytesAre
  <2>2. PICK b \in Nat : b = Bytes(data)
    BY <2>1
  <2>3. offset + j + 1 <= b
    BY ONLY <2>2, offset + j < Bytes(data), <1>1, offset \in Nat, b \in Nat
  <2>4. QED
    BY ONLY <2>1, <2>2, <2>3
<1>3. PICK from \in Nat, x \in Nat, y \in Nat :
        /\ from = ByteBits * offset /\ x = ByteBits * j /\ y = ByteBits * (offset + j) /\ y = from + x
        /\ y + ByteBits <= Len(data) /\ x + ByteBits <= Len(s)
  <2>1. ByteBits * offset \in Nat /\ ByteBits * j \in Nat /\ ByteBits * (offset + j) \in Nat
    BY ONLY <1>1, offset \in Nat, offset + j \in Nat, ProductNat
  <2>2. ByteBits * (offset + j) = ByteBits * offset + ByteBits * j
    BY ONLY <1>1, offset \in Nat
  <2>3. ByteBits * (j + 1) <= ByteBits * N /\ ByteBits * (offset + j + 1) <= ByteBits * b
    BY ONLY <1>1, <1>2, offset \in Nat, N \in Nat, b \in Nat, ProductGrows
  <2>4. ByteBits * (j + 1) = ByteBits * j + ByteBits
    BY ONLY <1>1
  <2>5. ByteBits * (offset + j + 1) = ByteBits * (offset + j) + ByteBits
    BY ONLY <1>1, offset \in Nat
  <2>6. PICK from \in Nat, x \in Nat, y \in Nat :
          /\ from = ByteBits * offset /\ x = ByteBits * j /\ y = ByteBits * (offset + j)
    BY ONLY <2>1
  <2>7. y = from + x
    BY ONLY <2>2, <2>6
  <2>8. x + ByteBits <= Len(s)
    BY ONLY <2>3, <2>4, <2>6, Len(s) = ByteBits * N
  <2>9. y + ByteBits <= Len(data)
    <3>1. y + ByteBits <= ByteBits * b
      BY ONLY <2>3, <2>5, <2>6
    <3>2. PICK z \in Int : z = ByteBits * b
      BY ONLY <1>1, b \in Nat
    <3>3. Len(data) \in Int
      OBVIOUS
    <3>4. QED
      BY ONLY <1>1, <1>2, <3>1, <3>2, <3>3, y \in Nat
  <2>10. QED
    BY ONLY <2>6, <2>7, <2>8, <2>9
<1>4. ASSUME NEW i \in 1 .. ByteBits
      PROVE  data[ByteBits * (offset + j) + i] = ss[j + 1][i]
  <2>1. PICK k \in Nat : k = x + i /\ k \in 1 .. Len(s) /\ from + k = y + i /\ from + k <= Len(data)
    <3>0. ByteBits \in Nat
      BY ONLY <1>1
    <3>1. x + i \in Nat /\ 1 <= x + i /\ x + i <= x + ByteBits /\ from + (x + i) = (from + x) + i
      BY ONLY <3>0, i \in 1 .. ByteBits, x \in Nat, from \in Nat
    <3>2. Len(s) \in Nat /\ Len(data) \in Nat
      OBVIOUS
    <3>3. x + i <= Len(s)
      BY ONLY <1>1, <1>3, <3>1, <3>2, x \in Nat
    <3>4. y + i <= Len(data)
      BY ONLY <1>1, <1>3, <3>2, i \in 1 .. ByteBits, y \in Nat
    <3>5. PICK k \in Nat : k = x + i
      BY ONLY <3>1
    <3>6. from + k = y + i
      <4>1. y = from + x
        BY ONLY <1>3
      <4>2. QED
        BY ONLY <3>1, <3>5, <4>1
    <3>7. k \in 1 .. Len(s)
      BY ONLY <3>1, <3>2, <3>3, <3>5
    <3>8. from + k <= Len(data)
      BY ONLY <3>4, <3>6
    <3>9. QED
      BY ONLY <3>5, <3>6, <3>7, <3>8
  <2>2. data[from + k] = s[k]
    BY ONLY <1>3, <2>1, Agrees(data, ByteBits * offset, s) DEF Agrees
  <2>3. s[x + i] = ss[j + 1][i]
    BY ONLY <1>3, j \in 0 .. N - 1, i \in 1 .. ByteBits, At(s, ByteBits, ss, N) DEF At
  <2>4. QED
    BY ONLY <1>3, <2>1, <2>2, <2>3
<1>5. QED
  BY ONLY <1>4 DEF HasByte

LEMMA VarintSeen ==
  ASSUME NEW v \in 0 .. 2 ^ (GroupBits * VarintBytes) - 1, NEW data \in Seq(Bit), NEW offset \in Nat,
         Agrees(data, ByteBits * offset, Varint(v))
  PROVE  HasVarint(data, offset, v)
<1>1. PICK L \in Nat : L = VarintLen(v)
  BY ONLY v \in 0 .. 2 ^ (GroupBits * VarintBytes) - 1, VarintLenTyped
<1>2. PICK B : B = Seq(Bit)
  OBVIOUS
<1>3. PICK ss : ss = [i \in 1 .. L |-> VarintByte(v, i)]
  OBVIOUS
<1>4. ASSUME NEW i \in 1 .. L PROVE ss[i] \in B /\ Len(ss[i]) = ByteBits
  <2>1. VarintByte(v, i) \in Seq(Bit) /\ Len(VarintByte(v, i)) = ByteBits
    BY <1>1, VarintByteIs
  <2>2. QED
    BY ONLY <1>2, <1>3, <1>4, <2>1
<1>5. ss \in Seq(B) /\ Len(ss) = L
  <2>1. ss = [i \in 1 .. L |-> ss[i]]
    BY ONLY <1>3
  <2>2. \A i \in 1 .. L : ss[i] \in B
    BY ONLY <1>4
  <2>3. QED
    BY ONLY <1>1, <2>1, <2>2
<1>6. Varint(v) = FlattenSeq(ss)
  BY ONLY <1>1, <1>3 DEF Varint, VarintByte
<1>7. At(Varint(v), ByteBits, ss, L) /\ Len(Varint(v)) = ByteBits * L
  <2>1. ss \in Seq(Seq(Bit)) /\ \A i \in 1 .. Len(ss) : Len(ss[i]) = ByteBits
    BY ONLY <1>2, <1>4, <1>5
  <2>2. ByteBits \in Nat
    BY Widths
  <2>3. At(FlattenSeq(ss), ByteBits, ss, Len(ss)) /\ Len(FlattenSeq(ss)) = ByteBits * Len(ss)
    BY ONLY <2>1, <2>2, FlattenAt, FlattenEven
  <2>4. QED
    BY ONLY <1>5, <1>6, <2>3
<1>8. Varint(v) \in Seq(Bit)
  BY VarintIs
<1>9. ASSUME NEW i \in 1 .. L, offset + i <= Bytes(data)
      PROVE  HasByte(data, offset + i - 1, VarintByte(v, i))
  <2>1. PICK j \in 0 .. L - 1 : j = i - 1 /\ j + 1 = i /\ offset + j = offset + i - 1 /\ offset + j < Bytes(data)
    <3>1. Bytes(data) \in Nat
      BY BytesAre
    <3>2. i - 1 \in 0 .. L - 1 /\ (i - 1) + 1 = i /\ offset + (i - 1) = offset + i - 1 /\ offset + (i - 1) < Bytes(data)
      BY ONLY <1>9, <3>1, offset \in Nat, L \in Nat
    <3>3. QED
      BY ONLY <3>2
  <2>2. HasByte(data, offset + j, ss[j + 1])
    BY ONLY <1>7, <1>8, <2>1, data \in Seq(Bit), offset \in Nat, L \in Nat,
            Agrees(data, ByteBits * offset, Varint(v)), PartSeen
  <2>3. ss[j + 1] = VarintByte(v, i)
    BY ONLY <1>3, <2>1, i \in 1 .. L
  <2>4. QED
    BY ONLY <2>1, <2>2, <2>3
<1>10. QED
  BY ONLY <1>1, <1>9 DEF HasVarint

(* The groups of v up to one of them. *)
LEMMA GroupsOf ==
  ASSUME NEW v \in 0 .. 2 ^ (GroupBits * VarintBytes) - 1,
         NEW numbers, numbers = [i \in 1 .. VarintLen(v) |-> VarintGroup(v, i) * 2 ^ (GroupBits * (i - 1))]
  PROVE  Total(numbers) = v
<1>1. PICK L \in Nat : L = VarintLen(v) /\ L \in 1 .. VarintBytes /\ v < 2 ^ (GroupBits * L)
  BY ONLY v \in 0 .. 2 ^ (GroupBits * VarintBytes) - 1, VarintLenTyped
<1>2. v \in Int /\ v >= 0
  BY NumberWidths
<1>3. GroupBits \in Nat /\ VarintBytes \in Nat
  BY Widths
<1>4. PICK P \in Nat \ {0} : P = 2 ^ GroupBits
  BY Shifts, Powers
<1>5. ASSUME NEW i \in 1 .. L
      PROVE  \E b \in Nat \ {0}, W \in Nat \ {0}, g \in Int :
               /\ b = 2 ^ (GroupBits * (i - 1)) /\ W = 2 ^ (GroupBits * i) /\ IsProduct(W, b, P)
               /\ g = (v \div b) % P /\ numbers[i] = b * g
  <2>1. i - 1 \in 0 .. VarintBytes /\ i \in 0 .. VarintBytes
    BY ONLY <1>1, <1>3, i \in 1 .. L
  <2>2. PICK e \in Nat : e = GroupBits * (i - 1) /\ e + GroupBits = GroupBits * i /\ e + GroupBits \in Exponents
    <3>1. GroupBits * (i - 1) \in Exponents /\ GroupBits * i \in Exponents
      BY <2>1, Shifts
    <3>2. GroupBits * (i - 1) + GroupBits = GroupBits * i
      BY ONLY <1>3, i \in 1 .. L, L \in Nat
    <3>3. QED
      BY <3>1, <3>2, Powers
  <2>3. PICK b \in Nat \ {0}, W \in Nat \ {0} :
          b = 2 ^ e /\ W = 2 ^ (e + GroupBits) /\ IsProduct(W, b, P)
    BY ONLY <1>3, <1>4, <2>2, PowerSum
  <2>4. PICK x \in Int : x = v \div b
    BY ONLY <1>2, b \in Nat \ {0}, Division
  <2>5. PICK g \in Int : g = x % P
    BY ONLY P \in Nat \ {0}, x \in Int
  <2>6. VarintGroup(v, i) = g
    BY ONLY <1>4, <2>2, <2>3, <2>4, <2>5 DEF VarintGroup
  <2>7. numbers[i] = g * b
    BY ONLY <1>1, <2>2, <2>3, <2>6, i \in 1 .. L,
            numbers = [k \in 1 .. VarintLen(v) |-> VarintGroup(v, k) * 2 ^ (GroupBits * (k - 1))]
  <2>8. g * b = b * g
    BY ONLY g \in Int, b \in Nat \ {0}
  <2>9. QED
    BY ONLY <2>2, <2>3, <2>4, <2>5, <2>7, <2>8
<1>6. numbers \in Seq(Int) /\ Len(numbers) = L
  <2>1. ASSUME NEW i \in 1 .. L PROVE numbers[i] \in Int
    <3>1. PICK b \in Nat \ {0}, g \in Int : numbers[i] = b * g
      BY <1>5
    <3>2. QED
      BY ONLY <3>1, b \in Nat \ {0}, g \in Int
  <2>2. numbers = [i \in 1 .. L |-> numbers[i]]
    BY ONLY <1>1, numbers = [k \in 1 .. VarintLen(v) |-> VarintGroup(v, k) * 2 ^ (GroupBits * (k - 1))]
  <2>3. QED
    BY ONLY <1>1, <2>1, <2>2
<1>7. PICK h \in [0 .. L -> Int] :
        h[0] = 0 /\ (\A k \in 1 .. L : h[k] = h[k - 1] + numbers[k]) /\ Total(numbers) = h[L]
  BY ONLY <1>6, TotalIs
<1> DEFINE G == {k \in 0 .. L : h[k] = v % 2 ^ (GroupBits * k)}
<1>8. 0 \in G
  <2>1. GroupBits * 0 = 0 /\ 2 ^ 0 = 1 /\ v % 1 = 0
    BY <1>2, <1>3
  <2>2. v % 2 ^ (GroupBits * 0) = 0
    <3>1. PICK z : z = GroupBits * 0
      OBVIOUS
    <3>2. z = 0
      BY ONLY <2>1, <3>1
    <3>3. v % 2 ^ z = 0
      BY ONLY <2>1, <3>2
    <3>4. QED
      BY ONLY <3>1, <3>3
  <2>3. 0 \in 0 .. L /\ h[0] = 0
    BY <1>1, <1>7
  <2>4. QED
    BY <2>2, <2>3
<1>9. ASSUME NEW k \in 0 .. L - 1, k \in G
      PROVE  k + 1 \in G
  <2>1. k + 1 \in 1 .. L /\ (k + 1) - 1 = k /\ k + 1 \in 0 .. L
    BY <1>1
  <2>2. PICK b \in Nat \ {0}, W \in Nat \ {0}, g \in Int :
          /\ b = 2 ^ (GroupBits * k) /\ W = 2 ^ (GroupBits * (k + 1)) /\ IsProduct(W, b, P)
          /\ g = (v \div b) % P /\ numbers[k + 1] = b * g
    <3>1. \E b \in Nat \ {0}, W \in Nat \ {0}, g \in Int :
            /\ b = 2 ^ (GroupBits * ((k + 1) - 1)) /\ W = 2 ^ (GroupBits * (k + 1)) /\ IsProduct(W, b, P)
            /\ g = (v \div b) % P /\ numbers[k + 1] = b * g
      BY ONLY <1>5, <2>1
    <3>2. QED
      BY ONLY <2>1, <3>1
  <2>3. v % W = b * g + (v % b)
    <3>1. Splits(v, b, P, W)
      BY ONLY <1>2, <2>2, b \in Nat \ {0}, P \in Nat \ {0}, W \in Nat \ {0}, TwoDigits
    <3>2. QED
      BY ONLY <2>2, <3>1 DEF Splits
  <2>4. PICK y \in Int, z \in Int : y = b * g /\ z = v % b
    BY ONLY <1>2, b \in Nat \ {0}, g \in Int
  <2>5. h[k + 1] = z + y
    <3>1. h[k + 1] = h[(k + 1) - 1] + numbers[k + 1]
      BY ONLY <1>7, <2>1
    <3>2. h[k] = v % 2 ^ (GroupBits * k)
      BY ONLY <1>9 DEF G
    <3>3. h[k] = z /\ numbers[k + 1] = y
      BY ONLY <2>2, <2>4, <3>2
    <3>4. QED
      BY ONLY <2>1, <3>1, <3>3
  <2>6. z + y = y + z
    BY ONLY y \in Int, z \in Int
  <2>7. QED
    BY <2>1, <2>2, <2>3, <2>4, <2>5, <2>6
<1>10. L \in G
  <2> HIDE DEF G
  <2>1. \A k \in 0 .. L : k \in G
    BY <1>8, <1>9, UpwardInduction
  <2>2. QED
    BY <2>1
<1>11. v % 2 ^ (GroupBits * L) = v
  <2>1. PICK W \in Nat \ {0} : W = 2 ^ (GroupBits * L)
    BY <1>1, Shifts, Powers
  <2>2. v \in 0 .. W - 1
    BY <1>1, <1>2, <2>1
  <2>3. QED
    BY ONLY <2>1, <2>2, SmallMod
<1>12. QED
  BY <1>7, <1>10, <1>11

(* What the readers make of data that begin as a varint.                   *)
LEMMA VarintRuns ==
  ASSUME NEW v \in 0 .. 2 ^ (GroupBits * VarintBytes) - 1, NEW data \in Seq(Bit), NEW offset \in Nat,
         HasVarint(data, offset, v), NEW i \in 1 .. VarintLen(v), offset + i <= Bytes(data)
  PROVE  /\ Continues(data, offset + i - 1) <=> i < VarintLen(v)
         /\ ByteAt(data, offset + i - 1) % 2 ^ GroupBits = VarintGroup(v, i)
<1>1. HasByte(data, offset + i - 1, VarintByte(v, i))
  BY DEF HasVarint
<1>2. PICK P \in Nat \ {0} : P = 2 ^ GroupBits
  BY Shifts, Powers
<1>3. PICK c \in Bit, g \in 0 .. P - 1 :
        /\ c = IF i < VarintLen(v) THEN 1 ELSE 0
        /\ g = VarintGroup(v, i)
        /\ Number(VarintByte(v, i)) = Leads(c, g, P)
  <2>1. (IF i < VarintLen(v) THEN 1 ELSE 0) \in Bit
    BY DEF Bit
  <2>2. /\ VarintGroup(v, i) \in 0 .. 2 ^ GroupBits - 1
        /\ Number(VarintByte(v, i)) = Leads(IF i < VarintLen(v) THEN 1 ELSE 0, VarintGroup(v, i), 2 ^ GroupBits)
    BY VarintByteIs
  <2>3. QED
    BY ONLY <1>2, <2>1, <2>2
<1>4. ByteAt(data, offset + i - 1) = Leads(c, g, P)
  <2>1. offset + i - 1 \in Nat /\ offset + i - 1 < Bytes(data)
    <3>1. VarintLen(v) \in Nat /\ Bytes(data) \in Nat
      <4>1. VarintLen(v) \in Nat /\ VarintLen(v) \in 1 .. VarintBytes
        BY ONLY v \in 0 .. 2 ^ (GroupBits * VarintBytes) - 1, VarintLenTyped
      <4>2. Bytes(data) \in Nat
        BY BytesAre
      <4>3. QED
        BY ONLY <4>1, <4>2
    <3>2. QED
      BY ONLY <3>1, offset \in Nat, i \in 1 .. VarintLen(v), offset + i <= Bytes(data)
  <2>2. VarintByte(v, i) \in Seq(Bit) /\ Len(VarintByte(v, i)) = ByteBits
    BY VarintByteIs
  <2>3. ByteAt(data, offset + i - 1) = Number(VarintByte(v, i))
    BY ONLY <1>1, <2>1, <2>2, data \in Seq(Bit), ByteOf
  <2>4. QED
    BY ONLY <1>3, <2>3
<1>5. Leads(c, g, P) >= P <=> c = 1
  BY ONLY c \in Bit, g \in 0 .. P - 1, P \in Nat \ {0} DEF Leads, Bit
<1>6. Leads(c, g, P) % P = g
  <2>1. (P * 0 + g) % P = g /\ (P * 1 + g) % P = g
    BY ONLY g \in 0 .. P - 1, P \in Nat \ {0}, 0 \in Int, 1 \in Int, DivisionIs
  <2>2. P * 0 + g = g /\ P * 1 + g = P + g
    BY ONLY g \in 0 .. P - 1, P \in Nat \ {0}
  <2>3. QED
    BY ONLY <2>1, <2>2 DEF Leads
<1>7. c = 1 <=> i < VarintLen(v)
  BY ONLY <1>3
<1>8. QED
  BY ONLY <1>2, <1>3, <1>4, <1>5, <1>6, <1>7 DEF Continues

LEMMA VarintEnds ==
  ASSUME NEW v \in 0 .. 2 ^ (GroupBits * VarintBytes) - 1, NEW data \in Seq(Bit), NEW offset \in Nat,
         HasVarint(data, offset, v)
  PROVE  /\ offset + VarintLen(v) <= Bytes(data) => Ends(data, offset) # {} /\ Min(Ends(data, offset)) = VarintLen(v)
         /\ offset + VarintLen(v) > Bytes(data) => Ends(data, offset) = {}
<1>1. PICK L \in Nat : L = VarintLen(v) /\ L \in 1 .. VarintBytes
  BY ONLY v \in 0 .. 2 ^ (GroupBits * VarintBytes) - 1, VarintLenTyped
<1>2. PICK b \in Nat : b = Bytes(data)
  BY BytesAre
<1>3. PICK E : E = Ends(data, offset) /\ E \subseteq 1 .. VarintBytes
               /\ \A n \in 1 .. VarintBytes : n \in E <=> offset + n <= b /\ ~Continues(data, offset + n - 1)
  <2>1. PICK E : E = Ends(data, offset)
    OBVIOUS
  <2>2. E = {n \in 1 .. VarintBytes : offset + n <= b /\ ~Continues(data, offset + n - 1)}
    BY ONLY <1>2, <2>1 DEF Ends
  <2>3. QED
    BY ONLY <2>1, <2>2
<1>4. VarintBytes \in Nat
  BY Widths
<1>5. ASSUME NEW n \in E
      PROVE  n \in 1 .. VarintBytes /\ offset + n <= b /\ n >= L
  <2>1. n \in 1 .. VarintBytes /\ offset + n <= b /\ ~Continues(data, offset + n - 1)
    BY ONLY <1>3, <1>5
  <2>2. CASE n < L
    <3>1. n \in 1 .. L
      BY ONLY <1>4, <2>1, <2>2, L \in Nat
    <3>2. Continues(data, offset + n - 1)
      BY <1>1, <1>2, <2>1, <2>2, <3>1, VarintRuns
    <3>3. QED
      BY ONLY <2>1, <3>2
  <2>3. QED
    BY ONLY <1>4, <2>1, <2>2, L \in Nat
<1>6. CASE offset + L <= b
  <2>1. L \in 1 .. VarintLen(v) /\ ~(L < VarintLen(v))
    BY ONLY <1>1
  <2>2. ~Continues(data, offset + L - 1)
    BY <1>2, <1>6, <2>1, VarintRuns
  <2>3. L \in E
    BY ONLY <1>1, <1>3, <1>6, <2>2
  <2>4. \A x \in E : L <= x
    BY ONLY <1>4, <1>5, L \in Nat
  <2>5. Min(E) \in E /\ Min(E) <= L
    <3>1. \E x \in E : \A y \in E : x <= y
      BY ONLY <2>3, <2>4
    <3>2. QED
      BY ONLY <2>3, <3>1 DEF Min
  <2>6. Min(E) = L
    <3>1. PICK m \in 1 .. VarintBytes : m = Min(E) /\ m <= L
      BY ONLY <1>3, <2>5
    <3>2. L <= m
      BY ONLY <2>4, <2>5, <3>1
    <3>3. QED
      BY ONLY <1>4, <3>1, <3>2, L \in Nat
  <2>7. QED
    BY ONLY <1>1, <1>2, <1>3, <1>6, <2>3, <2>6, offset \in Nat
<1>7. CASE ~(offset + L <= b)
  <2>1. offset + L > b
    BY ONLY <1>7, offset \in Nat, L \in Nat, b \in Nat
  <2>2. E = {}
    <3>1. ASSUME NEW n \in E PROVE FALSE
      <4>1. n \in Nat /\ offset + n <= b /\ n >= L
        BY ONLY <1>4, <1>5
      <4>2. QED
        BY ONLY <2>1, <4>1, offset \in Nat, L \in Nat, b \in Nat
    <3>2. QED
      BY ONLY <3>1
  <2>3. QED
    BY ONLY <1>1, <1>2, <1>3, <1>7, <2>2
<1>8. QED
  BY ONLY <1>6, <1>7

-----------------------------------------------------------------------------
(* Then the readers, on data that agree with what was written as far as    *)
(* they go: they give the value, or find the data too short.               *)
ReaderAt(data, pos) == [data |-> data, pos |-> pos]
Gives(v, data, pos) == Ok([value |-> v, reader |-> ReaderAt(data, pos)])

LEMMA TookIs ==
  ASSUME NEW data, NEW from \in Nat, NEW v, NEW n \in Nat
  PROVE  /\ Checked(None, Took(ReaderAt(data, from), v, n)) = Gives(v, data, from + n)
         /\ \A e : e # None => Checked(e, Took(ReaderAt(data, from), v, n)) = Err(e)
<1>1. Took(ReaderAt(data, from), v, n) = [value |-> v, reader |-> ReaderAt(data, from + n)]
  BY DEF Took, ReaderAt
<1>2. QED
  BY ONLY <1>1 DEF Gives, Checked

LEMMA EofIs ==
  ASSUME NEW data \in Seq(Bit), NEW from \in Nat, NEW n \in Nat
  PROVE  /\ from + n <= Len(data) => Eof(ReaderAt(data, from), n) = None
         /\ from + n > Len(data) => Eof(ReaderAt(data, from), n) # None
<1>1. Remaining(ReaderAt(data, from)) = Len(data) - from /\ Len(data) \in Nat
  BY DEF Remaining, ReaderAt
<1>2. "UnexpectedEof" # None
  BY DEF None
<1>3. n > Len(data) - from <=> from + n > Len(data)
  BY ONLY <1>1, from \in Nat, n \in Nat
<1>4. from + n > Len(data) <=> ~(from + n <= Len(data))
  BY ONLY <1>1, from \in Nat, n \in Nat
<1>5. QED
  BY ONLY <1>1, <1>2, <1>3, <1>4 DEF Eof

(* What stands behind a position. *)
LEMMA SeenWhole ==
  ASSUME NEW data \in Seq(Bit), NEW from \in Nat, NEW bits \in Seq(Bit),
         Agrees(data, from, bits), from + Len(bits) <= Len(data)
  PROVE  SubSeq(data, from + 1, from + Len(bits)) = bits
<1>1. PICK n \in Nat : n = Len(bits)
  OBVIOUS
<1>2. PICK s \in Seq(Bit) : s = SubSeq(data, from + 1, from + n) /\ Len(s) = n
                            /\ \A i \in 1 .. n : s[i] = data[from + i]
  <2>1. SubSeq(data, from + 1, from + n) \in Seq(Bit) /\ Len(SubSeq(data, from + 1, from + n)) = n
    BY <1>1
  <2>2. ASSUME NEW i \in 1 .. n PROVE SubSeq(data, from + 1, from + n)[i] = data[from + i]
    BY <1>1
  <2>3. QED
    BY ONLY <2>1, <2>2
<1>3. ASSUME NEW i \in 1 .. n PROVE s[i] = bits[i]
  <2>1. from + i <= Len(data)
    <3>1. Len(data) \in Nat
      OBVIOUS
    <3>2. QED
      BY ONLY <1>1, <3>1, i \in 1 .. n, from \in Nat, n \in Nat, from + Len(bits) <= Len(data)
  <2>2. QED
    BY ONLY <1>1, <1>2, <2>1, i \in 1 .. n, Agrees(data, from, bits) DEF Agrees
<1>4. s = [i \in 1 .. n |-> s[i]] /\ bits = [i \in 1 .. n |-> bits[i]]
  <2>1. Len(bits) = n /\ Len(s) = n
    BY ONLY <1>1, <1>2
  <2>2. bits = [i \in 1 .. n |-> bits[i]]
    BY ONLY <2>1, bits \in Seq(Bit)
  <2>3. s = [i \in 1 .. n |-> s[i]]
    BY ONLY <2>1, s \in Seq(Bit)
  <2>4. QED
    BY ONLY <2>2, <2>3
<1>5. QED
  BY ONLY <1>1, <1>2, <1>3, <1>4

LEMMA BitsBack ==
  ASSUME NEW data \in Seq(Bit), NEW from \in Nat, NEW n \in 0 .. U64Bits, NEW v \in 0 .. 2 ^ n - 1,
         Agrees(data, from, Bits(v, n))
  PROVE  IF from + n <= Len(data) THEN ReadBits(ReaderAt(data, from), n) = Gives(v, data, from + n)
         ELSE ~ReadBits(ReaderAt(data, from), n).ok
<1>1. n \in Nat /\ n \in Exponents /\ ~(n > U64Bits)
  BY Widths, Powers
<1>2. PICK W \in Nat \ {0} : W = 2 ^ n /\ v \in 0 .. W - 1
  BY <1>1, Powers
<1>3. PICK bits \in Seq(Bit) : bits = Bits(v, n) /\ Len(bits) = n /\ Number(bits) = v
  <2>1. v \in Int
    BY ONLY <1>2, W \in Nat \ {0}
  <2>2. Bits(v, n) \in Seq(Bit) /\ Len(Bits(v, n)) = n /\ Number(Bits(v, n)) = v % W
    BY ONLY <1>1, <1>2, <2>1, BitsAre, NumberOfBits
  <2>3. v % W = v
    BY ONLY <1>2, W \in Nat \ {0}, SmallMod
  <2>4. QED
    BY ONLY <2>2, <2>3
<1>4. PICK m : m = Number(SubSeq(data, from + 1, from + n))
  OBVIOUS
<1>5. ReadBits(ReaderAt(data, from), n) = Checked(Eof(ReaderAt(data, from), n), Took(ReaderAt(data, from), m, n))
  BY ONLY <1>1, <1>4 DEF ReadBits, ReaderAt
<1>6. CASE from + n <= Len(data)
  <2>1. Eof(ReaderAt(data, from), n) = None
    BY <1>1, <1>6, EofIs
  <2>2. m = v
    <3>1. SubSeq(data, from + 1, from + Len(bits)) = bits
      BY ONLY <1>3, <1>6, data \in Seq(Bit), from \in Nat, bits \in Seq(Bit),
              Agrees(data, from, Bits(v, n)), SeenWhole
    <3>2. QED
      BY ONLY <1>3, <1>4, <3>1
  <2>3. QED
    BY ONLY <1>1, <1>5, <1>6, <2>1, <2>2, from \in Nat, TookIs
<1>7. CASE ~(from + n <= Len(data))
  <2>1. PICK e : e = Eof(ReaderAt(data, from), n) /\ e # None
    <3>1. from + n > Len(data)
      BY <1>1, <1>7
    <3>2. Eof(ReaderAt(data, from), n) # None
      BY <1>1, <3>1, EofIs
    <3>3. QED
      BY ONLY <3>2
  <2>2. ReadBits(ReaderAt(data, from), n) = Err(e)
    BY ONLY <1>1, <1>5, <2>1, from \in Nat, TookIs
  <2>3. QED
    BY ONLY <1>7, <2>2 DEF Err
<1>8. QED
  BY ONLY <1>6, <1>7

LEMMA OnByte ==
  ASSUME NEW offset \in Nat
  PROVE  /\ ByteBits * offset \in Nat /\ Misaligned(ByteBits * offset) = None
         /\ (ByteBits * offset) \div ByteBits = offset
<1>1. ByteBits \in Nat \ {0} /\ 0 \in 0 .. ByteBits - 1 /\ ByteBits * offset \in Nat
  <2>1. ByteBits \in Nat /\ ByteBits >= 2
    BY Widths
  <2>2. QED
    BY ONLY <2>1, offset \in Nat, ProductNat
<1>2. (ByteBits * offset + 0) \div ByteBits = offset /\ (ByteBits * offset + 0) % ByteBits = 0
  BY ONLY <1>1, offset \in Nat, DivisionIs
<1>3. ByteBits * offset + 0 = ByteBits * offset
  BY ONLY <1>1
<1>4. QED
  BY ONLY <1>1, <1>2, <1>3 DEF Misaligned

LEMMA SkipBack ==
  ASSUME NEW data \in Seq(Bit), WholeBytes(data), NEW from \in Nat, from <= Len(data)
  PROVE  /\ RoundUp(from) \in Nat /\ RoundUp(from) <= Len(data)
         /\ SkipToByte(ReaderAt(data, from)) = Gives(0, data, RoundUp(from))
<1>1. PICK k \in Nat : Len(data) = ByteBits * k
  BY DEF WholeBytes
<1>2. PICK to \in Nat : to = RoundUp(from) /\ from <= to /\ to <= Len(data)
  <2>1. RoundUp(from) \in Nat /\ from <= RoundUp(from)
        /\ \A m \in Nat : from <= ByteBits * m => RoundUp(from) <= ByteBits * m
    BY RoundUpIs
  <2>2. QED
    BY ONLY <1>1, <2>1, from <= Len(data)
<1>3. PICK n \in Nat : n = Padding(from) /\ from + n = to
  <2>1. to - from \in Nat /\ from + (to - from) = to
    BY ONLY <1>2, from \in Nat, to \in Nat
  <2>2. QED
    BY ONLY <1>2, <2>1 DEF Padding
<1>4. Eof(ReaderAt(data, from), n) = None
  BY <1>2, <1>3, EofIs
<1>5. SkipToByte(ReaderAt(data, from)) = Checked(Eof(ReaderAt(data, from), n), Took(ReaderAt(data, from), 0, n))
  BY ONLY <1>3 DEF SkipToByte, ReaderAt
<1>6. QED
  BY ONLY <1>2, <1>3, <1>4, <1>5, from \in Nat, TookIs

LEMMA AlignedBack ==
  ASSUME NEW data \in Seq(Bit), NEW offset \in Nat, NEW n \in 0 .. U64Bytes, NEW bits \in Seq(Bit),
         Len(bits) = ByteBits * n, NEW v \in 0 .. 2 ^ (ByteBits * n) - 1, HasBytes(bits, 0, v, n),
         Agrees(data, ByteBits * offset, bits)
  PROVE  IF ByteBits * offset + ByteBits * n <= Len(data)
         THEN ReadAligned(ReaderAt(data, ByteBits * offset), n) = Gives(v, data, ByteBits * offset + ByteBits * n)
         ELSE ~ReadAligned(ReaderAt(data, ByteBits * offset), n).ok
<1>1. n \in Nat /\ ByteBits \in Nat
  BY Widths
<1>2. PICK from \in Nat, m \in Nat :
        /\ from = ByteBits * offset /\ m = ByteBits * n /\ Misaligned(from) = None /\ from \div ByteBits = offset
        /\ ByteBits * (offset + n) = from + m
  <2>1. ByteBits * offset \in Nat /\ Misaligned(ByteBits * offset) = None /\ (ByteBits * offset) \div ByteBits = offset
    BY OnByte
  <2>2. ByteBits * n \in Nat
    BY ONLY <1>1, ProductNat
  <2>3. ByteBits * (offset + n) = ByteBits * offset + ByteBits * n
    BY ONLY <1>1, offset \in Nat
  <2>4. QED
    BY ONLY <2>1, <2>2, <2>3
<1>3. PICK x : x = FromLittleEndian(SubSeq(data, from + 1, from + m))
  OBVIOUS
<1>4. PICK e : e = Eof(ReaderAt(data, from), m)
  OBVIOUS
<1>5. ReadAligned(ReaderAt(data, from), n) = Checked(e, Took(ReaderAt(data, from), x, m))
  <2>1. ReaderAt(data, from).pos = from /\ ReaderAt(data, from).data = data
    BY DEF ReaderAt
  <2>2. Slice(data, from \div ByteBits, n) = SubSeq(data, from + 1, from + m)
    BY ONLY <1>2 DEF Slice
  <2>3. Then(Misaligned(ReaderAt(data, from).pos), Eof(ReaderAt(data, from), ByteBits * n)) = e
    BY ONLY <1>2, <1>4, <2>1 DEF Then
  <2>4. QED
    BY ONLY <1>2, <1>3, <2>1, <2>2, <2>3 DEF ReadAligned
<1>6. CASE from + m <= Len(data)
  <2>1. e = None
    BY <1>4, <1>6, EofIs
  <2>2. SubSeq(data, from + 1, from + m) = bits
    BY ONLY <1>2, <1>6, data \in Seq(Bit), from \in Nat, bits \in Seq(Bit), Len(bits) = ByteBits * n,
            Agrees(data, ByteBits * offset, bits), SeenWhole
  <2>3. Bytes(bits) = n
    BY ONLY <1>1, bits \in Seq(Bit), Len(bits) = ByteBits * n, WholeBytesAre
  <2>4. FromLittleEndian(bits) = v
    BY ONLY <2>3, bits \in Seq(Bit), n \in 0 .. U64Bytes, v \in 0 .. 2 ^ (ByteBits * n) - 1,
            HasBytes(bits, 0, v, n), FromBytes
  <2>5. ReadAligned(ReaderAt(data, from), n) = Gives(v, data, from + m)
    <3>1. x = v
      BY ONLY <1>3, <2>2, <2>4
    <3>2. Checked(None, Took(ReaderAt(data, from), v, m)) = Gives(v, data, from + m)
      BY ONLY from \in Nat, m \in Nat, TookIs
    <3>3. QED
      BY ONLY <1>5, <2>1, <3>1, <3>2
  <2>6. QED
    BY ONLY <1>2, <1>6, <2>5
<1>7. CASE ~(from + m <= Len(data))
  <2>1. e # None
    <3>1. from + m > Len(data)
      BY <1>7
    <3>2. QED
      BY <1>4, <3>1, EofIs
  <2>2. ReadAligned(ReaderAt(data, from), n) = Err(e)
    BY ONLY <1>5, <2>1, from \in Nat, m \in Nat, TookIs
  <2>3. QED
    BY ONLY <1>2, <1>7, <2>2 DEF Err
<1>8. QED
  BY ONLY <1>6, <1>7

LEMMA VarintBack ==
  ASSUME NEW data \in Seq(Bit), WholeBytes(data), NEW offset \in Nat, NEW v \in 0 .. 2 ^ U32Bits - 1,
         Agrees(data, ByteBits * offset, Varint(v))
  PROVE  IF ByteBits * offset + Len(Varint(v)) <= Len(data)
         THEN ReadVaru32(ReaderAt(data, ByteBits * offset))
                = Gives(v, data, ByteBits * offset + Len(Varint(v)))
         ELSE ~ReadVaru32(ReaderAt(data, ByteBits * offset)).ok
<1>1. v \in 0 .. 2 ^ (GroupBits * VarintBytes) - 1 /\ v \in Int
  BY NumberWidths
<1>2. PICK W \in Nat \ {0} : W = 2 ^ U32Bits
  BY NumberWidths
<1>3. HasVarint(data, offset, v)
  BY ONLY <1>1, data \in Seq(Bit), offset \in Nat, Agrees(data, ByteBits * offset, Varint(v)), VarintSeen
<1>4. PICK L \in Nat : L = VarintLen(v) /\ L \in 1 .. VarintBytes
  BY <1>1, VarintLenTyped
<1>5. PICK from \in Nat, m \in Nat :
        /\ from = ByteBits * offset /\ m = ByteBits * L /\ Misaligned(from) = None /\ from \div ByteBits = offset
        /\ ByteBits * (offset + L) = from + m
  <2>1. ByteBits * offset \in Nat /\ Misaligned(ByteBits * offset) = None /\ (ByteBits * offset) \div ByteBits = offset
    BY OnByte
  <2>2. ByteBits \in Nat
    BY Widths
  <2>3. ByteBits * L \in Nat
    BY ONLY <2>2, L \in Nat, ProductNat
  <2>4. ByteBits * (offset + L) = ByteBits * offset + ByteBits * L
    BY ONLY <2>2, offset \in Nat, L \in Nat
  <2>5. QED
    BY ONLY <2>1, <2>3, <2>4
<1>6. Len(Varint(v)) = m
  BY <1>1, <1>4, <1>5, VarintIs
<1>7. PICK b \in Nat : b = Bytes(data) /\ Len(data) = ByteBits * b
  <2>1. PICK k \in Nat : Len(data) = ByteBits * k
    BY DEF WholeBytes
  <2>2. Bytes(data) = k
    BY ONLY <2>1, data \in Seq(Bit), WholeBytesAre
  <2>3. QED
    BY ONLY <2>1, <2>2
<1>8. from + m <= Len(data) <=> offset + L <= b
  <2>1. ByteBits \in Nat /\ ByteBits >= 2
    BY Widths
  <2>2. CASE offset + L <= b
    <3>1. ByteBits * (offset + L) <= ByteBits * b
      BY ONLY <2>1, <2>2, offset \in Nat, L \in Nat, b \in Nat, ProductGrows
    <3>2. QED
      BY ONLY <1>5, <1>7, <2>2, <3>1
  <2>3. CASE ~(offset + L <= b)
    <3>1. b + 1 <= offset + L
      BY ONLY <2>3, offset \in Nat, L \in Nat, b \in Nat
    <3>2. ByteBits * (b + 1) <= ByteBits * (offset + L)
      BY ONLY <2>1, <3>1, offset \in Nat, L \in Nat, b \in Nat, ProductGrows
    <3>3. ByteBits * (b + 1) = ByteBits * b + ByteBits
      BY ONLY <2>1, b \in Nat
    <3>4. PICK z \in Nat : z = ByteBits * b
      BY ONLY <2>1, b \in Nat, ProductNat
    <3>5. z + ByteBits <= from + m
      BY ONLY <1>5, <3>2, <3>3, <3>4
    <3>6. ~(from + m <= Len(data))
      BY ONLY <1>7, <2>1, <3>4, <3>5, from \in Nat, m \in Nat
    <3>7. QED
      BY ONLY <2>3, <3>6
  <2>4. QED
    BY ONLY <2>2, <2>3
<1>9. PICK e : e = VarintError(data, offset, "UnexpectedEof")
  OBVIOUS
<1>10. PICK x, n : x = Total(InU32(Shifted(data, offset))) /\ n = ByteBits * Min(Ends(data, offset))
  OBVIOUS
<1>11. ReadVaru32(ReaderAt(data, from)) = Checked(e, Took(ReaderAt(data, from), x, n))
  <2>1. ReaderAt(data, from).pos = from /\ ReaderAt(data, from).data = data
    BY DEF ReaderAt
  <2>2. Then(Misaligned(from), e) = e
    BY ONLY <1>5 DEF Then
  <2>3. QED
    BY ONLY <1>5, <1>9, <1>10, <2>1, <2>2 DEF ReadVaru32
<1>12. CASE from + m <= Len(data)
  <2>1. Ends(data, offset) # {} /\ Min(Ends(data, offset)) = L
    <3>1. offset + VarintLen(v) <= Bytes(data)
      BY ONLY <1>4, <1>7, <1>8, <1>12
    <3>2. QED
      BY ONLY <1>1, <1>3, <1>4, <3>1, data \in Seq(Bit), offset \in Nat, VarintEnds
  <2>2. e = None
    BY ONLY <1>9, <2>1 DEF VarintError
  <2>3. n = m
    BY ONLY <1>5, <1>10, <2>1
  <2>4. Shifted(data, offset) = [i \in 1 .. VarintLen(v) |-> VarintGroup(v, i) * 2 ^ (GroupBits * (i - 1))]
    <3>1. ASSUME NEW i \in 1 .. L
          PROVE  ByteAt(data, offset + i - 1) % 2 ^ GroupBits = VarintGroup(v, i)
      <4>1. offset + i <= Bytes(data)
        BY ONLY <1>7, <1>8, <1>12, i \in 1 .. L, offset \in Nat, L \in Nat, b \in Nat
      <4>2. i \in 1 .. VarintLen(v)
        BY ONLY <1>4, i \in 1 .. L
      <4>3. QED
        BY ONLY <1>1, <1>3, <4>1, <4>2, data \in Seq(Bit), offset \in Nat, VarintRuns
    <3>2. Shifted(data, offset) = [i \in 1 .. L |-> (ByteAt(data, offset + i - 1) % 2 ^ GroupBits) * 2 ^ (GroupBits * (i - 1))]
      BY ONLY <2>1 DEF Shifted
    <3>3. QED
      BY ONLY <1>4, <3>1, <3>2
  <2>5. Total(Shifted(data, offset)) = v
    BY ONLY <1>1, <2>4, GroupsOf
  <2>6. x = v
    <3>1. Total(InU32(Shifted(data, offset))) = Total(Shifted(data, offset)) % 2 ^ U32Bits
      BY ONLY <2>1, data \in Seq(Bit), offset \in Nat, VarintSums
    <3>2. v % W = v
      BY ONLY <1>2, v \in 0 .. 2 ^ U32Bits - 1, SmallMod
    <3>3. QED
      BY ONLY <1>2, <1>10, <2>5, <3>1, <3>2
  <2>7. ReadVaru32(ReaderAt(data, from)) = Gives(v, data, from + m)
    BY ONLY <1>11, <2>2, <2>3, <2>6, from \in Nat, m \in Nat, TookIs
  <2>8. QED
    BY ONLY <1>5, <1>6, <1>12, <2>7
<1>13. CASE ~(from + m <= Len(data))
  <2>1. Ends(data, offset) = {}
    <3>1. offset + VarintLen(v) > Bytes(data)
      BY ONLY <1>4, <1>7, <1>8, <1>13, offset \in Nat, L \in Nat, b \in Nat
    <3>2. QED
      BY ONLY <1>1, <1>3, <3>1, data \in Seq(Bit), offset \in Nat, VarintEnds
  <2>2. e # None
    BY ONLY <1>9, <2>1 DEF VarintError, None
  <2>3. ~ReadVaru32(ReaderAt(data, from)).ok
    BY ONLY <1>11, <2>2 DEF Checked, Err
  <2>4. QED
    BY ONLY <1>5, <1>6, <1>13, <2>3
<1>14. QED
  BY ONLY <1>12, <1>13

-----------------------------------------------------------------------------
(* The arithmetic of the codecs: what a writer makes of a value, and the   *)
(* value that a reader makes of it again.                                  *)
LEMMA ModShift ==
  ASSUME NEW W \in Nat \ {0}, NEW x \in Int
  PROVE  (x + W) % W = x % W
<1>1. PICK q \in Int, r \in 0 .. W - 1 : q = x \div W /\ r = x % W /\ x = W * q + r
  BY Division
<1>2. PICK y \in Int : y = W * q
  BY W \in Int, q \in Int
<1>3. W * (q + 1) = W * q + W /\ q + 1 \in Int
  BY W \in Int, q \in Int
<1>4. W * (q + 1) + r = x + W
  <2>1. PICK z \in Int : z = W * (q + 1)
    BY ONLY <1>3, W \in Nat \ {0}
  <2>2. z = y + W /\ x = y + r
    BY ONLY <1>1, <1>2, <1>3, <2>1
  <2>3. z + r = x + W
    BY ONLY <2>2, y \in Int, z \in Int, r \in 0 .. W - 1, W \in Nat \ {0}
  <2>4. QED
    BY ONLY <2>1, <2>3
<1>5. (W * (q + 1) + r) % W = r
  BY ONLY <1>3, W \in Nat \ {0}, r \in 0 .. W - 1, DivisionIs
<1>6. QED
  BY ONLY <1>1, <1>4, <1>5

LEMMA I64Wraps ==
  ASSUME NEW x \in I64Min .. I64Max, NEW W, W = 2 ^ U64Bits
  PROVE  /\ x \in Int /\ W \in Nat \ {0}
         /\ AsI64(x) = x /\ AsI64(x + W) = x /\ AsI64(x - W) = x
         /\ AsU64(x) = IF x >= 0 THEN x ELSE x + W
<1>1. PICK H \in Nat \ {0} : H = 2 ^ (U64Bits - 1) /\ W = 2 * H /\ W \in Nat \ {0}
  BY NumberWidths
<1>2. I64Min = -H /\ I64Max = H - 1
  BY <1>1 DEF I64Min, I64Max
<1>3. x \in -H .. H - 1 /\ x \in Int
  BY <1>2
<1>4. AsI64(x) = x
  BY <1>3, I64Is
<1>5. PICK y \in Int : y = x + H
  BY <1>3
<1>6. y \in 0 .. W - 1 /\ y % W = y
  <2>1. y \in 0 .. W - 1
    BY ONLY <1>1, <1>3, <1>5, H \in Nat \ {0}
  <2>2. QED
    BY ONLY <1>1, <2>1, SmallMod
<1>7. (y + W) % W = y /\ (y - W) % W = y
  <2>1. (y + W) % W = y % W
    BY ONLY <1>1, y \in Int, ModShift
  <2>2. PICK z \in Int : z = y - W /\ z + W = y
    BY ONLY <1>1, y \in Int
  <2>3. (z + W) % W = z % W
    BY ONLY <1>1, z \in Int, ModShift
  <2>4. QED
    BY ONLY <1>6, <2>1, <2>2, <2>3
<1>8. AsI64(x + W) = x
  <2>1. (x + W) - I64Min = y + W
    BY ONLY <1>1, <1>2, <1>3, <1>5, H \in Nat \ {0}
  <2>2. AsI64(x + W) = ((y + W) % W) + I64Min
    BY ONLY <2>1, W = 2 ^ U64Bits DEF AsI64
  <2>3. QED
    BY ONLY <1>2, <1>3, <1>5, <1>7, <2>2, H \in Nat \ {0}
<1>9. AsI64(x - W) = x
  <2>1. (x - W) - I64Min = y - W
    BY ONLY <1>1, <1>2, <1>3, <1>5, H \in Nat \ {0}
  <2>2. AsI64(x - W) = ((y - W) % W) + I64Min
    BY ONLY <2>1, W = 2 ^ U64Bits DEF AsI64
  <2>3. QED
    BY ONLY <1>2, <1>3, <1>5, <1>7, <2>2, H \in Nat \ {0}
<1>10. AsU64(x) = IF x >= 0 THEN x ELSE x + W
  <2>1. AsU64(x) = x % W
    BY ONLY W = 2 ^ U64Bits DEF AsU64
  <2>2. CASE x >= 0
    <3>1. x \in 0 .. W - 1
      BY ONLY <1>1, <1>3, <2>2, H \in Nat \ {0}
    <3>2. QED
      BY ONLY <1>1, <2>1, <2>2, <3>1, SmallMod
  <2>3. CASE ~(x >= 0)
    <3>1. PICK z \in Int : z = x + W /\ z \in 0 .. W - 1
      BY ONLY <1>1, <1>3, <2>3, H \in Nat \ {0}
    <3>2. z % W = z
      BY ONLY <1>1, <3>1, SmallMod
    <3>3. z % W = x % W
      BY ONLY <1>1, <1>3, <3>1, ModShift
    <3>4. QED
      BY ONLY <2>1, <2>3, <3>1, <3>2, <3>3
  <2>4. QED
    BY ONLY <2>2, <2>3
<1>11. QED
  BY ONLY <1>1, <1>3, <1>4, <1>8, <1>9, <1>10

(* A u64 as an i64, and back. *)
LEMMA U64Back ==
  ASSUME NEW x \in 0 .. 2 ^ U64Bits - 1
  PROVE  /\ x \in Int
         /\ AsI64(x) = (IF x <= I64Max THEN x ELSE x - 2 ^ U64Bits)
         /\ AsU64(AsI64(x)) = x
<1>1. PICK W \in Nat \ {0}, H \in Nat \ {0} : W = 2 ^ U64Bits /\ H = 2 ^ (U64Bits - 1) /\ W = 2 * H
  BY NumberWidths
<1>2. I64Min = -H /\ I64Max = H - 1
  BY <1>1 DEF I64Min, I64Max
<1>3. x \in 0 .. W - 1 /\ x \in Int
  BY <1>1
<1>4. CASE x <= I64Max
  <2>1. x \in I64Min .. I64Max /\ x >= 0
    BY ONLY <1>2, <1>3, <1>4, H \in Nat \ {0}
  <2>2. AsI64(x) = x /\ AsU64(x) = x
    BY ONLY <1>1, <2>1, I64Wraps
  <2>3. QED
    BY ONLY <1>3, <1>4, <2>2
<1>5. CASE ~(x <= I64Max)
  <2>1. PICK y \in Int : y = x - W /\ y + W = x /\ y \in I64Min .. I64Max /\ ~(y >= 0)
    <3>1. x - W \in Int /\ (x - W) + W = x /\ x - W \in -H .. H - 1 /\ ~(x - W >= 0)
      BY ONLY <1>1, <1>2, <1>3, <1>5, H \in Nat \ {0}, W \in Nat \ {0}
    <3>2. QED
      BY ONLY <1>2, <3>1
  <2>2. AsI64(y + W) = y /\ AsU64(y) = y + W
    BY ONLY <1>1, <2>1, I64Wraps
  <2>3. QED
    BY ONLY <1>1, <1>3, <1>5, <2>1, <2>2
<1>6. QED
  BY ONLY <1>4, <1>5

LEMMA RequiredBitsHold ==
  ASSUME NEW range \in 0 .. 2 ^ U64Bits - 1
  PROVE  RequiredBits(range) \in 0 .. U64Bits /\ range < 2 ^ RequiredBits(range)
<1>1. PICK S : S = {n \in 0 .. U64Bits : range < 2 ^ n}
  OBVIOUS
<1>2. U64Bits \in Nat /\ range < 2 ^ U64Bits
  BY Widths, NumberWidths
<1>3. U64Bits \in S
  BY ONLY <1>1, <1>2
<1>4. S \subseteq Nat
  <2>1. S \subseteq 0 .. U64Bits
    BY ONLY <1>1
  <2>2. QED
    BY ONLY <1>2, <2>1
<1>5. Min(S) \in S
  BY ONLY <1>3, <1>4, LeastIn
<1>6. QED
  BY ONLY <1>1, <1>5 DEF RequiredBits

(* A read of v gives v, or a wide field panics. *)
Returns(traps, v, back, data, to) ==
  \/ back = Gives(ValueIn(v), data, to)
  \/ traps /\ Wide(v) /\ back = Err("panic")

(* From the n bits of raw, a reader makes v. *)
Decodes(traps, v, raw, n) ==
  \A data, from :
    /\ ~ReadBits(ReaderAt(data, from), n).ok => ~ReadValue(traps, ReaderAt(data, from), v).ok
    /\ \A to : ReadBits(ReaderAt(data, from), n) = Gives(raw, data, to)
                 => Returns(traps, v, ReadValue(traps, ReaderAt(data, from), v), data, to)

(* What was written are the n bits of a number, and they are decoded.      *)
Codes(traps, w, v, result) ==
  \E n \in 0 .. U64Bits : \E raw \in 0 .. 2 ^ n - 1 :
    result = Write(w, Bits(raw, n)) /\ Decodes(traps, v, raw, n)

LEMMA DecodesAlike ==
  ASSUME NEW traps, NEW v, NEW n, v.kind # "Align",
         \A data, from : ReadValue(traps, ReaderAt(data, from), v) = ReadBits(ReaderAt(data, from), n)
  PROVE  Decodes(traps, v, v.value, n)
BY DEF Decodes, Returns, ValueIn

LEMMA WriteBitsCodes ==
  ASSUME NEW w, NEW n \in Nat, NEW v \in 0 .. 2 ^ U64Bits - 1, n = 0 => v = 0, WriteBits(w, v, n).ok
  PROVE  n \in 0 .. U64Bits /\ v \in 0 .. 2 ^ n - 1 /\ WriteBits(w, v, n) = Write(w, Bits(v, n))
<1>1. U64Bits \in Nat /\ 2 ^ U64Bits \in Nat \ {0} /\ 2 ^ 0 = 1
  BY Widths, NumberWidths
<1>2. ~(n > U64Bits) /\ ~(n \in 1 .. U64Bits - 1 /\ v >= 2 ^ n)
  BY DEF WriteBits, Err
<1>3. n \in 0 .. U64Bits
  BY ONLY <1>1, <1>2, n \in Nat
<1>4. v \in 0 .. 2 ^ n - 1
  <2>1. PICK P \in Nat \ {0} : P = 2 ^ n
    BY <1>3, Powers
  <2>2. CASE n = 0
    BY ONLY <1>1, <2>2, n = 0 => v = 0
  <2>3. CASE n = U64Bits
    BY ONLY <2>3, v \in 0 .. 2 ^ U64Bits - 1
  <2>4. CASE n # 0 /\ n # U64Bits
    <3>1. n \in 1 .. U64Bits - 1
      BY ONLY <1>1, <1>3, <2>4
    <3>2. ~(v >= P)
      BY ONLY <1>2, <2>1, <3>1
    <3>3. v \in Int /\ v >= 0
      BY ONLY <1>1, v \in 0 .. 2 ^ U64Bits - 1
    <3>4. QED
      BY ONLY <2>1, <3>2, <3>3, P \in Nat \ {0}
  <2>5. QED
    BY ONLY <2>2, <2>3, <2>4
<1>5. WriteBits(w, v, n) = Write(w, Bits(v, n))
  BY ONLY <1>2 DEF WriteBits
<1>6. QED
  BY ONLY <1>3, <1>4, <1>5

LEMMA BoolCodes ==
  ASSUME NEW traps, NEW w, NEW v, Writable(v), v.kind = "Field", v.codec.kind = "Bool"
  PROVE  Codes(traps, w, v, WriteValue(traps, w, v))
<1>1. v.value \in Bit
  BY DEF Writable, Bit
<1>2. WriteValue(traps, w, v) = Write(w, <<v.value>>)
  BY DEF WriteValue, WriteField
<1>3. 1 \in 0 .. U64Bits /\ 1 \in Exponents
  <2>1. U64Bits \in Nat /\ U64Bits >= 1
    BY Widths
  <2>2. 1 \in 0 .. U64Bits
    BY ONLY <2>1
  <2>3. QED
    BY ONLY <2>2, Powers
<1>4. <<v.value>> = Bits(v.value, 1)
  <2>1. v.value \in Int /\ 2 ^ (1 - 1) = 1 /\ (v.value \div 1) % 2 = v.value
    BY ONLY <1>1 DEF Bit
  <2>2. PICK s \in Seq(Bit) :
          s = Bits(v.value, 1) /\ Len(s) = 1 /\ \A i \in 1 .. 1 : s[i] = (v.value \div 2 ^ (1 - i)) % 2
    <3>1. /\ Bits(v.value, 1) \in Seq(Bit) /\ Len(Bits(v.value, 1)) = 1
          /\ \A i \in 1 .. 1 : Bits(v.value, 1)[i] = (v.value \div 2 ^ (1 - i)) % 2
      BY ONLY <1>3, <2>1, BitsAre
    <3>2. QED
      BY ONLY <3>1
  <2>3. s[1] = v.value
    BY ONLY <2>1, <2>2
  <2>4. s = <<s[1]>>
    BY ONLY <2>2
  <2>5. QED
    BY ONLY <2>2, <2>3, <2>4
<1>5. v.value \in 0 .. 2 ^ 1 - 1
  <2>1. 2 ^ 1 - 1 = 1
    OBVIOUS
  <2>2. QED
    BY ONLY <1>1, <2>1 DEF Bit
<1>6. Decodes(traps, v, v.value, 1)
  <2>1. \A data, from : ReadValue(traps, ReaderAt(data, from), v) = ReadBits(ReaderAt(data, from), 1)
    BY DEF ReadValue, ReadField
  <2>2. QED
    BY <2>1, DecodesAlike
<1>7. QED
  BY ONLY <1>2, <1>3, <1>4, <1>5, <1>6 DEF Codes

LEMMA UIntCodes ==
  ASSUME NEW traps, NEW w, NEW v, Writable(v), v.kind = "Field", v.codec.kind = "UInt",
         WriteValue(traps, w, v).ok
  PROVE  Codes(traps, w, v, WriteValue(traps, w, v))
<1>1. v.codec.bits \in 1 .. U64Bits /\ v.value \in Int
  BY DEF Writable, ValidField
<1>2. PICK n \in Nat : n = v.codec.bits /\ n \in 0 .. U64Bits /\ n # 0
  BY <1>1, Widths
<1>3. WriteValue(traps, w, v) = WriteUInt(w, n, v.value)
  BY ONLY <1>2, v.kind = "Field", v.codec.kind = "UInt" DEF WriteValue, WriteField
<1>4. v.value \in 0 .. 2 ^ n - 1 /\ WriteUInt(w, n, v.value) = WriteBits(w, v.value, n)
  <2>1. WriteUInt(w, n, v.value).ok
    BY ONLY <1>3, WriteValue(traps, w, v).ok
  <2>2. QED
    BY ONLY <2>1 DEF WriteUInt, AndThen, Checked, OutOfRange, Ok, Err, None
<1>5. v.value \in 0 .. 2 ^ U64Bits - 1
  <2>1. 2 ^ n \in Nat \ {0} /\ 2 ^ U64Bits \in Nat \ {0} /\ 2 ^ n <= 2 ^ U64Bits
    <3>1. n \in Exponents /\ U64Bits \in Exponents
      BY <1>2, Powers, Widths
    <3>2. QED
      BY ONLY <1>2, <3>1, Powers, PowersGrow
  <2>2. QED
    BY ONLY <1>1, <1>4, <2>1
<1>6. WriteBits(w, v.value, n) = Write(w, Bits(v.value, n))
  BY ONLY <1>2, <1>3, <1>4, <1>5, WriteValue(traps, w, v).ok, WriteBitsCodes
<1>7. Decodes(traps, v, v.value, n)
  <2>1. \A data, from : ReadValue(traps, ReaderAt(data, from), v) = ReadBits(ReaderAt(data, from), n)
    BY ONLY <1>2, v.kind = "Field", v.codec.kind = "UInt" DEF ReadValue, ReadField
  <2>2. QED
    BY <2>1, DecodesAlike
<1>8. QED
  BY ONLY <1>2, <1>3, <1>4, <1>6, <1>7 DEF Codes

LEMMA IndexCodes ==
  ASSUME NEW traps, NEW w, NEW v, Writable(v), v.kind = "Index", WriteValue(traps, w, v).ok
  PROVE  Codes(traps, w, v, WriteValue(traps, w, v))
<1>1. PICK n \in Nat : n = v.bits /\ v.value \in 0 .. 2 ^ U64Bits - 1 /\ (n = 0 => v.value = 0)
  BY DEF Writable
<1>2. WriteValue(traps, w, v) = WriteBits(w, v.value, n)
  BY ONLY <1>1, v.kind = "Index" DEF WriteValue
<1>3. n \in 0 .. U64Bits /\ v.value \in 0 .. 2 ^ n - 1 /\ WriteBits(w, v.value, n) = Write(w, Bits(v.value, n))
  BY ONLY <1>1, <1>2, WriteValue(traps, w, v).ok, WriteBitsCodes
<1>4. Decodes(traps, v, v.value, n)
  <2>1. \A data, from : ReadValue(traps, ReaderAt(data, from), v) = ReadBits(ReaderAt(data, from), n)
    BY ONLY <1>1, v.kind = "Index" DEF ReadValue
  <2>2. QED
    BY <2>1, DecodesAlike
<1>5. QED
  BY ONLY <1>2, <1>3, <1>4 DEF Codes

LEMMA SIntBack ==
  ASSUME NEW traps, NEW n \in 1 .. U64Bits, NEW x \in -(2 ^ (n - 1)) .. 2 ^ (n - 1) - 1
  PROVE  /\ AsU64(x) % 2 ^ n \in 0 .. 2 ^ n - 1
         /\ \/ SInt(traps, n, AsU64(x) % 2 ^ n) = Ok(x)
            \/ traps /\ n = U64Bits - 1 /\ x < 0 /\ SInt(traps, n, AsU64(x) % 2 ^ n) = Err("panic")
<1>1. U64Bits \in Nat /\ n \in Nat /\ n \in Exponents /\ n # 0 /\ U64Bits \in Exponents /\ U64Bits - 1 \in Exponents
      /\ n - 1 \in 0 .. U64Bits - 1
  <2>1. U64Bits \in Nat
    BY Widths
  <2>2. n \in 0 .. U64Bits /\ U64Bits \in 0 .. U64Bits /\ U64Bits - 1 \in 0 .. U64Bits /\ n - 1 \in 0 .. U64Bits - 1 /\ n # 0
    BY ONLY <2>1, n \in 1 .. U64Bits
  <2>3. QED
    BY ONLY <2>1, <2>2, Powers
<1>2. PICK h \in Nat \ {0}, B \in Nat \ {0} : h = 2 ^ (n - 1) /\ B = 2 ^ n /\ B = 2 * h
  BY <1>1, Powers, PowerNext
<1>3. PICK H \in Nat \ {0}, W \in Nat \ {0} : H = 2 ^ (U64Bits - 1) /\ W = 2 ^ U64Bits /\ W = 2 * H
  BY NumberWidths
<1>4. I64Min = -H /\ I64Max = H - 1
  BY <1>3 DEF I64Min, I64Max
<1>5. h <= H
  BY ONLY <1>1, <1>2, <1>3, PowersGrow
<1>6. x \in -h .. h - 1 /\ x \in Int
  BY <1>2
<1>7. x \in I64Min .. I64Max
  BY ONLY <1>4, <1>5, <1>6, h \in Nat \ {0}, H \in Nat \ {0}
<1>8. /\ AsI64(x) = x /\ AsI64(x + W) = x
      /\ AsU64(x) = IF x >= 0 THEN x ELSE x + W
  BY ONLY <1>3, <1>7, I64Wraps
<1>9. PICK raw \in Int : raw = AsU64(x) % B
  BY ONLY <1>3, <1>6, <1>8, B \in Nat \ {0}
<1>10. raw = IF x >= 0 THEN x ELSE x + B
  <2>1. CASE x >= 0
    <3>1. x \in 0 .. B - 1
      BY ONLY <1>2, <1>6, <2>1, h \in Nat \ {0}
    <3>2. x % B = x
      BY ONLY <3>1, B \in Nat \ {0}, SmallMod
    <3>3. QED
      BY ONLY <1>8, <1>9, <2>1, <3>2
  <2>2. CASE ~(x >= 0)
    <3>1. PICK C \in Nat \ {0} : W = B * C
      <4>1. n \in 0 .. U64Bits
        BY ONLY <1>1, n \in 1 .. U64Bits
      <4>2. U64Bits - n \in Exponents /\ 2 ^ U64Bits = 2 ^ n * 2 ^ (U64Bits - n)
        BY ONLY <1>1, <4>1, Powers
      <4>3. 2 ^ (U64Bits - n) \in Nat \ {0}
        BY ONLY <4>2, Powers
      <4>4. QED
        BY ONLY <1>2, <1>3, <4>2, <4>3
    <3>2. PICK y \in 0 .. B - 1 : y = x + B
      BY ONLY <1>2, <1>6, <2>2, h \in Nat \ {0}
    <3>3. (B * (C - 1) + y) % B = y
      <4>1. C - 1 \in Int
        BY ONLY C \in Nat \ {0}
      <4>2. QED
        BY ONLY <4>1, B \in Nat \ {0}, y \in 0 .. B - 1, DivisionIs
    <3>4. B * (C - 1) + y = x + W
      <4>1. B * (C - 1) = B * C - B /\ B * (C - 1) \in Int
        BY ONLY B \in Nat \ {0}, C \in Nat \ {0}
      <4>2. PICK z \in Int : z = B * (C - 1)
        BY ONLY <4>1
      <4>3. z = W - B
        BY ONLY <3>1, <4>1, <4>2
      <4>4. z + y = x + W
        BY ONLY <3>2, <4>3, <1>6, W \in Nat \ {0}, B \in Nat \ {0}, z \in Int
      <4>5. QED
        BY ONLY <4>2, <4>4
    <3>5. QED
      BY ONLY <1>8, <1>9, <2>2, <3>2, <3>3, <3>4
  <2>3. QED
    BY ONLY <2>1, <2>2
<1>11. raw \in 0 .. B - 1 /\ (raw < h <=> x >= 0)
  BY ONLY <1>2, <1>6, <1>10, h \in Nat \ {0}
<1>12. SInt(traps, n, raw) = Ok(x) \/ (traps /\ n = U64Bits - 1 /\ x < 0 /\ SInt(traps, n, raw) = Err("panic"))
  <2>1. CASE n = U64Bits
    <3>1. AsI64(raw) = x
      BY ONLY <1>2, <1>3, <1>8, <1>10, <2>1
    <3>2. QED
      BY ONLY <2>1, <3>1 DEF SInt
  <2>2. CASE n # U64Bits /\ x >= 0
    BY ONLY <1>2, <1>10, <1>11, <2>2 DEF SInt
  <2>3. CASE n # U64Bits /\ ~(x >= 0)
    <3>1. SInt(traps, n, raw) = I64(traps, raw - AsI64(B))
      BY ONLY <1>2, <1>11, <2>3 DEF SInt
    <3>2. CASE n = U64Bits - 1
      <4>1. B = H
        BY ONLY <1>2, <1>3, <3>2
      <4>2. AsI64(B) = -H
        <5>1. -H \in I64Min .. I64Max /\ -H + W = B
          <6>1. -H \in -H .. H - 1 /\ -H + W = H
            <7>1. -H \in -H .. H - 1
              BY ONLY H \in Nat \ {0}
            <7>2. W = H + H
              BY ONLY <1>3, H \in Nat \ {0}
            <7>3. QED
              BY ONLY <7>1, <7>2, H \in Nat \ {0}
          <6>2. QED
            BY ONLY <1>4, <4>1, <6>1
        <5>2. AsI64(-H + W) = -H
          BY ONLY <1>3, <5>1, I64Wraps
        <5>3. QED
          BY ONLY <5>1, <5>2
      <4>3. raw - (-H) = x + W
        BY ONLY <1>3, <1>6, <1>10, <2>3, <4>1, H \in Nat \ {0}
      <4>4. I64(traps, x + W) \in {Ok(x), IF traps THEN Err("panic") ELSE Ok(x)}
        BY ONLY <1>8 DEF I64
      <4>5. QED
        <5>1. x < 0
          BY ONLY <1>6, <2>3
        <5>2. SInt(traps, n, raw) \in {Ok(x), IF traps THEN Err("panic") ELSE Ok(x)}
          BY ONLY <3>1, <4>2, <4>3, <4>4
        <5>3. QED
          BY ONLY <3>2, <5>1, <5>2
    <3>3. CASE n # U64Bits - 1
      <4>1. 2 * B <= H
        <5>1. n + 1 \in 0 .. U64Bits - 1 /\ n + 1 \in Exponents /\ (n + 1) - 1 = n /\ n + 1 # 0
          <6>1. n + 1 \in 0 .. U64Bits - 1 /\ (n + 1) - 1 = n /\ n + 1 # 0
            BY ONLY <1>1, <2>3, <3>3, n \in 1 .. U64Bits
          <6>2. QED
            BY ONLY <1>1, <6>1, Powers
        <5>2. 2 ^ (n + 1) <= H
          BY ONLY <1>1, <1>3, <5>1, PowersGrow
        <5>3. 2 ^ (n + 1) = 2 * 2 ^ ((n + 1) - 1)
          BY ONLY <5>1, PowerNext
        <5>4. QED
          BY ONLY <1>2, <5>1, <5>2, <5>3
      <4>2. B \in I64Min .. I64Max
        BY ONLY <1>4, <4>1, B \in Nat \ {0}, H \in Nat \ {0}
      <4>3. AsI64(B) = B
        BY ONLY <1>3, <4>2, I64Wraps
      <4>4. raw - B = x
        BY ONLY <1>6, <1>10, <2>3, B \in Nat \ {0}
      <4>5. I64(traps, x) = Ok(x)
        BY ONLY <1>6, <1>7, I64Is
      <4>6. QED
        BY ONLY <3>1, <4>3, <4>4, <4>5
    <3>4. QED
      BY ONLY <3>2, <3>3
  <2>4. QED
    BY ONLY <2>1, <2>2, <2>3
<1>13. QED
  BY ONLY <1>2, <1>9, <1>11, <1>12

LEMMA WithValueIs ==
  ASSUME NEW x, NEW y, NEW reader, NEW e
  PROVE  /\ WithValue([value |-> x, reader |-> reader], Ok(y)) = Ok([value |-> y, reader |-> reader])
         /\ WithValue([value |-> x, reader |-> reader], Err(e)) = Err(e)
<1>1. [[value |-> x, reader |-> reader] EXCEPT !.value = y] = [value |-> y, reader |-> reader]
  OBVIOUS
<1>2. Ok(y).ok /\ Ok(y).val = y /\ ~Err(e).ok
  BY DEF Ok, Err
<1>3. QED
  BY ONLY <1>1, <1>2 DEF WithValue, AndThen

LEMMA SIntCodes ==
  ASSUME NEW traps, NEW w, NEW v, Writable(v), v.kind = "Field", v.codec.kind = "SInt",
         WriteValue(traps, w, v).ok
  PROVE  Codes(traps, w, v, WriteValue(traps, w, v))
<1>1. PICK n \in Nat : n = v.codec.bits /\ n \in 1 .. U64Bits /\ n \in 0 .. U64Bits /\ n # 0
  <2>1. v.codec.bits \in 1 .. U64Bits /\ U64Bits \in Nat
    BY Widths DEF Writable, ValidField
  <2>2. QED
    BY ONLY <2>1
<1>2. WriteValue(traps, w, v) = WriteSInt(w, n, v.value)
  BY ONLY <1>1, v.kind = "Field", v.codec.kind = "SInt" DEF WriteValue, WriteField
<1>3. PICK raw : raw = AsU64(v.value) % 2 ^ n
  OBVIOUS
<1>4. v.value \in -(2 ^ (n - 1)) .. 2 ^ (n - 1) - 1 /\ WriteSInt(w, n, v.value) = WriteBits(w, raw, n)
  <2>1. WriteSInt(w, n, v.value).ok
    BY ONLY <1>2, WriteValue(traps, w, v).ok
  <2>2. QED
    BY ONLY <1>3, <2>1 DEF WriteSInt, AndThen, Checked, OutOfRange, Ok, Err, None
<1>5. /\ raw \in 0 .. 2 ^ n - 1
      /\ \/ SInt(traps, n, raw) = Ok(v.value)
         \/ traps /\ n = U64Bits - 1 /\ v.value < 0 /\ SInt(traps, n, raw) = Err("panic")
  BY ONLY <1>1, <1>3, <1>4, SIntBack
<1>6. raw \in 0 .. 2 ^ U64Bits - 1
  <2>1. 2 ^ n \in Nat \ {0} /\ 2 ^ U64Bits \in Nat \ {0} /\ 2 ^ n <= 2 ^ U64Bits
    <3>1. n \in Exponents /\ U64Bits \in Exponents
      BY <1>1, Powers, Widths
    <3>2. QED
      BY ONLY <1>1, <3>1, Powers, PowersGrow
  <2>2. QED
    BY ONLY <1>5, <2>1
<1>7. WriteBits(w, raw, n) = Write(w, Bits(raw, n))
  BY ONLY <1>1, <1>2, <1>4, <1>6, WriteValue(traps, w, v).ok, WriteBitsCodes
<1>8. Decodes(traps, v, raw, n)
  <2>1. ASSUME NEW data, NEW from, NEW back, back = ReadBits(ReaderAt(data, from), n)
        PROVE  ReadValue(traps, ReaderAt(data, from), v) =
                 IF back.ok THEN WithValue(back.val, SInt(traps, n, back.val.value)) ELSE back
    BY ONLY <1>1, <2>1, v.kind = "Field", v.codec.kind = "SInt" DEF ReadValue, ReadField, AndThen
  <2>2. ASSUME NEW data, NEW from, ~ReadBits(ReaderAt(data, from), n).ok
        PROVE  ~ReadValue(traps, ReaderAt(data, from), v).ok
    BY ONLY <2>1, <2>2
  <2>3. ASSUME NEW data, NEW from, NEW to, ReadBits(ReaderAt(data, from), n) = Gives(raw, data, to)
        PROVE  Returns(traps, v, ReadValue(traps, ReaderAt(data, from), v), data, to)
    <3>1. ReadValue(traps, ReaderAt(data, from), v) =
            WithValue([value |-> raw, reader |-> ReaderAt(data, to)], SInt(traps, n, raw))
      BY ONLY <2>1, <2>3 DEF Gives, Ok
    <3>2. CASE SInt(traps, n, raw) = Ok(v.value)
      <4>1. ReadValue(traps, ReaderAt(data, from), v) = Gives(v.value, data, to)
        BY ONLY <3>1, <3>2, WithValueIs DEF Gives
      <4>2. QED
        BY ONLY <4>1, v.kind = "Field" DEF Returns, ValueIn
    <3>3. CASE traps /\ n = U64Bits - 1 /\ v.value < 0 /\ SInt(traps, n, raw) = Err("panic")
      <4>1. ReadValue(traps, ReaderAt(data, from), v) = Err("panic")
        BY ONLY <3>1, <3>3, WithValueIs
      <4>2. Wide(v)
        BY ONLY <1>1, <3>3, v.kind = "Field", v.codec.kind = "SInt" DEF Wide
      <4>3. QED
        BY ONLY <3>3, <4>1, <4>2 DEF Returns
    <3>4. QED
      BY ONLY <1>5, <3>2, <3>3
  <2>4. QED
    BY ONLY <2>2, <2>3 DEF Decodes
<1>9. QED
  BY ONLY <1>1, <1>2, <1>4, <1>5, <1>7, <1>8 DEF Codes

LEMMA FixedBack ==
  ASSUME NEW traps \in BOOLEAN, NEW lo \in I64Min .. I64Max, NEW hi \in I64Min .. I64Max, NEW x \in lo .. hi,
         NEW d, d = x - lo, traps => hi - lo <= I64Max
  PROVE  /\ hi - lo \in 0 .. 2 ^ U64Bits - 1
         /\ d \in 0 .. 2 ^ U64Bits - 1 /\ d \in 0 .. hi - lo
         /\ I64(traps, lo + AsI64(d)) = Ok(x)
<1>1. PICK W \in Nat \ {0}, H \in Nat \ {0} : W = 2 ^ U64Bits /\ H = 2 ^ (U64Bits - 1) /\ W = 2 * H
  BY NumberWidths
<1>2. I64Min = -H /\ I64Max = H - 1
  BY <1>1 DEF I64Min, I64Max
<1>3. lo \in -H .. H - 1 /\ hi \in -H .. H - 1
  BY <1>2
<1>4. x \in -H .. H - 1
  BY ONLY <1>3, x \in lo .. hi, H \in Nat \ {0}
<1>5. x \in I64Min .. I64Max /\ x \in Int /\ lo \in Int /\ hi \in Int
  BY ONLY <1>2, <1>3, <1>4, H \in Nat \ {0}
<1>6. d \in Int /\ d \in 0 .. hi - lo /\ hi - lo \in 0 .. W - 1 /\ d \in 0 .. W - 1 /\ lo + d = x /\ lo + (d - W) = x - W
  BY ONLY <1>1, <1>3, <1>5, x \in lo .. hi, d = x - lo, H \in Nat \ {0}, W \in Nat \ {0}
<1>7. AsI64(d) = IF d <= I64Max THEN d ELSE d - W
  BY ONLY <1>1, <1>6, U64Back
<1>8. I64(traps, lo + AsI64(d)) = Ok(x)
  <2>1. CASE d <= I64Max
    <3>1. I64(traps, x) = Ok(x)
      BY ONLY <1>5, I64Is
    <3>2. lo + AsI64(d) = x
      BY ONLY <1>6, <1>7, <2>1
    <3>3. QED
      BY ONLY <3>1, <3>2
  <2>2. CASE ~(d <= I64Max)
    <3>1. ~traps
      <4>1. ~(hi - lo <= I64Max)
        BY ONLY <1>2, <1>3, <1>6, <2>2, H \in Nat \ {0}
      <4>2. QED
        BY ONLY <4>1, traps => hi - lo <= I64Max
    <3>2. lo + AsI64(d) = x - W
      BY ONLY <1>6, <1>7, <2>2
    <3>3. I64(traps, x - W) = Ok(AsI64(x - W))
      BY ONLY <3>1 DEF I64
    <3>4. AsI64(x - W) = x
      BY ONLY <1>1, <1>5, I64Wraps
    <3>5. QED
      BY ONLY <3>2, <3>3, <3>4
  <2>3. QED
    BY ONLY <2>1, <2>2
<1>9. QED
  BY ONLY <1>1, <1>6, <1>8

LEMMA I64Ok ==
  ASSUME NEW traps, NEW y \in Int, I64(traps, y).ok
  PROVE  I64(traps, y) = Ok(AsI64(y)) /\ (traps => y <= I64Max)
<1>1. I64(traps, y) = Ok(AsI64(y)) /\ ~(traps /\ y \notin I64Min .. I64Max)
  BY DEF I64, Err
<1>2. I64Min \in Int /\ I64Max \in Int
  BY NumberWidths DEF I64Min, I64Max
<1>3. QED
  BY ONLY <1>1, <1>2, y \in Int

LEMMA FixedCodes ==
  ASSUME NEW traps \in BOOLEAN, NEW w, NEW v, Writable(v), v.kind = "Field", v.codec.kind = "FixedPoint",
         WriteValue(traps, w, v).ok
  PROVE  Codes(traps, w, v, WriteValue(traps, w, v))
<1>0. PICK codec : codec = v.codec
  OBVIOUS
<1>1. PICK lo \in I64Min .. I64Max, hi \in I64Min .. I64Max, x \in Int :
        codec = v.codec /\ lo = codec.min /\ hi = codec.max /\ x = v.value /\ lo <= hi
  BY <1>0 DEF Writable, ValidField
<1>2. I64Min \in Int /\ I64Max \in Int /\ lo \in Int /\ hi \in Int
  BY NumberWidths DEF I64Min, I64Max
<1>3. WriteValue(traps, w, v) = WriteFixedPoint(traps, w, codec, x)
  BY ONLY <1>1, v.kind = "Field", v.codec.kind = "FixedPoint" DEF WriteValue, WriteField
<1>4. PICK d \in Int : d = x - lo
  BY <1>2
<1>5. /\ x \in lo .. hi /\ I64(traps, d).ok /\ FixedRange(traps, codec).ok
      /\ WriteFixedPoint(traps, w, codec, x) = WriteBits(w, AsU64(I64(traps, d).val), FixedRange(traps, codec).val)
  <2>1. PICK offset, bits : offset = I64(traps, d) /\ bits = FixedRange(traps, codec)
    OBVIOUS
  <2>2. WriteFixedPoint(traps, w, codec, x) =
          IF x \notin lo .. hi THEN Err("FixedPointOutOfRange")
          ELSE IF offset.ok THEN IF bits.ok THEN WriteBits(w, AsU64(offset.val), bits.val) ELSE bits ELSE offset
    BY ONLY <1>1, <1>4, <2>1 DEF WriteFixedPoint, AndThen
  <2>3. WriteFixedPoint(traps, w, codec, x).ok
    BY ONLY <1>3, WriteValue(traps, w, v).ok
  <2>4. x \in lo .. hi /\ offset.ok /\ bits.ok
    <3>1. x \in lo .. hi
      BY ONLY <2>2, <2>3 DEF Err
    <3>2. offset.ok
      BY ONLY <2>2, <2>3, <3>1
    <3>3. bits.ok
      BY ONLY <2>2, <2>3, <3>1, <3>2
    <3>4. QED
      BY ONLY <3>1, <3>2, <3>3
  <2>5. WriteFixedPoint(traps, w, codec, x) = WriteBits(w, AsU64(offset.val), bits.val)
    BY ONLY <2>2, <2>4
  <2>6. QED
    BY ONLY <2>1, <2>4, <2>5
<1>6. PICK range \in Int : range = hi - lo
  BY <1>2
<1>7. I64(traps, range).ok /\ FixedRange(traps, codec) = Ok(RequiredBits(AsU64(I64(traps, range).val)))
  <2>1. FixedRange(traps, codec) =
          IF I64(traps, range).ok THEN Ok(RequiredBits(AsU64(I64(traps, range).val))) ELSE I64(traps, range)
    BY ONLY <1>1, <1>6 DEF FixedRange, AndThen
  <2>2. QED
    BY ONLY <1>5, <2>1
<1>8. I64(traps, d).val = AsI64(d) /\ I64(traps, range).val = AsI64(range) /\ (traps => hi - lo <= I64Max)
  <2>1. I64(traps, d) = Ok(AsI64(d))
    BY ONLY <1>5, d \in Int, I64Ok
  <2>2. I64(traps, range) = Ok(AsI64(range)) /\ (traps => range <= I64Max)
    BY ONLY <1>7, range \in Int, I64Ok
  <2>3. QED
    BY ONLY <1>6, <2>1, <2>2 DEF Ok
<1>9. /\ range \in 0 .. 2 ^ U64Bits - 1
      /\ d \in 0 .. 2 ^ U64Bits - 1 /\ d \in 0 .. range
      /\ I64(traps, lo + AsI64(d)) = Ok(x)
  BY ONLY <1>4, <1>5, <1>6, <1>8, traps \in BOOLEAN, lo \in I64Min .. I64Max, hi \in I64Min .. I64Max, FixedBack
<1>10. AsU64(AsI64(d)) = d /\ AsU64(AsI64(range)) = range
  BY ONLY <1>9, U64Back
<1>11. PICK n \in Nat : n = RequiredBits(range) /\ n \in 0 .. U64Bits /\ range < 2 ^ n
  <2>1. U64Bits \in Nat
    BY Widths
  <2>2. RequiredBits(range) \in 0 .. U64Bits /\ range < 2 ^ RequiredBits(range)
    BY ONLY <1>9, RequiredBitsHold
  <2>3. QED
    BY ONLY <2>1, <2>2
<1>12. FixedRange(traps, codec) = Ok(n) /\ WriteValue(traps, w, v) = WriteBits(w, d, n)
  <2>1. FixedRange(traps, codec) = Ok(n)
    BY ONLY <1>7, <1>8, <1>10, <1>11
  <2>2. FixedRange(traps, codec).val = n
    BY ONLY <2>1 DEF Ok
  <2>3. QED
    BY ONLY <1>3, <1>5, <1>8, <1>10, <2>1, <2>2
<1>13. d \in 0 .. 2 ^ n - 1
  <2>1. PICK P \in Nat \ {0} : P = 2 ^ n
    BY <1>11, Powers
  <2>2. d <= range /\ range < P /\ d >= 0
    BY ONLY <1>9, <1>11, <2>1, range \in Int
  <2>3. d \in 0 .. P - 1
    BY ONLY <2>2, d \in Int, range \in Int, P \in Nat \ {0}
  <2>4. QED
    BY ONLY <2>1, <2>3
<1>14. n = 0 => d = 0
  <2>1. 2 ^ 0 = 1
    OBVIOUS
  <2>2. QED
    BY ONLY <1>13, <2>1, d \in Int
<1>15. WriteBits(w, d, n) = Write(w, Bits(d, n))
  BY ONLY <1>9, <1>12, <1>14, n \in Nat, WriteValue(traps, w, v).ok, WriteBitsCodes
<1>16. Decodes(traps, v, d, n)
  <2>1. ASSUME NEW data, NEW from, NEW back, back = ReadBits(ReaderAt(data, from), n)
        PROVE  ReadValue(traps, ReaderAt(data, from), v) =
                 IF ~back.ok THEN back
                 ELSE IF ~I64(traps, lo + AsI64(back.val.value)).ok THEN I64(traps, lo + AsI64(back.val.value))
                 ELSE Checked(OutOfRange(I64(traps, lo + AsI64(back.val.value)).val, lo, hi, "FixedPointOutOfRange"),
                              [back.val EXCEPT !.value = I64(traps, lo + AsI64(back.val.value)).val])
    <3>1. ReadValue(traps, ReaderAt(data, from), v) = ReadFixedPoint(traps, ReaderAt(data, from), codec)
      BY ONLY <1>1, v.kind = "Field", v.codec.kind = "FixedPoint" DEF ReadValue, ReadField
    <3>2. Ok(n).ok /\ Ok(n).val = n
      BY DEF Ok
    <3>3. QED
      BY ONLY <1>1, <1>12, <2>1, <3>1, <3>2 DEF ReadFixedPoint, AndThen
  <2>2. ASSUME NEW data, NEW from, ~ReadBits(ReaderAt(data, from), n).ok
        PROVE  ~ReadValue(traps, ReaderAt(data, from), v).ok
    <3>1. PICK back : back = ReadBits(ReaderAt(data, from), n)
      OBVIOUS
    <3>2. ReadValue(traps, ReaderAt(data, from), v) = back
      BY ONLY <2>1, <2>2, <3>1
    <3>3. QED
      BY ONLY <2>2, <3>1, <3>2
  <2>3. ASSUME NEW data, NEW from, NEW to, ReadBits(ReaderAt(data, from), n) = Gives(d, data, to)
        PROVE  Returns(traps, v, ReadValue(traps, ReaderAt(data, from), v), data, to)
    <3>1. PICK back : back = ReadBits(ReaderAt(data, from), n)
      OBVIOUS
    <3>2. back.ok /\ back.val = [value |-> d, reader |-> ReaderAt(data, to)] /\ back.val.value = d
      BY ONLY <2>3, <3>1 DEF Gives, Ok
    <3>3. I64(traps, lo + AsI64(back.val.value)) = Ok(x) /\ Ok(x).ok /\ Ok(x).val = x
      BY ONLY <1>9, <3>2 DEF Ok
    <3>4. OutOfRange(x, lo, hi, "FixedPointOutOfRange") = None
      BY ONLY <1>5 DEF OutOfRange
    <3>5. [back.val EXCEPT !.value = x] = [value |-> x, reader |-> ReaderAt(data, to)]
      BY ONLY <3>2
    <3>6. ReadValue(traps, ReaderAt(data, from), v) = Checked(None, [value |-> x, reader |-> ReaderAt(data, to)])
      BY ONLY <2>1, <3>1, <3>2, <3>3, <3>4, <3>5
    <3>7. ReadValue(traps, ReaderAt(data, from), v) = Gives(v.value, data, to)
      BY ONLY <1>1, <3>6 DEF Checked, Gives
    <3>8. QED
      BY ONLY <3>7, v.kind = "Field" DEF Returns, ValueIn
  <2>4. QED
    BY ONLY <2>2, <2>3 DEF Decodes
<1>17. QED
  BY ONLY <1>11, <1>12, <1>13, <1>15, <1>16 DEF Codes

-----------------------------------------------------------------------------
(* A value that was written from one position to another reads back there. *)
Follows(w, u) == w.pos <= u.pos /\ \A i \in 1 .. w.pos : u.buf[i] = w.buf[i]
Shares(data, buf, from, to) == \A i \in from + 1 .. to : i <= Len(data) => data[i] = buf[i]

Outcome(traps, v, back, data, to) ==
  IF to <= Len(data) THEN Returns(traps, v, back, data, to) ELSE ~back.ok

ReadsBack(traps, v, buf, from, to) ==
  \A data \in Seq(Bit) :
    WholeBytes(data) /\ from <= Len(data) /\ Shares(data, buf, from, to)
      => Outcome(traps, v, ReadValue(traps, ReaderAt(data, from), v), data, to)

ReadsOn(traps, w, v, u) ==
  IsWriter(u) /\ Follows(w, u) /\ ReadsBack(traps, v, u.buf, w.pos, u.pos)

LEMMA WriteLeaves ==
  ASSUME NEW w, IsWriter(w), NEW bits \in Seq(Bit), Write(w, bits).ok, NEW u, u = Write(w, bits).val
  PROVE  /\ w.pos \in Nat /\ IsWriter(u) /\ u.pos \in Nat /\ Follows(w, u) /\ u.pos = w.pos + Len(bits)
         /\ \A data : Shares(data, u.buf, w.pos, u.pos) => Agrees(data, w.pos, bits)
<1>1. PICK p \in Nat : p = w.pos
  BY DEF IsWriter
<1>2. PICK n \in Nat : n = Len(bits)
  OBVIOUS
<1>3. /\ IsWriter(u) /\ u.pos = p + n
      /\ \A i \in 1 .. p + n : u.buf[i] = IF i <= p THEN w.buf[i] ELSE bits[i - p]
  BY <1>1, <1>2, WriteContents DEF Wrote
<1>4. Follows(w, u)
  <2>1. ASSUME NEW i \in 1 .. p PROVE u.buf[i] = w.buf[i]
    <3>1. i \in 1 .. p + n /\ i <= p
      BY ONLY i \in 1 .. p, p \in Nat, n \in Nat
    <3>2. QED
      BY ONLY <1>3, <3>1
  <2>2. p <= p + n
    BY ONLY p \in Nat, n \in Nat
  <2>3. QED
    BY ONLY <1>1, <1>3, <2>1, <2>2 DEF Follows
<1>5. ASSUME NEW data, Shares(data, u.buf, p, p + n)
      PROVE  Agrees(data, p, bits)
  <2>1. ASSUME NEW i \in 1 .. n, p + i <= Len(data)
        PROVE  data[p + i] = bits[i]
    <3>1. p + i \in p + 1 .. p + n /\ p + i \in 1 .. p + n /\ ~(p + i <= p) /\ (p + i) - p = i
      BY ONLY i \in 1 .. n, p \in Nat, n \in Nat
    <3>2. data[p + i] = u.buf[p + i]
      BY ONLY <1>5, <2>1, <3>1 DEF Shares
    <3>3. u.buf[p + i] = bits[(p + i) - p]
      BY ONLY <1>3, <3>1
    <3>4. QED
      BY ONLY <3>1, <3>2, <3>3
  <2>2. QED
    BY ONLY <1>2, <2>1 DEF Agrees
<1>6. u.pos \in Nat
  BY ONLY <1>3, p \in Nat, n \in Nat
<1>7. QED
  BY ONLY <1>1, <1>2, <1>3, <1>4, <1>5, <1>6

LEMMA CodesBack ==
  ASSUME NEW traps, NEW w, IsWriter(w), NEW v, NEW result, Codes(traps, w, v, result), result.ok
  PROVE  ReadsOn(traps, w, v, result.val)
<1>1. PICK n \in 0 .. U64Bits : \E raw \in 0 .. 2 ^ n - 1 :
        result = Write(w, Bits(raw, n)) /\ Decodes(traps, v, raw, n)
  BY DEF Codes
<1>2. PICK raw \in 0 .. 2 ^ n - 1 : result = Write(w, Bits(raw, n)) /\ Decodes(traps, v, raw, n)
  BY <1>1
<1>3. Bits(raw, n) \in Seq(Bit) /\ Len(Bits(raw, n)) = n
  <2>1. n \in Exponents
    BY Powers
  <2>2. raw \in Int
    <3>1. 2 ^ n \in Nat \ {0}
      BY ONLY <2>1, Powers
    <3>2. QED
      BY ONLY <3>1, raw \in 0 .. 2 ^ n - 1
  <2>3. QED
    BY ONLY <2>1, <2>2, BitsAre
<1>0. PICK p \in Nat : p = w.pos
  BY DEF IsWriter
<1>4. PICK u : u = result.val /\ p = w.pos /\ IsWriter(u) /\ Follows(w, u) /\ u.pos = p + n
                /\ \A data : Shares(data, u.buf, p, u.pos) => Agrees(data, p, Bits(raw, n))
  <2>1. PICK u : u = result.val
    OBVIOUS
  <2>2. /\ w.pos \in Nat /\ IsWriter(u) /\ Follows(w, u) /\ u.pos = w.pos + Len(Bits(raw, n))
        /\ \A data : Shares(data, u.buf, w.pos, u.pos) => Agrees(data, w.pos, Bits(raw, n))
    BY ONLY <1>2, <1>3, <2>1, IsWriter(w), result.ok, WriteLeaves
  <2>3. QED
    BY ONLY <1>0, <1>3, <2>1, <2>2
<1>5. ASSUME NEW data \in Seq(Bit), Shares(data, u.buf, p, u.pos)
      PROVE  Outcome(traps, v, ReadValue(traps, ReaderAt(data, p), v), data, u.pos)
  <2>1. Agrees(data, p, Bits(raw, n))
    BY ONLY <1>4, <1>5
  <2>2. IF p + n <= Len(data) THEN ReadBits(ReaderAt(data, p), n) = Gives(raw, data, p + n)
        ELSE ~ReadBits(ReaderAt(data, p), n).ok
    BY ONLY <2>1, data \in Seq(Bit), p \in Nat, n \in 0 .. U64Bits, raw \in 0 .. 2 ^ n - 1, BitsBack
  <2>3. QED
    BY ONLY <1>2, <1>4, <2>2 DEF Outcome, Decodes
<1>6. QED
  BY ONLY <1>4, <1>5 DEF ReadsOn, ReadsBack

LEMMA AlignBack ==
  ASSUME NEW traps, NEW w, IsWriter(w), NEW v, v.kind = "Align", AlignToByte(w).ok
  PROVE  /\ ReadsOn(traps, w, v, AlignToByte(w).val)
         /\ AlignToByte(w).val.pos = RoundUp(w.pos)
<1>1. PICK p \in Nat : p = w.pos
  BY DEF IsWriter
<1>2. PICK n \in Nat : n = Padding(p) /\ p + n = RoundUp(p)
  <2>1. RoundUp(p) \in Nat /\ p <= RoundUp(p)
    BY RoundUpIs
  <2>2. RoundUp(p) - p \in Nat /\ p + (RoundUp(p) - p) = RoundUp(p)
    BY ONLY <2>1, p \in Nat
  <2>3. QED
    BY ONLY <2>2 DEF Padding
<1>3. AlignToByte(w) = Write(w, Zeros(n)) /\ Zeros(n) \in Seq(Bit) /\ Len(Zeros(n)) = n
  BY <1>1, <1>2, ZerosAre DEF AlignToByte
<1>4. PICK u : u = AlignToByte(w).val /\ IsWriter(u) /\ Follows(w, u) /\ u.pos = RoundUp(p)
  <2>1. PICK u : u = AlignToByte(w).val
    OBVIOUS
  <2>2. IsWriter(u) /\ Follows(w, u) /\ u.pos = w.pos + Len(Zeros(n))
    BY ONLY <1>3, <2>1, IsWriter(w), AlignToByte(w).ok, WriteLeaves
  <2>3. QED
    BY ONLY <1>1, <1>2, <1>3, <2>1, <2>2
<1>5. ASSUME NEW data \in Seq(Bit), WholeBytes(data), p <= Len(data)
      PROVE  Outcome(traps, v, ReadValue(traps, ReaderAt(data, p), v), data, RoundUp(p))
  <2>1. RoundUp(p) <= Len(data) /\ SkipToByte(ReaderAt(data, p)) = Gives(0, data, RoundUp(p))
    BY ONLY <1>5, p \in Nat, SkipBack
  <2>2. ReadValue(traps, ReaderAt(data, p), v) = SkipToByte(ReaderAt(data, p))
    BY ONLY v.kind = "Align" DEF ReadValue
  <2>3. ValueIn(v) = 0
    BY ONLY v.kind = "Align" DEF ValueIn
  <2>4. QED
    BY ONLY <2>1, <2>2, <2>3 DEF Outcome, Returns
<1>6. QED
  BY ONLY <1>1, <1>4, <1>5 DEF ReadsOn, ReadsBack

LEMMA AlignedWrite ==
  ASSUME NEW w, IsWriter(w), NEW bytes, WriteAligned(w, bytes).ok
  PROVE  WriteAligned(w, bytes) = Write(w, bytes) /\ \E offset \in Nat : w.pos = ByteBits * offset
<1>1. PICK p \in Nat : p = w.pos
  BY DEF IsWriter
<1>2. Misaligned(p) = None /\ WriteAligned(w, bytes) = Write(w, bytes)
  BY <1>1 DEF WriteAligned, Err
<1>3. p % ByteBits = 0
  BY ONLY <1>2 DEF Misaligned, None
<1>4. ByteBits \in Nat \ {0}
  <2>1. ByteBits \in Nat /\ ByteBits >= 2
    BY Widths
  <2>2. QED
    BY ONLY <2>1
<1>5. PICK q \in Int : p = ByteBits * q
  <2>1. p \in Int
    OBVIOUS
  <2>2. PICK q \in Int, r \in 0 .. ByteBits - 1 : q = p \div ByteBits /\ r = p % ByteBits /\ p = ByteBits * q + r
    BY <1>4, <2>1, Division
  <2>3. PICK z \in Int : z = ByteBits * q
    BY <1>4
  <2>4. p = z
    <3>1. r = 0
      BY ONLY <1>3, <2>2
    <3>2. p = z + r
      BY ONLY <2>2, <2>3
    <3>3. QED
      BY ONLY <3>1, <3>2, z \in Int
  <2>5. QED
    BY ONLY <2>3, <2>4
<1>6. q \in Nat
  <2>1. CASE q < 0
    <3>1. q <= -1 /\ -1 \in Int
      BY ONLY <2>1, q \in Int
    <3>2. ByteBits * q <= ByteBits * (-1)
      BY ONLY <1>4, <3>1, q \in Int, ProductGrows
    <3>3. ByteBits * (-1) = -ByteBits
      BY ONLY <1>4
    <3>4. p <= -ByteBits
      BY ONLY <1>5, <3>2, <3>3
    <3>5. QED
      BY ONLY <1>4, <3>4, p \in Nat
  <2>2. QED
    BY ONLY <2>1, q \in Int
<1>7. QED
  BY ONLY <1>1, <1>2, <1>5, <1>6

(* What is read of bytes on a byte boundary. *)
ReadsBytes(traps, v, bytes) ==
  \A data \in Seq(Bit), offset \in Nat :
    WholeBytes(data) /\ Agrees(data, ByteBits * offset, bytes)
      => IF ByteBits * offset + Len(bytes) <= Len(data)
         THEN ReadValue(traps, ReaderAt(data, ByteBits * offset), v)
                = Gives(v.value, data, ByteBits * offset + Len(bytes))
         ELSE ~ReadValue(traps, ReaderAt(data, ByteBits * offset), v).ok

LEMMA BytesBack ==
  ASSUME NEW traps, NEW w, IsWriter(w), NEW v, v.kind # "Align", NEW bytes \in Seq(Bit),
         WriteAligned(w, bytes).ok, ReadsBytes(traps, v, bytes)
  PROVE  ReadsOn(traps, w, v, WriteAligned(w, bytes).val)
<1>1. WriteAligned(w, bytes) = Write(w, bytes)
  BY AlignedWrite
<1>2. PICK offset \in Nat : w.pos = ByteBits * offset
  BY AlignedWrite
<1>3. PICK u : u = WriteAligned(w, bytes).val
  OBVIOUS
<1>4. PICK p \in Nat : p = w.pos
  BY DEF IsWriter
<1>5. /\ IsWriter(u) /\ Follows(w, u) /\ u.pos = p + Len(bytes)
      /\ \A data : Shares(data, u.buf, p, u.pos) => Agrees(data, p, bytes)
  <2>1. Write(w, bytes).ok /\ u = Write(w, bytes).val
    BY ONLY <1>1, <1>3, WriteAligned(w, bytes).ok
  <2>2. QED
    BY ONLY <1>4, <2>1, IsWriter(w), bytes \in Seq(Bit), WriteLeaves
<1>6. ASSUME NEW data \in Seq(Bit), WholeBytes(data), Shares(data, u.buf, p, u.pos)
      PROVE  Outcome(traps, v, ReadValue(traps, ReaderAt(data, p), v), data, u.pos)
  <2>1. Agrees(data, ByteBits * offset, bytes)
    BY ONLY <1>2, <1>4, <1>5, <1>6
  <2>2. IF ByteBits * offset + Len(bytes) <= Len(data)
        THEN ReadValue(traps, ReaderAt(data, ByteBits * offset), v)
               = Gives(v.value, data, ByteBits * offset + Len(bytes))
        ELSE ~ReadValue(traps, ReaderAt(data, ByteBits * offset), v).ok
    BY ONLY <1>6, <2>1, data \in Seq(Bit), offset \in Nat, ReadsBytes(traps, v, bytes) DEF ReadsBytes
  <2>3. ByteBits * offset = p
    BY ONLY <1>2, <1>4
  <2>4. IF p + Len(bytes) <= Len(data)
        THEN ReadValue(traps, ReaderAt(data, p), v) = Gives(v.value, data, p + Len(bytes))
        ELSE ~ReadValue(traps, ReaderAt(data, p), v).ok
    BY ONLY <2>2, <2>3
  <2>5. ValueIn(v) = v.value
    BY ONLY v.kind # "Align" DEF ValueIn
  <2>6. QED
    BY ONLY <1>5, <2>4, <2>5 DEF Outcome, Returns
<1>7. QED
  BY ONLY <1>3, <1>4, <1>5, <1>6 DEF ReadsOn, ReadsBack

LEMMA IdBack ==
  ASSUME NEW traps, NEW w, IsWriter(w), NEW v, Writable(v), v.kind = "Id", WriteValue(traps, w, v).ok
  PROVE  ReadsOn(traps, w, v, WriteValue(traps, w, v).val)
<1>1. v.value \in 0 .. 2 ^ (ByteBits * U32Bytes) - 1 /\ v.value \in Int
  BY NumberWidths DEF Writable, U32Bits
<1>2. U32Bytes \in 0 .. U64Bytes
  BY WidthAssumption
<1>3. PICK bytes \in Seq(Bit) :
        bytes = LittleEndian(v.value, U32Bytes) /\ Len(bytes) = ByteBits * U32Bytes
        /\ HasBytes(bytes, 0, v.value, U32Bytes)
  BY ONLY <1>1, <1>2, BytesOf
<1>4. WriteValue(traps, w, v) = WriteAligned(w, bytes)
  BY ONLY <1>3, v.kind = "Id" DEF WriteValue
<1>5. ReadsBytes(traps, v, bytes)
  <2>1. \A r : ReadValue(traps, r, v) = ReadAligned(r, U32Bytes)
    BY ONLY v.kind = "Id" DEF ReadValue
  <2>2. ASSUME NEW data \in Seq(Bit), NEW offset \in Nat, Agrees(data, ByteBits * offset, bytes)
        PROVE  IF ByteBits * offset + ByteBits * U32Bytes <= Len(data)
               THEN ReadAligned(ReaderAt(data, ByteBits * offset), U32Bytes)
                      = Gives(v.value, data, ByteBits * offset + ByteBits * U32Bytes)
               ELSE ~ReadAligned(ReaderAt(data, ByteBits * offset), U32Bytes).ok
    BY ONLY <1>1, <1>2, <1>3, <2>2, AlignedBack
  <2>3. QED
    BY ONLY <1>3, <2>1, <2>2 DEF ReadsBytes
<1>6. QED
  BY ONLY <1>4, <1>5, v.kind = "Id", IsWriter(w), WriteValue(traps, w, v).ok, BytesBack

LEMMA ByteBack ==
  ASSUME NEW traps, NEW w, IsWriter(w), NEW v, Writable(v), v.kind = "Byte", WriteValue(traps, w, v).ok
  PROVE  ReadsOn(traps, w, v, WriteValue(traps, w, v).val)
<1>1. ByteBits \in Nat /\ ByteBits * 1 = ByteBits /\ ByteBits * 0 = 0 /\ ByteBits \in Exponents
  BY Widths, Shifts
<1>2. 2 ^ ByteBits \in Nat \ {0}
  BY <1>1, Powers
<1>3. v.value \in 0 .. 2 ^ ByteBits - 1 /\ v.value \in Int
  BY <1>2 DEF Writable
<1>4. 1 \in 0 .. U64Bytes
  BY WidthAssumption
<1>5. PICK bytes \in Seq(Bit) : bytes = Bits(v.value, ByteBits) /\ Len(bytes) = ByteBits
  BY ONLY <1>1, <1>3, BitsAre
<1>6. HasBytes(bytes, 0, v.value, 1)
  <2>1. 2 ^ 0 = 1 /\ v.value \div 1 = v.value
    BY ONLY <1>3
  <2>2. ASSUME NEW j \in 0 .. 1 - 1 PROVE HasByte(bytes, 0 + j, Bits(v.value \div 2 ^ (ByteBits * j), ByteBits))
    <3>1. j = 0 /\ 0 + j = 0
      OBVIOUS
    <3>2. Bits(v.value \div 2 ^ (ByteBits * j), ByteBits) = bytes
      BY ONLY <1>1, <1>5, <2>1, <3>1
    <3>3. ASSUME NEW i \in 1 .. ByteBits PROVE bytes[ByteBits * 0 + i] = bytes[i]
      <4>1. ByteBits * 0 + i = i
        BY ONLY <1>1, i \in 1 .. ByteBits
      <4>2. QED
        BY ONLY <4>1
    <3>4. HasByte(bytes, 0, bytes)
      BY ONLY <3>3 DEF HasByte
    <3>5. QED
      BY ONLY <3>1, <3>2, <3>4
  <2>3. QED
    BY ONLY <2>2 DEF HasBytes
<1>7. WriteValue(traps, w, v) = WriteAligned(w, bytes)
  BY ONLY <1>5, v.kind = "Byte" DEF WriteValue
<1>8. ReadsBytes(traps, v, bytes)
  <2>1. \A r : ReadValue(traps, r, v) = ReadAligned(r, 1)
    BY ONLY v.kind = "Byte" DEF ReadValue
  <2>2. Len(bytes) = ByteBits * 1 /\ v.value \in 0 .. 2 ^ (ByteBits * 1) - 1
    BY ONLY <1>1, <1>3, <1>5
  <2>3. ASSUME NEW data \in Seq(Bit), NEW offset \in Nat, Agrees(data, ByteBits * offset, bytes)
        PROVE  IF ByteBits * offset + ByteBits * 1 <= Len(data)
               THEN ReadAligned(ReaderAt(data, ByteBits * offset), 1)
                      = Gives(v.value, data, ByteBits * offset + ByteBits * 1)
               ELSE ~ReadAligned(ReaderAt(data, ByteBits * offset), 1).ok
    BY ONLY <1>4, <1>6, <2>2, <2>3, bytes \in Seq(Bit), AlignedBack
  <2>4. QED
    BY ONLY <2>1, <2>2, <2>3 DEF ReadsBytes
<1>9. QED
  BY ONLY <1>7, <1>8, v.kind = "Byte", IsWriter(w), WriteValue(traps, w, v).ok, BytesBack

LEMMA CountBack ==
  ASSUME NEW traps, NEW w, IsWriter(w), NEW v, v.kind = "Count", v.value \in 0 .. 2 ^ U32Bits - 1,
         WriteVaru32(w, v.value).ok
  PROVE  ReadsOn(traps, w, v, WriteVaru32(w, v.value).val)
<1>1. PICK bytes \in Seq(Bit) : bytes = Varint(v.value)
  BY VarintTyped
<1>2. WriteVaru32(w, v.value) = WriteAligned(w, bytes)
  BY ONLY <1>1 DEF WriteVaru32
<1>3. ReadsBytes(traps, v, bytes)
  <2>1. \A r : ReadValue(traps, r, v) = ReadVaru32(r)
    BY ONLY v.kind = "Count" DEF ReadValue
  <2>2. ASSUME NEW data \in Seq(Bit), NEW offset \in Nat, WholeBytes(data), Agrees(data, ByteBits * offset, bytes)
        PROVE  IF ByteBits * offset + Len(bytes) <= Len(data)
               THEN ReadVaru32(ReaderAt(data, ByteBits * offset))
                      = Gives(v.value, data, ByteBits * offset + Len(bytes))
               ELSE ~ReadVaru32(ReaderAt(data, ByteBits * offset)).ok
    BY ONLY <1>1, <2>2, v.value \in 0 .. 2 ^ U32Bits - 1, VarintBack
  <2>3. QED
    BY ONLY <2>1, <2>2 DEF ReadsBytes
<1>4. QED
  BY ONLY <1>2, <1>3, v.kind = "Count", IsWriter(w), WriteVaru32(w, v.value).ok, BytesBack

LEMMA FollowsOn ==
  ASSUME NEW w, NEW u, NEW x, w.pos \in Nat, u.pos \in Nat, x.pos \in Nat, Follows(w, u), Follows(u, x)
  PROVE  Follows(w, x)
<1>1. PICK p \in Nat, q \in Nat, r \in Nat : p = w.pos /\ q = u.pos /\ r = x.pos
  OBVIOUS
<1>2. p <= q /\ q <= r
  BY ONLY <1>1, Follows(w, u), Follows(u, x) DEF Follows
<1>3. ASSUME NEW i \in 1 .. p PROVE x.buf[i] = w.buf[i]
  <2>1. i \in 1 .. q
    BY ONLY <1>2, i \in 1 .. p, p \in Nat, q \in Nat
  <2>2. u.buf[i] = w.buf[i] /\ x.buf[i] = u.buf[i]
    BY ONLY <1>1, <2>1, i \in 1 .. p, Follows(w, u), Follows(u, x) DEF Follows
  <2>3. QED
    BY ONLY <2>2
<1>4. QED
  BY ONLY <1>1, <1>2, <1>3 DEF Follows

LEMMA UnzigzagIs ==
  ASSUME NEW x \in Int
  PROVE  Unzigzag(Zigzag(x)) = x
<1>1. CASE x >= 0
  <2>1. (2 * x + 0) \div 2 = x /\ (2 * x + 0) % 2 = 0
    BY ONLY x \in Int, 2 \in Nat \ {0}, 0 \in 0 .. 2 - 1, DivisionIs
  <2>2. Zigzag(x) = 2 * x + 0
    BY ONLY <1>1, x \in Int DEF Zigzag
  <2>3. QED
    BY ONLY <2>1, <2>2 DEF Unzigzag
<1>2. CASE ~(x >= 0)
  <2>1. PICK y \in Int : y = -x - 1 /\ -y - 1 = x
    BY ONLY x \in Int
  <2>2. (2 * y + 1) \div 2 = y /\ (2 * y + 1) % 2 = 1
    BY ONLY y \in Int, 2 \in Nat \ {0}, 1 \in 0 .. 2 - 1, DivisionIs
  <2>3. Zigzag(x) = 2 * y + 1
    BY ONLY <1>2, <2>1, x \in Int DEF Zigzag
  <2>4. Unzigzag(2 * y + 1) = -y - 1
    BY ONLY <2>2 DEF Unzigzag
  <2>5. QED
    BY ONLY <2>1, <2>3, <2>4
<1>3. QED
  BY ONLY <1>1, <1>2

LEMMA VarUIntWrites ==
  ASSUME NEW traps, NEW w, NEW v, Writable(v), v.kind = "Field", v.codec.kind \in {"VarUInt", "VarSInt"},
         WriteValue(traps, w, v).ok
  PROVE  \E n \in 0 .. 2 ^ U32Bits - 1 :
           /\ n = IF v.codec.kind = "VarUInt" THEN v.value ELSE Zigzag(v.value)
           /\ AlignToByte(w).ok /\ WriteValue(traps, w, v) = WriteVaru32(AlignToByte(w).val, n)
<1>1. PICK aligned : aligned = AlignToByte(w)
  OBVIOUS
<1>2. WriteValue(traps, w, v) = WriteField(traps, w, v.codec, v.value)
  BY ONLY v.kind = "Field" DEF WriteValue
<1>3. CASE v.codec.kind = "VarUInt"
  <2>1. WriteField(traps, w, v.codec, v.value) =
          IF v.value \in 0 .. 2 ^ U32Bits - 1
          THEN IF aligned.ok THEN WriteVaru32(aligned.val, v.value) ELSE aligned
          ELSE Err("VarUIntOutOfRange")
    BY ONLY <1>1, <1>3 DEF WriteField, AndThen, Checked, OutOfRange, Ok, Err, None
  <2>2. v.value \in 0 .. 2 ^ U32Bits - 1
    BY ONLY <1>2, <2>1, WriteValue(traps, w, v).ok DEF Err
  <2>3. aligned.ok
    BY ONLY <1>2, <2>1, <2>2, WriteValue(traps, w, v).ok
  <2>4. QED
    BY ONLY <1>1, <1>2, <1>3, <2>1, <2>2, <2>3
<1>4. CASE v.codec.kind = "VarSInt"
  <2>1. WriteField(traps, w, v.codec, v.value) =
          IF v.value \in -(2 ^ (U32Bits - 1)) .. 2 ^ (U32Bits - 1) - 1
          THEN IF aligned.ok THEN WriteVaru32(aligned.val, Zigzag(v.value)) ELSE aligned
          ELSE Err("VarSIntOutOfRange")
    BY ONLY <1>1, <1>4 DEF WriteField, WriteVars32, AndThen, Checked, OutOfRange, Ok, Err, None
  <2>2. v.value \in -(2 ^ (U32Bits - 1)) .. 2 ^ (U32Bits - 1) - 1
    BY ONLY <1>2, <2>1, WriteValue(traps, w, v).ok DEF Err
  <2>3. aligned.ok
    BY ONLY <1>2, <2>1, <2>2, WriteValue(traps, w, v).ok
  <2>4. Zigzag(v.value) \in 0 .. 2 ^ U32Bits - 1
    BY ONLY <2>2, ZigzagIs
  <2>5. QED
    BY ONLY <1>1, <1>2, <1>4, <2>1, <2>2, <2>3, <2>4
<1>5. QED
  BY ONLY <1>3, <1>4, v.codec.kind \in {"VarUInt", "VarSInt"}

LEMMA VarUIntBack ==
  ASSUME NEW traps, NEW w, IsWriter(w), NEW v, Writable(v), v.kind = "Field",
         v.codec.kind \in {"VarUInt", "VarSInt"}, WriteValue(traps, w, v).ok
  PROVE  ReadsOn(traps, w, v, WriteValue(traps, w, v).val)
<1>1. PICK n \in 0 .. 2 ^ U32Bits - 1 :
        /\ n = IF v.codec.kind = "VarUInt" THEN v.value ELSE Zigzag(v.value)
        /\ AlignToByte(w).ok /\ WriteValue(traps, w, v) = WriteVaru32(AlignToByte(w).val, n)
  BY VarUIntWrites
<1>2. v.value \in Int
  BY DEF Writable
<1>3. PICK x : x = AlignToByte(w).val
  OBVIOUS
<1>4. PICK p \in Nat : p = w.pos
  BY DEF IsWriter
<1>5. IsWriter(x) /\ Follows(w, x) /\ x.pos = RoundUp(p) /\ x.pos \in Nat
  <2>1. PICK a : a.kind = "Align"
    <3>1. [kind |-> "Align"].kind = "Align"
      OBVIOUS
    <3>2. QED
      BY ONLY <3>1
  <2>2. ReadsOn(traps, w, a, x) /\ x.pos = RoundUp(w.pos)
    BY ONLY <1>1, <1>3, <2>1, IsWriter(w), AlignBack
  <2>3. IsWriter(x) => x.pos \in Nat
    BY DEF IsWriter
  <2>4. QED
    BY ONLY <1>4, <2>2, <2>3 DEF ReadsOn
<1>6. PICK c : c.kind = "Count" /\ c.value = n
  <2>1. [kind |-> "Count", value |-> n].kind = "Count" /\ [kind |-> "Count", value |-> n].value = n
    OBVIOUS
  <2>2. QED
    BY ONLY <2>1
<1>7. PICK u : u = WriteValue(traps, w, v).val
  OBVIOUS
<1>8. ReadsOn(traps, x, c, u)
  <2>1. WriteVaru32(x, c.value).ok /\ u = WriteVaru32(x, c.value).val
    BY ONLY <1>1, <1>3, <1>6, <1>7, WriteValue(traps, w, v).ok
  <2>2. QED
    BY ONLY <1>1, <1>5, <1>6, <2>1, CountBack
<1>9. IsWriter(u) /\ Follows(x, u) /\ ReadsBack(traps, c, u.buf, x.pos, u.pos)
  BY ONLY <1>8 DEF ReadsOn
<1>10. Follows(w, u)
  <2>1. u.pos \in Nat
    BY ONLY <1>9 DEF IsWriter
  <2>2. QED
    BY ONLY <1>4, <1>5, <1>9, <2>1, FollowsOn
<1>11. ASSUME NEW data \in Seq(Bit), WholeBytes(data), p <= Len(data), Shares(data, u.buf, p, u.pos)
       PROVE  Outcome(traps, v, ReadValue(traps, ReaderAt(data, p), v), data, u.pos)
  <2>1. PICK q \in Nat : q = x.pos /\ p <= q /\ q <= Len(data) /\ SkipToByte(ReaderAt(data, p)) = Gives(0, data, q)
    <3>1. RoundUp(p) \in Nat /\ RoundUp(p) <= Len(data) /\ SkipToByte(ReaderAt(data, p)) = Gives(0, data, RoundUp(p))
      BY ONLY <1>11, p \in Nat, SkipBack
    <3>2. p <= RoundUp(p)
      BY RoundUpIs
    <3>3. QED
      BY ONLY <1>5, <3>1, <3>2
  <2>2. Shares(data, u.buf, q, u.pos)
    <3>1. ASSUME NEW i \in q + 1 .. u.pos PROVE i \in p + 1 .. u.pos
      <4>1. u.pos \in Nat
        BY ONLY <1>9 DEF IsWriter
      <4>2. QED
        BY ONLY <2>1, <4>1, i \in q + 1 .. u.pos, p \in Nat, q \in Nat
    <3>2. QED
      BY ONLY <1>11, <3>1 DEF Shares
  <2>3. Outcome(traps, c, ReadVaru32(ReaderAt(data, q)), data, u.pos)
    <3>1. Outcome(traps, c, ReadValue(traps, ReaderAt(data, q), c), data, u.pos)
      BY ONLY <1>9, <1>11, <2>1, <2>2, data \in Seq(Bit) DEF ReadsBack
    <3>2. ReadValue(traps, ReaderAt(data, q), c) = ReadVaru32(ReaderAt(data, q))
      BY ONLY <1>6 DEF ReadValue
    <3>3. QED
      BY ONLY <3>1, <3>2
  <2>4. ~Wide(c) /\ ValueIn(c) = n
    BY ONLY <1>6 DEF Wide, ValueIn
  <2>5. PICK back : back = ReadVaru32(ReaderAt(data, q))
    OBVIOUS
  <2>6. IF u.pos <= Len(data) THEN back = Gives(n, data, u.pos) ELSE ~back.ok
    BY ONLY <2>3, <2>4, <2>5 DEF Outcome, Returns
  <2>7. ReadValue(traps, ReaderAt(data, p), v) =
          IF v.codec.kind = "VarUInt" THEN back
          ELSE IF back.ok THEN Ok([back.val EXCEPT !.value = Unzigzag(back.val.value)]) ELSE back
    <3>1. Gives(0, data, q).ok /\ Gives(0, data, q).val.reader = ReaderAt(data, q)
      BY DEF Gives, Ok
    <3>2. CASE v.codec.kind = "VarUInt"
      BY ONLY <2>1, <2>5, <3>1, <3>2, v.kind = "Field" DEF ReadValue, ReadField, AndThen
    <3>3. CASE v.codec.kind = "VarSInt"
      <4>1. ReadValue(traps, ReaderAt(data, p), v) = ReadVars32(ReaderAt(data, q))
        BY ONLY <2>1, <3>1, <3>3, v.kind = "Field" DEF ReadValue, ReadField, AndThen
      <4>2. QED
        BY ONLY <2>5, <3>3, <4>1 DEF ReadVars32, AndThen
    <3>4. QED
      BY ONLY <3>2, <3>3, v.codec.kind \in {"VarUInt", "VarSInt"}
  <2>8. ValueIn(v) = v.value
    BY ONLY v.kind = "Field" DEF ValueIn
  <2>9. CASE ~(u.pos <= Len(data))
    <3>1. ~ReadValue(traps, ReaderAt(data, p), v).ok
      BY ONLY <2>6, <2>7, <2>9
    <3>2. QED
      BY ONLY <2>9, <3>1 DEF Outcome
  <2>10. CASE u.pos <= Len(data)
    <3>1. back.ok /\ back.val = [value |-> n, reader |-> ReaderAt(data, u.pos)] /\ back.val.value = n
      BY ONLY <2>6, <2>10 DEF Gives, Ok
    <3>2. ReadValue(traps, ReaderAt(data, p), v) = Gives(v.value, data, u.pos)
      <4>1. CASE v.codec.kind = "VarUInt"
        BY ONLY <1>1, <2>6, <2>7, <2>10, <4>1
      <4>2. CASE v.codec.kind # "VarUInt"
        <5>1. Unzigzag(n) = v.value
          BY ONLY <1>1, <1>2, <4>2, UnzigzagIs
        <5>2. [back.val EXCEPT !.value = v.value] = [value |-> v.value, reader |-> ReaderAt(data, u.pos)]
          BY ONLY <3>1
        <5>3. QED
          BY ONLY <2>7, <3>1, <4>2, <5>1, <5>2 DEF Gives
      <4>3. QED
        BY ONLY <4>1, <4>2
    <3>3. QED
      BY ONLY <2>8, <2>10, <3>2 DEF Outcome, Returns
  <2>11. QED
    BY ONLY <2>9, <2>10
<1>12. QED
  BY ONLY <1>4, <1>7, <1>9, <1>10, <1>11 DEF ReadsOn, ReadsBack

LEMMA ValueReadsBack ==
  ASSUME NEW traps \in BOOLEAN, NEW w, IsWriter(w), NEW v, Writable(v), WriteValue(traps, w, v).ok
  PROVE  ReadsOn(traps, w, v, WriteValue(traps, w, v).val)
<1>1. CASE v.kind = "Field"
  <2>1. v.codec.kind \in {"Bool", "UInt", "SInt", "VarUInt", "VarSInt", "FixedPoint"}
    BY <1>1 DEF Writable
  <2>2. CASE v.codec.kind \in {"VarUInt", "VarSInt"}
    BY <1>1, <2>2, VarUIntBack
  <2>3. CASE v.codec.kind \in {"Bool", "UInt", "SInt", "FixedPoint"}
    <3>1. Codes(traps, w, v, WriteValue(traps, w, v))
      BY <1>1, <2>3, BoolCodes, UIntCodes, SIntCodes, FixedCodes
    <3>2. QED
      BY ONLY <3>1, IsWriter(w), WriteValue(traps, w, v).ok, CodesBack
  <2>4. QED
    BY ONLY <2>1, <2>2, <2>3
<1>2. CASE v.kind = "Align"
  <2>1. WriteValue(traps, w, v) = AlignToByte(w)
    BY ONLY <1>2 DEF WriteValue
  <2>2. QED
    BY ONLY <1>2, <2>1, IsWriter(w), WriteValue(traps, w, v).ok, AlignBack
<1>3. CASE v.kind = "Id"
  BY <1>3, IdBack
<1>4. CASE v.kind = "Byte"
  BY <1>4, ByteBack
<1>5. CASE v.kind = "Count"
  <2>1. v.value \in 0 .. 2 ^ U32Bits - 1
    BY <1>5 DEF Writable
  <2>2. WriteValue(traps, w, v) = WriteVaru32(w, v.value)
    BY ONLY <1>5 DEF WriteValue
  <2>3. QED
    BY ONLY <1>5, <2>1, <2>2, IsWriter(w), WriteValue(traps, w, v).ok, CountBack
<1>6. CASE v.kind = "Index"
  <2>1. Codes(traps, w, v, WriteValue(traps, w, v))
    BY <1>6, IndexCodes
  <2>2. QED
    BY ONLY <2>1, IsWriter(w), WriteValue(traps, w, v).ok, CodesBack
<1>7. v.kind \in {"Field", "Align", "Id", "Byte", "Count", "Index"}
  BY DEF Writable
<1>8. QED
  BY ONLY <1>1, <1>2, <1>3, <1>4, <1>5, <1>6, <1>7

-----------------------------------------------------------------------------
(* The values of a body stand one behind another, and stay readable while  *)
(* the writer goes on.                                                     *)

LEMMA StillReadsBack ==
  ASSUME NEW traps, NEW w, NEW u, w.pos \in Nat, Follows(w, u), NEW v, NEW from \in Nat, NEW to \in Nat,
         to <= w.pos, ReadsBack(traps, v, w.buf, from, to)
  PROVE  ReadsBack(traps, v, u.buf, from, to)
<1>1. PICK p \in Nat : p = w.pos /\ to <= p
  OBVIOUS
<1>2. \A i \in from + 1 .. to : i \in 1 .. p
  BY <1>1
<1>3. ASSUME NEW data, Shares(data, u.buf, from, to)
      PROVE  Shares(data, w.buf, from, to)
  BY ONLY <1>1, <1>2, <1>3, Follows(w, u) DEF Shares, Follows
<1>4. QED
  BY ONLY <1>3, ReadsBack(traps, v, w.buf, from, to) DEF ReadsBack

(* The values of a body begin and end at these positions of its buffer, of *)
(* whatever these bits are a part.                                         *)
Places(traps, vs, buf, pos, p) ==
  /\ p \in [0 .. Len(vs) -> 0 .. pos]
  /\ p[0] = 0 /\ p[Len(vs)] = pos
  /\ \A i \in 1 .. Len(vs) : p[i - 1] <= p[i] /\ ReadsBack(traps, vs[i], buf, p[i - 1], p[i])

Readable ==
  writer # Absent => \E p : Places(build.traps, values, writer.buf, writer.pos, p)

LEMMA OpenReadable ==
  ASSUME IInv, InPlace, Open
  PROVE  Readable'
<1>1. writer'.pos = 0
  <2>1. PICK opened : opened = OpenSection(rest)
    OBVIOUS
  <2>2. opened.ok /\ writer' = opened.val
    BY <2>1 DEF Open
  <2>3. writer' = NewWriter(SubSeq(rest, ByteBits * PrefixRoom + 1, Len(rest)))
    BY ONLY <2>1, <2>2 DEF OpenSection, Checked, Ok, Err
  <2>4. QED
    BY ONLY <2>3 DEF NewWriter
<1>2. values' = <<>>
  BY DEF Open, InPlace
<1>3. PICK p : p = [i \in 0 .. 0 |-> 0]
  OBVIOUS
<1>4. p[0] = 0 /\ p \in [0 .. 0 -> 0 .. 0]
  BY ONLY <1>3
<1>5. Len(<<>>) = 0
  OBVIOUS
<1>6. ASSUME NEW i \in 1 .. 0 PROVE FALSE
  BY <1>6
<1>7. Places(build'.traps, <<>>, writer'.buf, 0, p)
  BY ONLY <1>4, <1>5, <1>6 DEF Places
<1>8. QED
  BY ONLY <1>1, <1>2, <1>7 DEF Readable

LEMMA PlacesOn ==
  ASSUME NEW traps \in BOOLEAN, NEW T, NEW vs \in Seq(T), NEW w, IsWriter(w), NEW p,
         Places(traps, vs, w.buf, w.pos, p), NEW v \in T, NEW u, ReadsOn(traps, w, v, u)
  PROVE  \E q : Places(traps, Append(vs, v), u.buf, u.pos, q)
<1>1. PICK N \in Nat : N = Len(vs)
  OBVIOUS
<1>2. PICK a \in Nat : a = w.pos
  BY DEF IsWriter
<1>3. IsWriter(u) /\ Follows(w, u) /\ ReadsBack(traps, v, u.buf, a, u.pos)
  BY ONLY <1>2, ReadsOn(traps, w, v, u) DEF ReadsOn
<1>4. PICK b \in Nat : b = u.pos /\ a <= b
  <2>1. u.pos \in Nat
    BY ONLY <1>3 DEF IsWriter
  <2>2. QED
    BY ONLY <1>2, <1>3, <2>1 DEF Follows
<1>5. PICK more : more = Append(vs, v)
  OBVIOUS
<1>6. Len(more) = N + 1 /\ more[N + 1] = v /\ \A i \in 1 .. N : more[i] = vs[i]
  BY ONLY <1>1, <1>5, vs \in Seq(T), v \in T
<1>7. /\ p \in [0 .. N -> 0 .. a] /\ p[0] = 0 /\ p[N] = a
      /\ \A i \in 1 .. N : p[i - 1] <= p[i] /\ ReadsBack(traps, vs[i], w.buf, p[i - 1], p[i])
  BY ONLY <1>1, <1>2, Places(traps, vs, w.buf, w.pos, p) DEF Places
<1>8. PICK q : q = [i \in 0 .. N + 1 |-> IF i = N + 1 THEN b ELSE p[i]]
  OBVIOUS
<1>9. q[N + 1] = b /\ \A i \in 0 .. N : q[i] = p[i]
  BY ONLY <1>8, N \in Nat
<1>10. q \in [0 .. N + 1 -> 0 .. b]
  <2>1. ASSUME NEW i \in 0 .. N + 1 PROVE (IF i = N + 1 THEN b ELSE p[i]) \in 0 .. b
    <3>1. CASE i = N + 1
      BY ONLY <3>1, b \in Nat
    <3>2. CASE i # N + 1
      <4>1. i \in 0 .. N
        BY ONLY <3>2, N \in Nat, i \in 0 .. N + 1
      <4>2. p[i] \in 0 .. a
        BY ONLY <1>7, <4>1
      <4>3. p[i] \in 0 .. b
        BY ONLY <1>4, <4>2, a \in Nat, b \in Nat
      <4>4. QED
        BY ONLY <3>2, <4>3
    <3>3. QED
      BY ONLY <3>1, <3>2
  <2>2. QED
    BY ONLY <1>8, <2>1
<1>11. q[0] = 0
  <2>1. 0 \in 0 .. N
    BY N \in Nat
  <2>2. QED
    BY ONLY <1>7, <1>9, <2>1
<1>12. ASSUME NEW i \in 1 .. N + 1
       PROVE  q[i - 1] <= q[i] /\ ReadsBack(traps, more[i], u.buf, q[i - 1], q[i])
  <2>1. CASE i = N + 1
    <3>1. i - 1 = N /\ N \in 0 .. N
      BY ONLY <2>1, N \in Nat
    <3>2. q[i - 1] = a /\ q[i] = b
      BY ONLY <1>7, <1>9, <2>1, <3>1
    <3>3. QED
      BY ONLY <1>3, <1>4, <1>6, <2>1, <3>2
  <2>2. CASE i # N + 1
    <3>1. i \in 1 .. N /\ i - 1 \in 0 .. N /\ i \in 0 .. N
      BY ONLY <2>2, N \in Nat, i \in 1 .. N + 1
    <3>2. q[i - 1] = p[i - 1] /\ q[i] = p[i] /\ p[i - 1] \in Nat /\ p[i] \in Nat /\ p[i] <= a
      <4>1. p[i] \in 0 .. a /\ p[i - 1] \in 0 .. a
        BY ONLY <1>7, <3>1
      <4>2. QED
        BY ONLY <1>9, <3>1, <4>1, a \in Nat
    <3>3. ReadsBack(traps, more[i], w.buf, p[i - 1], p[i]) /\ p[i - 1] <= p[i]
      BY ONLY <1>6, <1>7, <3>1
    <3>4. ReadsBack(traps, more[i], u.buf, p[i - 1], p[i])
      <4>1. PICK m \in Nat, n \in Nat : m = p[i - 1] /\ n = p[i] /\ n <= w.pos
        BY ONLY <1>2, <3>2
      <4>2. PICK x : x = more[i]
        OBVIOUS
      <4>3. ReadsBack(traps, x, w.buf, m, n)
        BY ONLY <3>3, <4>1, <4>2
      <4>4. w.pos \in Nat
        BY ONLY <1>2
      <4>5. ReadsBack(traps, x, u.buf, m, n)
        BY ONLY <1>3, <4>1, <4>3, <4>4, m \in Nat, n \in Nat, StillReadsBack
      <4>6. QED
        BY ONLY <4>1, <4>2, <4>5
    <3>5. QED
      BY ONLY <3>2, <3>3, <3>4
  <2>3. QED
    BY ONLY <2>1, <2>2
<1>13. Places(traps, more, u.buf, b, q)
  BY ONLY <1>6, <1>9, <1>10, <1>11, <1>12 DEF Places
<1>14. QED
  BY ONLY <1>4, <1>5, <1>13

LEMMA AppendReadable ==
  ASSUME IInv, Readable, NEW v \in Writes, AppendValue(v)
  PROVE  Readable'
<1>1. build.traps \in BOOLEAN /\ Writable(v) /\ values \in Seq(Writes)
  BY WireAssumption DEF IInv, Buffers
<1>2. PICK traps \in BOOLEAN : traps = build.traps
  BY <1>1
<1>3. /\ writer # Absent /\ WriteValue(traps, writer, v).ok
      /\ writer' = WriteValue(traps, writer, v).val /\ values' = Append(values, v) /\ build' = build
  BY <1>2 DEF AppendValue
<1>4. IsWriter(writer)
  BY <1>3 DEF IInv, OpenWriter
<1>5. ReadsOn(traps, writer, v, writer')
  BY ONLY <1>1, <1>3, <1>4, traps \in BOOLEAN, ValueReadsBack
<1>6. PICK p : Places(traps, values, writer.buf, writer.pos, p)
  BY ONLY <1>2, <1>3, Readable DEF Readable
<1>7. \E q : Places(traps, Append(values, v), writer'.buf, writer'.pos, q)
  <2>1. PICK w, u, vs : w = writer /\ u = writer' /\ vs = values
    OBVIOUS
  <2>2. /\ IsWriter(w) /\ ReadsOn(traps, w, v, u) /\ vs \in Seq(Writes)
        /\ Places(traps, vs, w.buf, w.pos, p)
    BY ONLY <1>1, <1>4, <1>5, <1>6, <2>1
  <2>3. \E q : Places(traps, Append(vs, v), u.buf, u.pos, q)
    BY ONLY <2>2, traps \in BOOLEAN, v \in Writes, PlacesOn
  <2>4. QED
    BY ONLY <2>1, <2>3
<1>8. QED
  BY ONLY <1>2, <1>3, <1>7 DEF Readable

LEMMA StepReadable == IInv /\ InPlace /\ Readable /\ [Next]_vars => Readable'
<1> SUFFICES ASSUME IInv, InPlace, Readable, [Next]_vars PROVE Readable'
  OBVIOUS
<1>1. ASSUME UNCHANGED <<build, buffer>>
      PROVE  Readable'
  BY <1>1 DEF buffer, Readable
<1>2. CASE Open
  BY <1>2, OpenReadable
<1>3. ASSUME NEW v \in Writes, AppendValue(v)
      PROVE  Readable'
  BY <1>3, AppendReadable
<1>4. ASSUME writer' = Absent
      PROVE  Readable'
  BY <1>4 DEF Readable
<1>5. CASE \/ \E v \in Writes : Refuse(v)
           \/ \E tag \in Tags : Close(tag)
           \/ \E tag \in Tags : CloseFails(tag)
           \/ EncoderFails
  BY <1>4, <1>5 DEF Refuse, Close, CloseFails, EncoderFails, Reset
<1>6. ASSUME NEW flags, NEW tick, NEW baseline, SendPacket(flags, tick, baseline) \/ SendCompact(tick, baseline)
      PROVE  Readable'
  BY <1>4, <1>6 DEF SendPacket, SendCompact, Reset
<1>7. CASE \/ \E tick \in Ticks, id \in SessionIds : SendInit(tick, id)
           \/ ReceiveInit \/ ReceiveCompact \/ Gone
  BY <1>1, <1>7 DEF SendInit, ReceiveInit, ReceiveCompact, Gone
<1>8. CASE UNCHANGED vars
  BY <1>1, <1>8 DEF vars
<1>9. QED
  BY <1>2, <1>3, <1>5, <1>6, <1>7, <1>8 DEF Next

-----------------------------------------------------------------------------
(* What the reader has after n values: all of them, or the panic of a wide *)
(* field; and no result when the data end before the values do.            *)
SoFar(traps, vs, n, data, end, result) ==
  IF end <= Len(data)
  THEN \/ result = Ok([values |-> [i \in 1 .. n |-> ValueIn(vs[i])], reader |-> ReaderAt(data, end)])
       \/ traps /\ result = Err("panic") /\ \E i \in 1 .. n : Wide(vs[i])
  ELSE ~result.ok

LEMMA ReadsNext ==
  ASSUME NEW traps, NEW vs, NEW n \in Nat, NEW data \in Seq(Bit), WholeBytes(data), NEW buf,
         NEW from \in Nat, NEW to \in Nat, from <= to, Shares(data, buf, from, to),
         ReadsBack(traps, vs[n + 1], buf, from, to), NEW result, SoFar(traps, vs, n, data, from, result)
  PROVE  SoFar(traps, vs, n + 1, data, to, ReadOn(traps, result, vs[n + 1]))
<1>1. PICK v : v = vs[n + 1]
  OBVIOUS
<1>2. PICK next : next = ReadOn(traps, result, v)
  OBVIOUS
<1>3. PICK len \in Nat : len = Len(data)
  OBVIOUS
<1>4. ASSUME ~result.ok
      PROVE  next = result
  BY ONLY <1>2, <1>4 DEF ReadOn, AndThen
<1>5. CASE ~result.ok /\ ~(to <= len)
  BY ONLY <1>1, <1>2, <1>3, <1>4, <1>5 DEF SoFar
<1>6. CASE ~result.ok /\ to <= len
  <2>1. from <= len
    BY ONLY <1>3, <1>6, from <= to, from \in Nat, to \in Nat
  <2>2. traps /\ result = Err("panic") /\ \E i \in 1 .. n : Wide(vs[i])
    BY ONLY <1>3, <1>6, <2>1, SoFar(traps, vs, n, data, from, result) DEF SoFar, Ok
  <2>3. \E i \in 1 .. n + 1 : Wide(vs[i])
    <3>1. 1 .. n \subseteq 1 .. n + 1
      OBVIOUS
    <3>2. QED
      BY ONLY <2>2, <3>1
  <2>4. QED
    BY ONLY <1>1, <1>2, <1>3, <1>4, <1>6, <2>2, <2>3 DEF SoFar
<1>7. CASE result.ok
  <2>1. from <= len
    BY ONLY <1>3, <1>7, SoFar(traps, vs, n, data, from, result) DEF SoFar
  <2>2. PICK given : given = [i \in 1 .. n |-> ValueIn(vs[i])]
    OBVIOUS
  <2>3. result = Ok([values |-> given, reader |-> ReaderAt(data, from)])
    <3>1. ~Err("panic").ok
      BY DEF Err
    <3>2. QED
      BY ONLY <1>3, <1>7, <2>1, <2>2, <3>1, SoFar(traps, vs, n, data, from, result) DEF SoFar
  <2>4. PICK back : back = ReadValue(traps, ReaderAt(data, from), v)
    OBVIOUS
  <2>5. Outcome(traps, v, back, data, to)
    BY ONLY <1>1, <1>3, <2>1, <2>4, data \in Seq(Bit), WholeBytes(data), Shares(data, buf, from, to),
            ReadsBack(traps, vs[n + 1], buf, from, to) DEF ReadsBack
  <2>6. next = IF back.ok THEN Ok([values |-> Append(given, back.val.value), reader |-> back.val.reader]) ELSE back
    BY ONLY <1>2, <2>3, <2>4 DEF ReadOn, AndThen, Ok
  <2>7. CASE ~(to <= len)
    <3>1. ~back.ok
      BY ONLY <1>3, <2>5, <2>7 DEF Outcome
    <3>2. QED
      BY ONLY <1>1, <1>2, <1>3, <2>6, <2>7, <3>1 DEF SoFar
  <2>8. CASE to <= len /\ back = Gives(ValueIn(v), data, to)
    <3>1. back.ok /\ back.val.value = ValueIn(v) /\ back.val.reader = ReaderAt(data, to)
      BY ONLY <2>8 DEF Gives, Ok
    <3>2. Append(given, ValueIn(v)) = [i \in 1 .. n + 1 |-> ValueIn(vs[i])]
      <4>1. PICK all : all = [i \in 1 .. n + 1 |-> ValueIn(vs[i])]
        OBVIOUS
      <4>2. PICK T : T = {ValueIn(vs[i]) : i \in 1 .. n + 1}
        OBVIOUS
      <4>3. n + 1 \in 1 .. n + 1 /\ 1 .. n \subseteq 1 .. n + 1
        OBVIOUS
      <4>4. ValueIn(v) \in T
        BY ONLY <1>1, <4>2, <4>3
      <4>5. given \in Seq(T) /\ Len(given) = n
        <5>1. given \in [1 .. n -> T]
          BY ONLY <2>2, <4>2, <4>3
        <5>2. QED
          BY ONLY <5>1, n \in Nat
      <4>6. all \in Seq(T) /\ Len(all) = n + 1
        <5>1. all \in [1 .. n + 1 -> T]
          BY ONLY <4>1, <4>2
        <5>2. QED
          BY ONLY <5>1, n \in Nat
      <4>7. PICK more : more = Append(given, ValueIn(v))
        OBVIOUS
      <4>8. more \in Seq(T) /\ Len(more) = n + 1 /\ more[n + 1] = ValueIn(v) /\ \A i \in 1 .. n : more[i] = given[i]
        BY ONLY <4>4, <4>5, <4>7, n \in Nat
      <4>9. ASSUME NEW i \in 1 .. n + 1 PROVE more[i] = all[i]
        <5>1. CASE i = n + 1
          BY ONLY <1>1, <4>1, <4>8, <5>1, i \in 1 .. n + 1
        <5>2. CASE i # n + 1
          <6>1. i \in 1 .. n
            BY ONLY <5>2, i \in 1 .. n + 1, n \in Nat
          <6>2. QED
            BY ONLY <2>2, <4>1, <4>8, <6>1, i \in 1 .. n + 1
        <5>3. QED
          BY ONLY <5>1, <5>2
      <4>10. more = all
        BY ONLY <4>6, <4>8, <4>9, n \in Nat, SeqEqual
      <4>11. QED
        BY ONLY <4>1, <4>7, <4>10
    <3>3. next = Ok([values |-> [i \in 1 .. n + 1 |-> ValueIn(vs[i])], reader |-> ReaderAt(data, to)])
      BY ONLY <2>6, <3>1, <3>2
    <3>4. QED
      BY ONLY <1>1, <1>2, <1>3, <2>8, <3>3 DEF SoFar
  <2>9. CASE to <= len /\ traps /\ Wide(v) /\ back = Err("panic")
    <3>1. ~back.ok
      BY ONLY <2>9 DEF Err
    <3>2. n + 1 \in 1 .. n + 1
      OBVIOUS
    <3>3. next = Err("panic")
      BY ONLY <2>6, <2>9, <3>1
    <3>4. QED
      BY ONLY <1>1, <1>2, <1>3, <2>9, <3>2, <3>3 DEF SoFar
  <2>10. QED
    BY ONLY <1>3, <2>5, <2>7, <2>8, <2>9 DEF Outcome, Returns
<1>8. QED
  BY ONLY <1>5, <1>6, <1>7

LEMMA BodyOutcome ==
  ASSUME NEW traps, NEW T, NEW vs \in Seq(T), NEW data \in Seq(Bit), WholeBytes(data),
         NEW buf, NEW pos \in Nat, NEW p, Places(traps, vs, buf, pos, p), Shares(data, buf, 0, pos)
  PROVE  SoFar(traps, vs, Len(vs), data, pos, Reading(traps, data, vs))
<1>1. PICK N \in Nat : N = Len(vs)
  OBVIOUS
<1>2. /\ p \in [0 .. N -> 0 .. pos] /\ p[0] = 0 /\ p[N] = pos
      /\ \A i \in 1 .. N : p[i - 1] <= p[i] /\ ReadsBack(traps, vs[i], buf, p[i - 1], p[i])
  BY ONLY <1>1, Places(traps, vs, buf, pos, p) DEF Places
<1>3. PICK h : /\ h[0] = Ok([values |-> <<>>, reader |-> NewReader(data)])
               /\ \A n \in 1 .. N : h[n] = ReadOn(traps, h[n - 1], vs[n])
               /\ Reading(traps, data, vs) = h[N]
  <2>1. PICK h : ReadsInTurn(traps, data, vs, h)
    BY ONLY vs \in Seq(T), ReadingIs
  <2>2. QED
    BY ONLY <1>1, <2>1 DEF ReadsInTurn
<1> DEFINE G == {n \in 0 .. N : SoFar(traps, vs, n, data, p[n], h[n])}
<1>4. 0 \in G
  <2>1. 0 \in 0 .. N
    BY N \in Nat
  <2>2. 0 <= Len(data)
    BY LenProperties
  <2>3. NewReader(data) = ReaderAt(data, 0)
    BY DEF NewReader, ReaderAt
  <2>4. [i \in 1 .. 0 |-> ValueIn(vs[i])] = <<>>
    <3>1. 1 .. 0 = {}
      BY InitialPositions
    <3>2. QED
      BY <3>1
  <2>5. SoFar(traps, vs, 0, data, 0, h[0])
    BY ONLY <1>3, <2>2, <2>3, <2>4 DEF SoFar
  <2>6. QED
    BY ONLY <1>2, <2>1, <2>5
<1>5. ASSUME NEW n \in 0 .. N - 1, n \in G
      PROVE  n + 1 \in G
  <2>1. n \in Nat /\ n \in 0 .. N /\ n + 1 \in 0 .. N /\ n + 1 \in 1 .. N /\ (n + 1) - 1 = n
    BY ONLY n \in 0 .. N - 1, N \in Nat
  <2>2. PICK m : m = n + 1
    OBVIOUS
  <2>3. PICK from \in Nat, to \in Nat : from = p[n] /\ to = p[m] /\ to <= pos
    <3>1. p[n] \in 0 .. pos /\ p[m] \in 0 .. pos
      BY ONLY <1>2, <2>1, <2>2
    <3>2. p[n] \in Nat /\ p[m] \in Nat /\ p[m] <= pos
      BY ONLY <3>1, pos \in Nat
    <3>3. QED
      BY ONLY <3>2
  <2>4. from <= to /\ ReadsBack(traps, vs[n + 1], buf, from, to) /\ h[m] = ReadOn(traps, h[n], vs[n + 1])
    BY ONLY <1>2, <1>3, <2>1, <2>2, <2>3
  <2>5. Shares(data, buf, from, to)
    <3>1. ASSUME NEW i \in from + 1 .. to PROVE i \in 0 + 1 .. pos
      BY ONLY <2>3, from \in Nat, to \in Nat, pos \in Nat, i \in from + 1 .. to
    <3>2. QED
      BY ONLY <3>1, Shares(data, buf, 0, pos) DEF Shares
  <2>6. SoFar(traps, vs, n, data, from, h[n])
    BY ONLY <1>5, <2>3
  <2>7. SoFar(traps, vs, n + 1, data, to, ReadOn(traps, h[n], vs[n + 1]))
    <3>1. PICK result : result = h[n]
      OBVIOUS
    <3>2. SoFar(traps, vs, n, data, from, result)
      BY ONLY <2>6, <3>1
    <3>3. SoFar(traps, vs, n + 1, data, to, ReadOn(traps, result, vs[n + 1]))
      BY ONLY <2>1, <2>4, <2>5, <3>2, from \in Nat, to \in Nat, data \in Seq(Bit), WholeBytes(data), ReadsNext
    <3>4. QED
      BY ONLY <3>1, <3>3
  <2>8. QED
    BY ONLY <2>1, <2>2, <2>3, <2>4, <2>7
<1> HIDE DEF G
<1>6. N \in G
  <2>1. \A n \in 0 .. N : n \in G
    BY <1>4, <1>5, UpwardInduction
  <2>2. N \in 0 .. N
    BY N \in Nat
  <2>3. QED
    BY ONLY <2>1, <2>2
<1>7. QED
  BY ONLY <1>1, <1>2, <1>3, <1>6 DEF G

LEMMA BodyShares ==
  ASSUME NEW w, IsWriter(w)
  PROVE  /\ Finish(w) \in Seq(Bit) /\ WholeBytes(Finish(w))
         /\ w.pos <= Len(Finish(w)) /\ Shares(Finish(w), w.buf, 0, w.pos)
<1>1. w.pos \in Nat
  BY DEF IsWriter
<1>2. /\ Finish(w) \in Seq(Bit) /\ Len(Finish(w)) = RoundUp(w.pos) /\ WholeBytes(Finish(w))
      /\ RoundUp(w.pos) \in Nat /\ RoundUp(w.pos) <= Len(w.buf) /\ w.pos <= RoundUp(w.pos)
  BY ONLY <1>1, IsWriter(w), FinishIs, RoundUpIs
<1>3. PICK R \in Nat : R = RoundUp(w.pos) /\ R <= Len(w.buf) /\ w.pos <= R
  BY ONLY <1>2
<1>4. w.buf \in Seq(Bit) /\ Finish(w) = SubSeq(w.buf, 1, R)
  BY ONLY <1>3, IsWriter(w) DEF IsWriter, Finish
<1>5. \A i \in 1 .. R : SubSeq(w.buf, 1, R)[i] = w.buf[i]
  BY ONLY <1>3, <1>4, R \in Nat
<1>6. \A i \in 0 + 1 .. w.pos : i \in 1 .. R
  BY ONLY <1>1, <1>3, R \in Nat
<1>7. Shares(Finish(w), w.buf, 0, w.pos)
  BY ONLY <1>4, <1>5, <1>6 DEF Shares
<1>8. QED
  BY ONLY <1>2, <1>7

LEMMA TruncatedShares ==
  ASSUME NEW w, IsWriter(w), w.pos > 0, NEW data, data = Slice(w.buf, 0, Bytes(Finish(w)) - 1)
  PROVE  data \in Seq(Bit) /\ WholeBytes(data) /\ Len(data) < w.pos /\ Shares(data, w.buf, 0, w.pos)
<1>1. PICK p \in Nat : p = w.pos /\ p > 0
  BY DEF IsWriter
<1>2. PICK body \in Seq(Bit) : body = Finish(w) /\ Len(body) = RoundUp(p) /\ RoundUp(p) <= Len(w.buf) /\ WholeBytes(body)
  BY ONLY <1>1, IsWriter(w), FinishIs
<1>3. PICK k \in Nat : Len(body) = ByteBits * k
  BY ONLY <1>2 DEF WholeBytes
<1>4. Bytes(body) = k
  BY ONLY <1>3, body \in Seq(Bit), WholeBytesAre
<1>5. ByteBits \in Nat /\ ByteBits >= 2
  BY Widths
<1>6. p <= ByteBits * k /\ ByteBits * k < p + ByteBits /\ ByteBits * k \in Nat
  <2>1. p <= RoundUp(p) /\ RoundUp(p) < p + ByteBits /\ RoundUp(p) \in Nat
    BY RoundUpIs
  <2>2. QED
    BY ONLY <1>2, <1>3, <2>1
<1>7. k # 0
  <2>1. ASSUME k = 0 PROVE FALSE
    <3>1. ByteBits * k = 0
      BY ONLY <1>5, <2>1
    <3>2. QED
      BY ONLY <1>1, <1>6, <3>1, p \in Nat
  <2>2. QED
    BY ONLY <2>1
<1>8. PICK n \in Nat : n = k - 1 /\ k = n + 1
  BY ONLY <1>7, k \in Nat
<1>9. ByteBits * k = ByteBits * n + ByteBits /\ ByteBits * n \in Nat
  BY ONLY <1>5, <1>8, n \in Nat
<1>10. w.buf \in Seq(Bit) /\ WholeBytes(w.buf)
  BY DEF IsWriter
<1>11. 0 + n <= Bytes(w.buf) /\ 0 \in Nat
  <2>1. PICK m \in Nat : Len(w.buf) = ByteBits * m
    BY ONLY <1>10 DEF WholeBytes
  <2>2. Bytes(w.buf) = m
    BY ONLY <1>10, <2>1, WholeBytesAre
  <2>3. ByteBits * k <= ByteBits * m
    BY ONLY <1>2, <1>3, <2>1
  <2>4. k <= m
    <3>1. ASSUME m + 1 <= k PROVE FALSE
      <4>1. ByteBits * (m + 1) <= ByteBits * k /\ ByteBits * (m + 1) = ByteBits * m + ByteBits /\ ByteBits * m \in Nat
        <5>1. ByteBits * (m + 1) <= ByteBits * k
          BY ONLY <1>5, <3>1, m \in Nat, k \in Nat, ProductGrows
        <5>2. QED
          BY ONLY <1>5, <5>1, m \in Nat
      <4>2. QED
        BY ONLY <1>5, <1>6, <2>3, <4>1
    <3>2. QED
      BY ONLY <3>1, m \in Nat, k \in Nat
  <2>5. QED
    BY ONLY <1>8, <2>2, <2>4, n \in Nat, k \in Nat, m \in Nat
<1>12. data = Slice(w.buf, 0, n)
  BY ONLY <1>2, <1>4, <1>8, data = Slice(w.buf, 0, Bytes(Finish(w)) - 1)
<1>13. /\ data \in Seq(Bit) /\ Len(data) = ByteBits * n
       /\ \A i \in 1 .. ByteBits * n : data[i] = w.buf[ByteBits * 0 + i]
  BY ONLY <1>10, <1>11, <1>12, n \in Nat, SliceIs
<1>14. \A i \in 1 .. ByteBits * n : data[i] = w.buf[i]
  <2>1. ByteBits * 0 = 0
    BY <1>5
  <2>2. \A i \in 1 .. ByteBits * n : ByteBits * 0 + i = i
    BY ONLY <1>9, <2>1
  <2>3. QED
    BY ONLY <1>13, <2>2
<1>15. Len(data) < p
  BY ONLY <1>5, <1>6, <1>9, <1>13, p \in Nat
<1>16. Shares(data, w.buf, 0, p)
  <2>1. ASSUME NEW i \in 0 + 1 .. p, i <= Len(data) PROVE i \in 1 .. ByteBits * n
    BY ONLY <1>9, <1>13, <2>1, p \in Nat
  <2>2. QED
    BY ONLY <1>14, <2>1 DEF Shares
<1>17. WholeBytes(data)
  BY ONLY <1>13, n \in Nat DEF WholeBytes
<1>18. QED
  BY ONLY <1>1, <1>13, <1>15, <1>16, <1>17

LEMMA ReadBackIs ==
  ASSUME IInv, Readable, writer # Absent, NEW data \in Seq(Bit), WholeBytes(data),
         Shares(data, writer.buf, 0, writer.pos)
  PROVE  SoFar(build.traps, values, Len(values), data, writer.pos, ReadBack(data, values))
<1>1. IsWriter(writer) /\ values \in Seq(Writes)
  BY DEF IInv, OpenWriter, Buffers
<1>2. PICK pos \in Nat : pos = writer.pos
  BY ONLY <1>1 DEF IsWriter
<1>3. PICK traps, vs, buf : traps = build.traps /\ vs = values /\ buf = writer.buf
  OBVIOUS
<1>4. PICK p : Places(traps, vs, buf, pos, p)
  BY ONLY <1>2, <1>3, Readable, writer # Absent DEF Readable
<1>5. ReadBack(data, values) = Reading(traps, data, vs)
  BY ONLY <1>3 DEF ReadBack, Reading, ReadOn
<1>6. vs \in Seq(Writes) /\ Shares(data, buf, 0, pos)
  BY ONLY <1>1, <1>2, <1>3, Shares(data, writer.buf, 0, writer.pos)
<1>7. SoFar(traps, vs, Len(vs), data, pos, Reading(traps, data, vs))
  BY ONLY <1>4, <1>6, data \in Seq(Bit), WholeBytes(data), pos \in Nat, BodyOutcome
<1>8. QED
  BY ONLY <1>2, <1>3, <1>5, <1>7

LEMMA ReadableSays == IInv /\ Readable => BodyReadsBack
<1>1. SUFFICES ASSUME IInv, Readable, writer # Absent, NEW back, back = ReadBack(Finish(writer), values),
                      ~(build.traps /\ \E v \in Range(values) : Wide(v))
               PROVE  back.ok /\ back.val.values = [i \in DOMAIN values |-> ValueIn(values[i])]
  BY ONLY <1>1 DEF BodyReadsBack
<1>2. IsWriter(writer) /\ values \in Seq(Writes)
  BY <1>1 DEF IInv, OpenWriter, Buffers
<1>3. PICK data \in Seq(Bit) :
        data = Finish(writer) /\ WholeBytes(data) /\ writer.pos <= Len(data) /\ Shares(data, writer.buf, 0, writer.pos)
  BY ONLY <1>2, BodyShares
<1>4. SoFar(build.traps, values, Len(values), data, writer.pos, back)
  BY <1>1, <1>3, ReadBackIs
<1>5. DOMAIN values = 1 .. Len(values)
  BY ONLY <1>2, LenProperties
<1>6. CASE back = Ok([values |-> [i \in DOMAIN values |-> ValueIn(values[i])], reader |-> ReaderAt(data, writer.pos)])
  BY ONLY <1>6 DEF Ok
<1>7. CASE build.traps /\ back = Err("panic") /\ \E i \in DOMAIN values : Wide(values[i])
  <2>1. \E v \in Range(values) : Wide(v)
    BY ONLY <1>7 DEF Range
  <2>2. QED
    BY ONLY <1>1, <1>7, <2>1
<1>8. QED
  BY ONLY <1>3, <1>4, <1>5, <1>6, <1>7 DEF SoFar

LEMMA TruncatedSays == IInv /\ Readable => TruncationIsNoticed
<1>1. SUFFICES ASSUME IInv, Readable, writer # Absent, writer.pos > 0,
                      NEW data, data = Slice(writer.buf, 0, Bytes(Finish(writer)) - 1)
               PROVE  ~ReadBack(data, values).ok
  BY ONLY <1>1 DEF TruncationIsNoticed
<1>2. IsWriter(writer)
  BY <1>1 DEF IInv, OpenWriter
<1>3. data \in Seq(Bit) /\ WholeBytes(data) /\ Len(data) < writer.pos /\ Shares(data, writer.buf, 0, writer.pos)
  BY ONLY <1>1, <1>2, TruncatedShares
<1>4. SoFar(build.traps, values, Len(values), data, writer.pos, ReadBack(data, values))
  BY <1>1, <1>3, ReadBackIs
<1>5. ~(writer.pos <= Len(data))
  <2>1. writer.pos \in Nat /\ Len(data) \in Nat
    BY ONLY <1>2, <1>3 DEF IsWriter
  <2>2. QED
    BY ONLY <1>3, <2>1
<1>6. QED
  BY ONLY <1>4, <1>5 DEF SoFar

-----------------------------------------------------------------------------
(* The theorems. *)

(* IInv holds in every reachable state: buffers are bits in whole bytes    *)
(* and an open writer has the rest behind the room for a prefix            *)
(* (snapshot.rs:161).                                                      *)
THEOREM Invariance == Spec => []IInv
<1>1. Init => IInv
  BY InitHolds
<1>2. IInv /\ [Next]_vars => IInv'
  BY StepKeeps
<1>3. QED
  BY <1>1, <1>2, PTL DEF Spec

(* The buffer keeps its size while sections are made in place, a writer    *)
(* stays inside it, and a session's last tick is a u32 (snapshot.rs:161,   *)
(* writer.rs, session.rs:120).                                             *)
THEOREM TypeCorrect == Spec => []TypeOK
<1>1. IInv => TypeOK
  BY DEF IInv, Buffers, OpenWriter, Sessions, TypeOK, IsWriter
<1>2. QED
  BY <1>1, Invariance, PTL

(* In every body that can be written, the three varint readers make the    *)
(* number its groups denote of a varint that fits a u32, and an error of   *)
(* bytes where none ends: the u32 that loses bits group by group and the   *)
(* u64 that is cast (reader.rs:100, packet.rs:188, session.rs:182).        *)
THEOREM VarintReadersAlwaysAgree == Spec => []VarintReadersAgree
<1>1. IInv => VarintReadersAgree
  <2>1. SUFFICES ASSUME IInv, writer # Absent, NEW offset \in 0 .. Bytes(Finish(writer))
                 PROVE  AgreeAt(Finish(writer), offset)
    BY ONLY <2>1 DEF VarintReadersAgree, AgreeAt
  <2>2. IsWriter(writer)
    BY <2>1 DEF IInv, OpenWriter
  <2>3. PICK data \in Seq(Bit) : data = Finish(writer)
    BY <2>2, FinishIs
  <2>4. offset \in Nat
    <3>1. Bytes(data) \in Nat
      BY BytesAre
    <3>2. QED
      BY <2>3, <3>1
  <2>5. QED
    BY ONLY <2>3, <2>4, data \in Seq(Bit), VarintsAgree
<1>2. QED
  BY <1>1, Invariance, PTL

(* A compact packet takes a session forward, whatever its bits say: the    *)
(* tick that is added to never wraps (session.rs:120).                     *)
THEOREM SessionsAdvance == Spec => SessionAdvances
<1>1. IInv /\ [Next]_vars =>
        [session' # session /\ packet.form = "compact" => session'.last_tick > session.last_tick]_session
  <2>1. SUFFICES ASSUME IInv, [Next]_vars, session' # session, packet.form = "compact"
                 PROVE  session'.last_tick > session.last_tick
    OBVIOUS
  <2>2. ReceiveInit \/ ReceiveCompact
    BY ONLY <2>1 DEF Next, vars, link, buffer, Open, AppendValue, Refuse, Close, CloseFails, EncoderFails,
                     SendPacket, SendCompact, SendInit, Gone
  <2>3. ReceiveCompact
    BY ONLY <2>1, <2>2 DEF ReceiveInit
  <2>4. QED
    BY ONLY <2>1, <2>3, CompactAdvances DEF IInv
<1>2. QED
  BY <1>1, Invariance, PTL DEF Spec, SessionAdvances

(* The sections made in place, behind room for the longest prefix and in a *)
(* dirty buffer, are byte for byte those that encode_section makes of the  *)
(* bodies of a growable writer: for any values, any section and buffer     *)
(* sizes (snapshot.rs:161, packet.rs:188).                                 *)
THEOREM InPlaceAlways == Spec => []InPlaceIsEncodeSection
<1>1. Init => InPlace
  BY StartsInPlace DEF Init
<1>2. IInv /\ IInv' /\ InPlace /\ [Next]_vars => InPlace'
  BY StepInPlace
<1>3. InPlace => InPlaceIsEncodeSection
  BY InPlaceSays
<1>4. QED
  BY <1>1, <1>2, <1>3, Invariance, PTL DEF Spec

(* What is written is read back as it was written, whatever the buffer     *)
(* held: every field codec, for all widths, ranges and values (snapshot.rs,*)
(* write_field_value and read_field_value).  Left out is one case, which   *)
(* panics: a build with overflow checks that reads a negative value of a   *)
(* signed field of one bit less than an i64 (snapshot.rs:787).             *)
THEOREM BodiesReadBack == Spec => []BodyReadsBack
<1>1. Init => InPlace /\ Readable
  BY StartsInPlace DEF Init, Readable
<1>2. IInv /\ IInv' /\ InPlace /\ Readable /\ [Next]_vars => InPlace' /\ Readable'
  BY StepInPlace, StepReadable
<1>3. IInv /\ Readable => BodyReadsBack
  BY ReadableSays
<1>4. QED
  BY <1>1, <1>2, <1>3, Invariance, PTL DEF Spec

(* A body without its last byte is not read as one: the reader runs out of *)
(* data in the value that the byte was of, whatever codecs came before     *)
(* (reader.rs, BitError::UnexpectedEof).                                   *)
THEOREM TruncationsAreNoticed == Spec => []TruncationIsNoticed
<1>1. Init => InPlace /\ Readable
  BY StartsInPlace DEF Init, Readable
<1>2. IInv /\ IInv' /\ InPlace /\ Readable /\ [Next]_vars => InPlace' /\ Readable'
  BY StepInPlace, StepReadable
<1>3. IInv /\ Readable => TruncationIsNoticed
  BY TruncatedSays
<1>4. QED
  BY <1>1, <1>2, <1>3, Invariance, PTL DEF Spec
=============================================================================
