------------------------ MODULE SnapshotFollows_proofs ------------------------
(***************************************************************************)
(* Proofs that the receiver follows the sender, ReplicaFollows, that the   *)
(* encodings of a delta say the same, EncodingsAgree, and that what is     *)
(* encoded is decoded and applied, EncodedIsDecodable.                     *)
(*                                                                         *)
(* Each encoder is followed through its decoder to the same list, Changes: *)
(* the masked one by ranks of marked places, the sparse ones by the        *)
(* positions of entries in a flattened sequence.  What a list of updates   *)
(* Says is a set of writes to fields; a delta says those that the diff     *)
(* found, a dirty list those that differ.  The inductive invariant,        *)
(* Follow, has every field of the receiver Near that of the sender.  Each  *)
(* check of a decoder passes for one that the encoder has made, or for     *)
(* the order in which it lists what it sends.                              *)
(***************************************************************************)
EXTENDS SnapshotStream_proofs

-----------------------------------------------------------------------------
(* What has its order is in order. *)

(* A function that keeps the order of 1 .. K and takes every value up to L *)
(* changes nothing.                                                        *)
IsOrder(K, L, f) ==
  /\ K \in Nat /\ L \in Nat
  /\ \A m \in 1 .. K : f[m] \in 1 .. L
  /\ \A m, n \in 1 .. K : m < n => f[m] < f[n]
  /\ \A i \in 1 .. L : \E m \in 1 .. K : f[m] = i

LEMMA OrderIsIdentity ==
  ASSUME NEW K, NEW L, NEW f, IsOrder(K, L, f)
  PROVE  K = L /\ \A m \in 1 .. K : f[m] = m
<1> USE DEF IsOrder
<1> DEFINE moved == {m \in 1 .. K : f[m] # m}
<1>1. ASSUME moved # {}
      PROVE  FALSE
  <2>1. moved \subseteq Nat
    OBVIOUS
  <2>2. PICK m \in moved : \A n \in moved : m <= n
    <3> HIDE DEF moved
    <3>1. QED
      BY <1>1, <2>1, LeastNatural
  <2>3. m \in 1 .. K /\ f[m] # m /\ \A n \in 1 .. m - 1 : f[n] = n
    BY <2>2
  <2>4. f[m] > m
    <3>1. CASE m = 1
      BY <2>3, <3>1
    <3>2. CASE m > 1
      <4>1. m - 1 \in 1 .. K /\ f[m - 1] = m - 1 /\ f[m - 1] < f[m]
        BY <2>3, <3>2
      <4>2. QED
        BY <2>3, <4>1
    <3>3. QED
      BY <2>3, <3>1, <3>2
  <2>5. PICK n \in 1 .. K : f[n] = m
    BY <2>3, <2>4
  <2>6. n > m
    BY <2>3, <2>5
  <2>7. f[m] < f[n]
    BY <2>3, <2>6
  <2>8. QED
    BY <2>3, <2>4, <2>5, <2>7
<1>2. \A m \in 1 .. K : f[m] = m
  BY <1>1
<1>3. K = L
  <2>1. K <= L
    <3>1. CASE K = 0
      BY <3>1
    <3>2. CASE K # 0
      <4>1. K \in 1 .. K
        BY <3>2
      <4>2. f[K] \in 1 .. L /\ f[K] = K
        BY <1>2, <4>1
      <4>3. QED
        BY <4>2
    <3>3. QED
      BY <3>1, <3>2
  <2>2. L <= K
    <3>1. CASE L = 0
      BY <3>1
    <3>2. CASE L # 0
      <4>1. L \in 1 .. L
        BY <3>2
      <4>2. PICK m \in 1 .. K : f[m] = L
        BY <4>1
      <4>3. QED
        BY <1>2, <4>2
    <3>3. QED
      BY <3>1, <3>2
  <2>3. QED
    BY <2>1, <2>2
<1>4. QED
  BY <1>2, <1>3

(* Numbers that are in order are listed as they are.                       *)
Rising(L, g) ==
  /\ L \in Nat
  /\ \A i \in 1 .. L : g[i] \in Nat
  /\ \A i, j \in 1 .. L : i < j => g[i] < g[j]

LEMMA ListedIsAList ==
  ASSUME NEW S
  PROVE  Listed(S) = [n \in DOMAIN Listed(S) |-> Listed(S)[n]]
BY DEF Listed

LEMMA ListedInOrder ==
  ASSUME NEW L, NEW g, Rising(L, g), NEW S, S = {g[i] : i \in 1 .. L}
  PROVE  /\ IsFiniteSet(S) /\ S \subseteq Nat
         /\ DOMAIN Listed(S) = 1 .. L /\ \A i \in 1 .. L : Listed(S)[i] = g[i]
<1> DEFINE K == Cardinality(S)
           place(x) == CHOOSE i \in 1 .. L : g[i] = x
           f == [m \in 1 .. K |-> place(Listed(S)[m])]
<1> USE DEF Rising
<1>1. S \subseteq Nat
  OBVIOUS
<1>2. IsFiniteSet(S)
  <2> DEFINE h == [i \in 1 .. L |-> g[i]]
  <2>1. h \in Surjection(1 .. L, S)
    BY DEF Surjection
  <2>2. IsFiniteSet(1 .. L)
    BY FS_Interval
  <2> HIDE DEF h
  <2>3. QED
    BY <2>1, <2>2, FS_Surjection
<1>3. /\ K \in Nat /\ DOMAIN Listed(S) = 1 .. K
      /\ \A n \in 1 .. K : Listed(S)[n] \in S
      /\ \A x \in S : \E n \in 1 .. K : Listed(S)[n] = x
      /\ \A m, n \in 1 .. K : m < n => Listed(S)[m] < Listed(S)[n]
  <2>1. S \subseteq Int
    BY <1>1
  <2>2. /\ K \in Nat /\ DOMAIN Listed(S) = 1 .. K
        /\ \A n \in DOMAIN Listed(S) : Listed(S)[n] \in S
        /\ \A x \in S : /\ Cardinality(UpTo(S, x)) \in DOMAIN Listed(S)
                        /\ Listed(S)[Cardinality(UpTo(S, x))] = x
        /\ \A m, n \in DOMAIN Listed(S) : m < n => Listed(S)[m] < Listed(S)[n]
    BY ONLY <1>2, <2>1, ListedIs
  <2> HIDE DEF K
  <2>3. QED
    BY <2>2
<1>4. \A x \in S : place(x) \in 1 .. L /\ g[place(x)] = x
  OBVIOUS
<1> HIDE DEF K, place
<1>5. \A m \in 1 .. K : f[m] \in 1 .. L /\ g[f[m]] = Listed(S)[m]
  BY <1>3, <1>4
<1>6. \A m, n \in 1 .. K : m < n => f[m] < f[n]
  <2> TAKE m, n \in 1 .. K
  <2> HAVE m < n
  <2>1. g[f[m]] < g[f[n]] /\ f[m] \in 1 .. L /\ f[n] \in 1 .. L
    BY <1>3, <1>5
  <2> HIDE DEF f
  <2>2. CASE f[n] < f[m]
    <3>1. g[f[n]] < g[f[m]]
      BY <2>1, <2>2
    <3>2. QED
      BY <2>1, <3>1
  <2>3. CASE f[n] = f[m]
    BY <2>1, <2>3
  <2>4. QED
    BY <2>1, <2>2, <2>3
<1>7. \A i \in 1 .. L : \E m \in 1 .. K : f[m] = i
  <2> TAKE i \in 1 .. L
  <2>1. g[i] \in S
    OBVIOUS
  <2>2. PICK m \in 1 .. K : Listed(S)[m] = g[i]
    BY <1>3, <2>1
  <2>3. g[f[m]] = g[i] /\ f[m] \in 1 .. L
    BY <1>5, <2>2
  <2> HIDE DEF f
  <2>4. f[m] = i
    BY <2>3
  <2>5. QED
    BY <2>4
<1> HIDE DEF f
<1>8. K = L /\ \A m \in 1 .. K : f[m] = m
  <2>1. IsOrder(K, L, f)
    BY <1>3, <1>5, <1>6, <1>7 DEF IsOrder
  <2>2. QED
    BY <2>1, OrderIsIdentity
<1>9. QED
  BY <1>1, <1>2, <1>3, <1>5, <1>8

-----------------------------------------------------------------------------
(* Components by id, entities by id. *)

LEMMA ComponentOfIs ==
  ASSUME NEW s, ValidSchema(s)
  PROVE  /\ \A k \in DOMAIN s : ComponentOf(s, s[k].id) = s[k]
         /\ \A c \in ComponentIds(s) :
              \E k \in DOMAIN s : s[k].id = c /\ ComponentOf(s, c) = s[k]
         /\ \A k \in DOMAIN s : s[k].id \in Nat
         /\ \A k \in DOMAIN s : /\ s[k].fields \in Seq([max : Nat, threshold : Nat])
                                /\ DOMAIN s[k].fields = 1 .. Len(s[k].fields)
                                /\ Len(s[k].fields) \in Nat
                                /\ \A i \in DOMAIN s[k].fields : s[k].fields[i].threshold \in Nat
<1>1. \A k \in DOMAIN s : ComponentOf(s, s[k].id) = s[k]
  <2> TAKE k \in DOMAIN s
  <2> DEFINE j == CHOOSE j \in DOMAIN s : s[j].id = s[k].id
  <2>1. j \in DOMAIN s /\ s[j].id = s[k].id
    OBVIOUS
  <2>2. ComponentOf(s, s[k].id) = s[j]
    BY DEF ComponentOf
  <2> HIDE DEF j
  <2>3. j = k
    BY <2>1 DEF ValidSchema
  <2>4. QED
    BY <2>2, <2>3
<1>2. \A c \in ComponentIds(s) : \E k \in DOMAIN s : s[k].id = c /\ ComponentOf(s, c) = s[k]
  BY <1>1 DEF ComponentIds
<1>3. \A k \in DOMAIN s : s[k] \in [id : Nat, fields : Seq([max : Nat, threshold : Nat])]
  <2> DEFINE C == [id : Nat, fields : Seq([max : Nat, threshold : Nat])]
  <2>1. s \in Seq(C)
    BY DEF ValidSchema
  <2> HIDE DEF C
  <2>2. \A k \in DOMAIN s : s[k] \in C
    BY <2>1
  <2>3. QED
    BY <2>2 DEF C
<1>4. ASSUME NEW k \in DOMAIN s
      PROVE  /\ s[k].id \in Nat
             /\ s[k].fields \in Seq([max : Nat, threshold : Nat])
             /\ DOMAIN s[k].fields = 1 .. Len(s[k].fields)
             /\ Len(s[k].fields) \in Nat
             /\ \A i \in DOMAIN s[k].fields : s[k].fields[i].threshold \in Nat
  <2>1. s[k].id \in Nat /\ s[k].fields \in Seq([max : Nat, threshold : Nat])
    BY <1>3
  <2> DEFINE fields == s[k].fields
             F == [max : Nat, threshold : Nat]
  <2>2. fields \in Seq(F)
    BY <2>1
  <2> HIDE DEF fields, F
  <2>3. /\ DOMAIN fields = 1 .. Len(fields) /\ Len(fields) \in Nat
        /\ \A i \in DOMAIN fields : fields[i] \in F
    BY <2>2
  <2>4. \A i \in DOMAIN fields : fields[i].threshold \in Nat
    BY <2>3 DEF F
  <2>5. QED
    BY <2>1, <2>3, <2>4 DEF fields
<1>5. QED
  BY <1>1, <1>2, <1>4

LEMMA EntityOfIs ==
  ASSUME NEW es, IsEntities(es), SortedById(es)
  PROVE  /\ \A e \in Range(es) : EntityOf(es, e.id) = e
         /\ \A id \in Ids(es) : EntityOf(es, id) \in Range(es) /\ EntityOf(es, id).id = id
         /\ \A e \in Range(es) : e.id \in Ids(es) /\ IsEntity(e) /\ e.id \in Nat
<1>1. /\ DOMAIN es = 1 .. Len(es) /\ Len(es) \in Nat
      /\ \A i \in DOMAIN es : IsEntity(es[i]) /\ es[i].id \in Nat
  BY DEF IsEntities
<1>2. ASSUME NEW i \in DOMAIN es, NEW j \in DOMAIN es, es[i].id = es[j].id
      PROVE  i = j
  <2>1. ~(i < j) /\ ~(j < i)
    <3>1. es[i].id \in Nat /\ es[j].id \in Nat
      BY <1>1
    <3>2. QED
      BY <1>2, <3>1 DEF SortedById
  <2>2. QED
    BY <1>1, <2>1
<1>3. ASSUME NEW id \in Ids(es)
      PROVE  LET i == CHOOSE i \in DOMAIN es : es[i].id = id IN
             i \in DOMAIN es /\ es[i].id = id /\ EntityOf(es, id) = es[i]
  <2>1. \E i \in DOMAIN es : es[i].id = id
    BY DEF Ids
  <2>2. QED
    BY <2>1 DEF EntityOf
<1>4. \A id \in Ids(es) : EntityOf(es, id) \in Range(es) /\ EntityOf(es, id).id = id
  BY <1>3 DEF Range
<1>5. \A e \in Range(es) : e.id \in Ids(es) /\ IsEntity(e) /\ e.id \in Nat
  BY <1>1 DEF Range, Ids
<1>6. ASSUME NEW i \in DOMAIN es
      PROVE  EntityOf(es, es[i].id) = es[i]
  <2>1. es[i].id \in Ids(es)
    BY DEF Ids
  <2> DEFINE j == CHOOSE j \in DOMAIN es : es[j].id = es[i].id
  <2>2. j \in DOMAIN es /\ es[j].id = es[i].id /\ EntityOf(es, es[i].id) = es[j]
    BY <2>1, <1>3
  <2> HIDE DEF j
  <2>3. j = i
    BY <2>2, <1>2
  <2>4. QED
    BY <2>2, <2>3
<1>7. \A e \in Range(es) : EntityOf(es, e.id) = e
  BY <1>6 DEF Range
<1>8. QED
  BY <1>4, <1>5, <1>7

-----------------------------------------------------------------------------
(* What changed between two snapshots of an entity. *)

(* The components that changed, by their places in the schema. *)
ChangedPlaces(s, base, curr) ==
  {k \in Shared(s, base, curr) :
     ChangedFields(s[k], base.components[s[k].id], curr.components[s[k].id]) # {}}

(* The fields of component c that changed. *)
FieldsOf(s, base, curr, c) ==
  IF c \in Both(base, curr)
  THEN ChangedFields(ComponentOf(s, c), base.components[c], curr.components[c]) ELSE {}

LEMMA ChangedComponentsAre ==
  ASSUME NEW s, ValidSchema(s), NEW base, NEW curr
  PROVE  LET places == ChangedPlaces(s, base, curr)
             order == Listed(places)
             changed == ChangedComponents(s, base, curr)
         IN /\ places \subseteq DOMAIN s /\ IsFiniteSet(places) /\ places \subseteq Int
            /\ DOMAIN changed = DOMAIN order
            /\ DOMAIN order = 1 .. Cardinality(places) /\ Cardinality(places) \in Nat
            /\ \A j \in DOMAIN order : order[j] \in places /\ changed[j] = s[order[j]]
            /\ \A k \in places : \E j \in DOMAIN order : order[j] = k
            /\ \A i, j \in DOMAIN order : i < j => order[i] < order[j]
            /\ (changed = <<>>) <=> (places = {})
<1> DEFINE places == ChangedPlaces(s, base, curr)
           order == Listed(places)
           changed == ChangedComponents(s, base, curr)
<1>1. places \subseteq DOMAIN s
  BY DEF ChangedPlaces, Shared
<1>2. DOMAIN s = 1 .. Len(s) /\ Len(s) \in Nat
  BY DEF ValidSchema
<1>3. IsFiniteSet(places) /\ places \subseteq Int
  <2>1. IsFiniteSet(1 .. Len(s))
    BY <1>2, FS_Interval
  <2>2. places \in SUBSET (1 .. Len(s))
    BY <1>1, <1>2
  <2> HIDE DEF places
  <2>3. places \subseteq Int
    BY <2>2
  <2>4. QED
    BY <2>1, <2>2, <2>3, FS_Subset
<1>4. changed = [n \in DOMAIN order |-> s[order[n]]]
  BY DEF ChangedComponents, ElementsAt, ChangedPlaces
<1> HIDE DEF places
<1>5. /\ Cardinality(places) \in Nat
      /\ DOMAIN order = 1 .. Cardinality(places)
      /\ \A n \in DOMAIN order : order[n] \in places
      /\ \A x \in places : Cardinality(UpTo(places, x)) \in DOMAIN order
                           /\ order[Cardinality(UpTo(places, x))] = x
      /\ \A m, n \in DOMAIN order : m < n => order[m] < order[n]
  BY <1>3, ListedIs
<1> HIDE DEF order, changed
<1>6. DOMAIN changed = DOMAIN order /\ \A j \in DOMAIN order : changed[j] = s[order[j]]
  BY <1>4
<1>7. \A k \in places : \E j \in DOMAIN order : order[j] = k
  BY <1>5
<1>8. (changed = <<>>) <=> (places = {})
  <2>1. places = {} <=> Cardinality(places) = 0
    BY <1>3, FS_EmptySet
  <2>2. changed \in Seq({s[k] : k \in DOMAIN s}) /\ Len(changed) = Cardinality(places)
    <3>1. changed \in [1 .. Cardinality(places) -> {s[k] : k \in DOMAIN s}]
      BY <1>1, <1>4, <1>5
    <3>2. changed \in Seq({s[k] : k \in DOMAIN s})
      BY <1>5, <3>1
    <3>3. QED
      BY <1>5, <1>6, <3>2
  <2>3. changed = <<>> <=> Len(changed) = 0
    BY <2>2
  <2>4. QED
    BY <2>1, <2>2, <2>3
<1>9. QED
  BY <1>1, <1>3, <1>5, <1>6, <1>7, <1>8 DEF places, order, changed

(* A component has its fields among those that are changed exactly when it *)
(* is one of the changed components.                                       *)
LEMMA FieldsOfAre ==
  ASSUME NEW s, ValidSchema(s), NEW base, NEW curr, NEW k \in DOMAIN s
  PROVE  /\ k \in ChangedPlaces(s, base, curr) =>
              FieldsOf(s, base, curr, s[k].id) =
                ChangedFields(s[k], base.components[s[k].id], curr.components[s[k].id])
         /\ (k \in ChangedPlaces(s, base, curr)) <=> (FieldsOf(s, base, curr, s[k].id) # {})
         /\ FieldsOf(s, base, curr, s[k].id) \subseteq DOMAIN s[k].fields
<1>1. ComponentOf(s, s[k].id) = s[k]
  BY ComponentOfIs
<1>2. ChangedFields(s[k], base.components[s[k].id], curr.components[s[k].id]) \subseteq DOMAIN s[k].fields
  BY DEF ChangedFields, Marked, FieldMask
<1>3. QED
  BY <1>1, <1>2 DEF FieldsOf, ChangedPlaces, Shared

-----------------------------------------------------------------------------
(* What an update says. *)

(* The fields of component c that changed, with their new values. *)
PairWrites(s, base, curr, c) == {<<i, curr.components[c][i]>> : i \in FieldsOf(s, base, curr, c)}

(* An update that names the components at some places in the schema, each  *)
(* with what w writes to it, where w writes nothing to any other.          *)
Names(s, places, w, update) ==
  /\ places \subseteq DOMAIN s
  /\ \A u \in Range(update.components) : \E k \in places :
       u.id = s[k].id /\ Range(u.fields) = w[s[k].id]
  /\ \A k \in places : \E u \in Range(update.components) : u.id = s[k].id
  /\ \A k \in DOMAIN s \ places : w[s[k].id] = {}

LEMMA WrittenFrom ==
  ASSUME NEW s, ValidSchema(s), NEW places, NEW w, NEW update, Names(s, places, w, update)
  PROVE  \A c \in ComponentIds(s) : Written(update, c) = w[c]
<1> USE DEF Names
<1> SUFFICES ASSUME NEW c \in ComponentIds(s)
             PROVE  Written(update, c) = w[c]
  OBVIOUS
<1>1. PICK k \in DOMAIN s : s[k].id = c
  BY DEF ComponentIds
<1> DEFINE mine == {u \in Range(update.components) : u.id = c}
<1>2. \A u \in mine : Range(u.fields) = w[c]
  OBVIOUS
<1>3. Written(update, c) = UNION {Range(u.fields) : u \in mine}
  BY DEF Written
<1>4. CASE k \in places
  <2>1. \E u \in mine : TRUE
    BY <1>1, <1>4
  <2> HIDE DEF mine
  <2>2. QED
    BY <1>2, <1>3, <2>1
<1>5. CASE k \notin places
  <2>1. w[c] = {}
    BY <1>1, <1>5
  <2> HIDE DEF mine
  <2>2. QED
    BY <1>2, <1>3, <2>1
<1>6. QED
  BY <1>4, <1>5

(* An update that names the changed components, each with the fields that  *)
(* changed, says what changed.                                             *)
LEMMA WrittenIs ==
  ASSUME NEW s, ValidSchema(s), NEW base, NEW curr, NEW update,
         \A u \in Range(update.components) : \E k \in ChangedPlaces(s, base, curr) :
           /\ u.id = s[k].id
           /\ Range(u.fields) = PairWrites(s, base, curr, s[k].id),
         \A k \in ChangedPlaces(s, base, curr) : \E u \in Range(update.components) : u.id = s[k].id
  PROVE  \A c \in ComponentIds(s) : Written(update, c) = PairWrites(s, base, curr, c)
<1> DEFINE places == ChangedPlaces(s, base, curr)
           w == [c \in ComponentIds(s) |-> PairWrites(s, base, curr, c)]
<1>1. places \subseteq DOMAIN s
  BY DEF ChangedPlaces, Shared
<1>2. \A k \in DOMAIN s : w[s[k].id] = PairWrites(s, base, curr, s[k].id)
  BY DEF ComponentIds
<1>3. \A k \in DOMAIN s \ places : w[s[k].id] = {}
  BY <1>2, FieldsOfAre DEF PairWrites
<1>4. \A c \in ComponentIds(s) : w[c] = PairWrites(s, base, curr, c)
  OBVIOUS
<1> HIDE DEF w
<1>5. \A u \in Range(update.components) : \E k \in places :
        u.id = s[k].id /\ Range(u.fields) = w[s[k].id]
  BY <1>1, <1>2
<1> HIDE DEF places
<1>6. \A k \in places : \E u \in Range(update.components) : u.id = s[k].id
  BY DEF places
<1>7. Names(s, places, w, update)
  BY <1>1, <1>3, <1>5, <1>6 DEF Names
<1>8. \A c \in ComponentIds(s) : Written(update, c) = w[c]
  BY ONLY ValidSchema(s), <1>7, WrittenFrom
<1>9. QED
  BY <1>4, <1>8

(* Pairs of an entity before and after, one for each id in the domain of   *)
(* writes, which has what changed in each component.                       *)
Covers(s, pairs, writes) ==
  /\ DOMAIN pairs = 1 .. Len(pairs) /\ Len(pairs) \in Nat
  /\ \A n \in DOMAIN pairs :
       /\ pairs[n].curr.id \in DOMAIN writes /\ pairs[n].curr.id \in Nat
       /\ ChangedPlaces(s, pairs[n].base, pairs[n].curr) # {}
       /\ \A c \in ComponentIds(s) :
            writes[pairs[n].curr.id][c] = PairWrites(s, pairs[n].base, pairs[n].curr, c)
  /\ \A id \in DOMAIN writes : \E n \in DOMAIN pairs : pairs[n].curr.id = id

(* Updates that say what writes has, and nothing else.                     *)
Says(s, updates, writes) ==
  /\ DOMAIN updates \subseteq Nat
  /\ \A n \in DOMAIN updates :
       /\ updates[n].id \in DOMAIN writes
       /\ \A c \in ComponentIds(s) : Written(updates[n], c) = writes[updates[n].id][c]
  /\ \A id \in DOMAIN writes : \E n \in DOMAIN updates : updates[n].id = id

-----------------------------------------------------------------------------
(* Sequences put after one another. *)

(* x holds the first k sequences of ss after one another: its element n is *)
(* element q[n] of sequence p[n].                                          *)
Holds(ss, k, x, p, q) ==
  /\ \A n \in DOMAIN x : /\ p[n] \in 1 .. k /\ q[n] \in 1 .. Len(ss[p[n]])
                         /\ x[n] = ss[p[n]][q[n]]
  /\ \A m, n \in DOMAIN x : m < n => p[m] < p[n] \/ (p[m] = p[n] /\ q[m] < q[n])
  /\ \A i \in 1 .. k : \A j \in 1 .. Len(ss[i]) : \E n \in DOMAIN x : p[n] = i /\ q[n] = j

LEMMA HoldsNext ==
  ASSUME NEW T, NEW ss, NEW k \in Nat, \A i \in 1 .. k + 1 : ss[i] \in Seq(T),
         NEW x \in Seq(T), NEW p, NEW q, Holds(ss, k, x, p, q)
  PROVE  \E p2, q2 : Holds(ss, k + 1, x \o ss[k + 1], p2, q2)
<1> DEFINE y == ss[k + 1]
           z == x \o y
           p2 == [n \in DOMAIN z |-> IF n <= Len(x) THEN p[n] ELSE k + 1]
           q2 == [n \in DOMAIN z |-> IF n <= Len(x) THEN q[n] ELSE n - Len(x)]
<1>1. y \in Seq(T)
  OBVIOUS
<1>2. /\ Len(x) \in Nat /\ Len(y) \in Nat /\ DOMAIN x = 1 .. Len(x)
      /\ DOMAIN z = 1 .. Len(x) + Len(y)
      /\ \A n \in 1 .. Len(x) : z[n] = x[n]
      /\ \A n \in DOMAIN z : ~(n <= Len(x)) => n - Len(x) \in 1 .. Len(y) /\ z[n] = y[n - Len(x)]
  <2> HIDE DEF y
  <2>1. z \in Seq(T) /\ Len(z) = Len(x) + Len(y)
    BY <1>1
  <2>2. QED
    BY <1>1, <2>1
<1>3. \A i \in 1 .. k + 1 : Len(ss[i]) \in Nat
  OBVIOUS
<1>4. ASSUME NEW n \in DOMAIN z
      PROVE  n \in Nat /\ (n <= Len(x) => n \in DOMAIN x /\ p2[n] = p[n] /\ q2[n] = q[n])
             /\ (~(n <= Len(x)) => p2[n] = k + 1 /\ q2[n] = n - Len(x))
  <2> HIDE DEF z
  <2>1. QED
    BY <1>2
<1> HIDE DEF z, p2, q2
<1>5. ASSUME NEW n \in DOMAIN z
      PROVE  p2[n] \in 1 .. k + 1 /\ q2[n] \in 1 .. Len(ss[p2[n]]) /\ z[n] = ss[p2[n]][q2[n]]
  <2>1. CASE n <= Len(x)
    <3>1. p[n] \in 1 .. k /\ q[n] \in 1 .. Len(ss[p[n]]) /\ x[n] = ss[p[n]][q[n]]
      BY <1>4, <2>1 DEF Holds
    <3>2. QED
      BY <1>2, <1>4, <2>1, <3>1
  <2>2. CASE ~(n <= Len(x))
    BY <1>2, <1>4, <2>2
  <2>3. QED
    BY <2>1, <2>2
<1>6. ASSUME NEW m \in DOMAIN z, NEW n \in DOMAIN z, m < n
      PROVE  p2[m] < p2[n] \/ (p2[m] = p2[n] /\ q2[m] < q2[n])
  <2>1. CASE n <= Len(x)
    <3>1. m <= Len(x)
      BY <1>2, <1>4, <1>6, <2>1
    <3>2. p[m] < p[n] \/ (p[m] = p[n] /\ q[m] < q[n])
      BY <1>4, <1>6, <2>1, <3>1 DEF Holds
    <3>3. QED
      BY <1>4, <2>1, <3>1, <3>2
  <2>2. CASE ~(n <= Len(x)) /\ m <= Len(x)
    <3>1. p[m] \in 1 .. k
      BY <1>4, <2>2 DEF Holds
    <3>2. QED
      BY <1>4, <2>2, <3>1
  <2>3. CASE ~(n <= Len(x)) /\ ~(m <= Len(x))
    BY <1>2, <1>4, <1>6, <2>3
  <2>4. QED
    BY <2>1, <2>2, <2>3
<1>7. ASSUME NEW i \in 1 .. k + 1, NEW j \in 1 .. Len(ss[i])
      PROVE  \E n \in DOMAIN z : p2[n] = i /\ q2[n] = j
  <2>1. CASE i \in 1 .. k
    <3>1. PICK n \in DOMAIN x : p[n] = i /\ q[n] = j
      BY <2>1 DEF Holds
    <3>2. n \in DOMAIN z /\ n <= Len(x)
      BY <1>2
    <3>3. QED
      BY <1>4, <3>1, <3>2
  <2>2. CASE i = k + 1
    <3>1. j + Len(x) \in DOMAIN z /\ ~(j + Len(x) <= Len(x)) /\ (j + Len(x)) - Len(x) = j
      BY <1>2, <2>2
    <3>2. QED
      BY <1>4, <2>2, <3>1
  <2>3. QED
    BY <2>1, <2>2
<1>8. Holds(ss, k + 1, z, p2, q2)
  BY <1>5, <1>6, <1>7 DEF Holds
<1>9. QED
  BY <1>8 DEF z

(* FlattenSeq is a function defined on the length of its argument.         *)
FlatUpTo(ss, m, f) ==
  f = [i \in 1 .. m |-> IF i = 1 THEN ss[i] ELSE f[i - 1] \o ss[i]]

LEMMA FlatExists ==
  ASSUME NEW T, NEW ss \in Seq(Seq(T))
  PROVE  \A m \in 1 .. Len(ss) : \E f \in [1 .. m -> Seq(T)] : FlatUpTo(ss, m, f)
<1> DEFINE Bad == {m \in 1 .. Len(ss) : ~ \E f \in [1 .. m -> Seq(T)] : FlatUpTo(ss, m, f)}
<1>1. Len(ss) \in Nat /\ \A i \in 1 .. Len(ss) : ss[i] \in Seq(T)
  OBVIOUS
<1>2. SUFFICES ASSUME Bad # {} PROVE FALSE
  OBVIOUS
<1>3. PICK m \in Bad : \A n \in Bad : m <= n
  <2>1. Bad \subseteq Nat
    OBVIOUS
  <2> HIDE DEF Bad
  <2>2. QED
    BY <1>2, <2>1, LeastNatural
<1>4. m \in 1 .. Len(ss) /\ ~ \E f \in [1 .. m -> Seq(T)] : FlatUpTo(ss, m, f)
  OBVIOUS
<1>5. CASE m = 1
  <2> DEFINE f == [i \in 1 .. 1 |-> ss[1]]
  <2>1. f \in [1 .. m -> Seq(T)]
    BY <1>1, <1>4, <1>5
  <2>2. FlatUpTo(ss, m, f)
    BY <1>5 DEF FlatUpTo
  <2>3. QED
    BY <1>4, <2>1, <2>2
<1>6. CASE m # 1
  <2>1. m - 1 \in 1 .. Len(ss) /\ m - 1 \notin Bad
    <3>1. m - 1 \in 1 .. Len(ss) /\ ~(m <= m - 1)
      BY <1>1, <1>4, <1>6
    <3> HIDE DEF Bad
    <3>2. QED
      BY <1>3, <3>1
  <2>2. PICK g \in [1 .. m - 1 -> Seq(T)] : FlatUpTo(ss, m - 1, g)
    BY <2>1
  <2> DEFINE f == [i \in 1 .. m |-> IF i = m THEN g[m - 1] \o ss[m] ELSE g[i]]
  <2>3. f \in [1 .. m -> Seq(T)]
    <3>1. g[m - 1] \o ss[m] \in Seq(T)
      BY <1>1, <1>4, <1>6, <2>2
    <3>2. \A i \in 1 .. m : i # m => g[i] \in Seq(T)
      BY <1>1, <1>4
    <3>3. QED
      BY <3>1, <3>2
  <2>4. ASSUME NEW i \in 1 .. m
        PROVE  f[i] = IF i = 1 THEN ss[i] ELSE f[i - 1] \o ss[i]
    <3>1. CASE i = m
      <4>1. f[i - 1] = g[m - 1]
        BY <1>4, <1>6, <3>1
      <4>2. QED
        BY <1>6, <3>1, <4>1
    <3>2. CASE i # m
      <4>1. i \in 1 .. m - 1
        BY <1>4, <3>2
      <4>2. g[i] = IF i = 1 THEN ss[i] ELSE g[i - 1] \o ss[i]
        BY <2>2, <4>1 DEF FlatUpTo
      <4>3. f[i] = g[i] /\ (i # 1 => f[i - 1] = g[i - 1])
        BY <1>4, <3>2, <4>1
      <4>4. QED
        BY <4>2, <4>3
    <3>3. QED
      BY <3>1, <3>2
  <2>5. FlatUpTo(ss, m, f)
    <3>1. DOMAIN f = 1 .. m
      OBVIOUS
    <3>2. f = [i \in 1 .. m |-> f[i]]
      OBVIOUS
    <3> HIDE DEF f
    <3>3. QED
      BY <3>1, <3>2, <2>4 DEF FlatUpTo
  <2>6. QED
    BY <1>4, <2>3, <2>5
<1>7. QED
  BY <1>5, <1>6

LEMMA FlattenIs ==
  ASSUME NEW T, NEW ss \in Seq(Seq(T))
  PROVE  /\ FlattenSeq(ss) \in Seq(T)
         /\ \E p, q : Holds(ss, Len(ss), FlattenSeq(ss), p, q)
<1> DEFINE N == Len(ss)
<1>1. N \in Nat /\ \A i \in 1 .. N : ss[i] \in Seq(T)
  OBVIOUS
<1>2. CASE N = 0
  <2>1. ss = <<>>
    BY <1>2
  <2>2. FlattenSeq(ss) = <<>>
    BY <2>1, <1>2 DEF FlattenSeq
  <2>3. Holds(ss, N, <<>>, <<>>, <<>>)
    BY <1>2 DEF Holds
  <2>4. QED
    BY <2>2, <2>3
<1>3. CASE N # 0
  <2> DEFINE f == CHOOSE f : f = [i \in 1 .. N |-> IF i = 1 THEN ss[i] ELSE f[i - 1] \o ss[i]]
  <2>1. FlattenSeq(ss) = f[N]
    BY <1>3 DEF FlattenSeq
  <2>2. N \in 1 .. N
    BY <1>1, <1>3
  <2>3. f = [i \in 1 .. N |-> IF i = 1 THEN ss[i] ELSE f[i - 1] \o ss[i]]
    <3>1. \E g : g = [i \in 1 .. N |-> IF i = 1 THEN ss[i] ELSE g[i - 1] \o ss[i]]
      <4>1. PICK g \in [1 .. N -> Seq(T)] : FlatUpTo(ss, N, g)
        BY <2>2, FlatExists
      <4>2. QED
        BY <4>1 DEF FlatUpTo
    <3>2. QED
      BY <3>1
  <2> HIDE DEF f
  <2>4. \A i \in 1 .. N : f[i] = IF i = 1 THEN ss[i] ELSE f[i - 1] \o ss[i]
    BY <2>3
  <2> DEFINE Good(i) == f[i] \in Seq(T) /\ \E p, q : Holds(ss, i, f[i], p, q)
             Bad == {i \in 1 .. N : ~Good(i)}
  <2>5. Bad = {}
    <3>1. SUFFICES ASSUME Bad # {} PROVE FALSE
      OBVIOUS
    <3>2. PICK m \in Bad : \A n \in Bad : m <= n
      <4>1. Bad \subseteq Nat
        OBVIOUS
      <4> HIDE DEF Bad
      <4>2. QED
        BY <3>1, <4>1, LeastNatural
    <3>3. CASE m = 1
      <4>1. f[1] = ss[1] /\ ss[1] \in Seq(T)
        BY <1>1, <2>2, <2>4
      <4> DEFINE p == [n \in DOMAIN ss[1] |-> 1]
                 q == [n \in DOMAIN ss[1] |-> n]
      <4>2. DOMAIN ss[1] = 1 .. Len(ss[1]) /\ Len(ss[1]) \in Nat
        BY <4>1
      <4>3. Holds(ss, 1, ss[1], p, q)
        <5>1. \A n \in DOMAIN ss[1] : p[n] = 1 /\ q[n] = n
          OBVIOUS
        <5> HIDE DEF p, q
        <5>2. QED
          BY <4>2, <5>1 DEF Holds
      <4> HIDE DEF p, q
      <4>4. Good(1)
        BY <4>1, <4>3
      <4>5. QED
        BY <3>3, <4>4
    <3>4. CASE m # 1
      <4>1. m \in 1 .. N /\ m - 1 \in 1 .. N /\ m - 1 \notin Bad
        <5>1. m \in 1 .. N
          OBVIOUS
        <5>2. m - 1 \in 1 .. N /\ ~(m <= m - 1)
          BY <1>1, <3>4, <5>1
        <5> HIDE DEF Bad
        <5>3. QED
          BY <3>2, <5>1, <5>2
      <4>2. Good(m - 1)
        BY <4>1
      <4>3. PICK p, q : Holds(ss, m - 1, f[m - 1], p, q)
        BY <4>2
      <4>4. f[m] = f[m - 1] \o ss[m] /\ ss[m] \in Seq(T) /\ f[m - 1] \in Seq(T)
        BY <1>1, <2>4, <3>4, <4>1, <4>2
      <4>5. m - 1 \in Nat /\ (m - 1) + 1 = m /\ \A i \in 1 .. (m - 1) + 1 : ss[i] \in Seq(T)
        BY <1>1, <4>1
      <4>6. \E p2, q2 : Holds(ss, (m - 1) + 1, f[m - 1] \o ss[(m - 1) + 1], p2, q2)
        BY ONLY <4>3, <4>4, <4>5, HoldsNext
      <4>7. Good(m)
        <5>1. f[m] \in Seq(T)
          BY ONLY <4>4
        <5>2. \E p2, q2 : Holds(ss, m, f[m], p2, q2)
          BY ONLY <4>4, <4>5, <4>6
        <5>3. QED
          BY <5>1, <5>2
      <4>8. QED
        BY <4>7
    <3>5. QED
      BY <3>3, <3>4
  <2>6. Good(N)
    BY <2>2, <2>5
  <2>7. QED
    BY <2>1, <2>6
<1>4. QED
  BY <1>2, <1>3

-----------------------------------------------------------------------------
(* What a decoder reads from the entries of an update section. *)

IsList(x) == Len(x) \in Nat /\ DOMAIN x = 1 .. Len(x) /\ x = [i \in DOMAIN x |-> x[i]]

LEMMA ListsAre ==
  ASSUME NEW n \in Nat, NEW x, DOMAIN x = 1 .. n, x = [i \in DOMAIN x |-> x[i]]
  PROVE  IsList(x) /\ Len(x) = n /\ x \in Seq(Range(x))
<1>1. x \in [1 .. n -> Range(x)]
  BY DEF Range
<1>2. x \in Seq(Range(x)) /\ Len(x) = n
  BY <1>1
<1>3. QED
  BY <1>2 DEF IsList

LEMMA AppendedIs ==
  ASSUME NEW x, IsList(x)
  PROVE  Appended(x, <<>>) = x /\ Appended(<<>>, x) = x
<1>1. x \in Seq(Range(x))
  BY ListsAre DEF IsList
<1>2. QED
  BY <1>1 DEF Appended

LEMMA ElementsAre ==
  ASSUME NEW x, DOMAIN x = 1 .. Len(x), Len(x) \in Nat, NEW places, places \subseteq DOMAIN x
  PROVE  /\ IsList(ElementsAt(x, places))
         /\ Range(ElementsAt(x, places)) = {x[i] : i \in places}
<1> DEFINE order == Listed(places)
           some == ElementsAt(x, places)
<1>1. places \subseteq Int /\ IsFiniteSet(places)
  <2>1. IsFiniteSet(1 .. Len(x)) /\ places \in SUBSET (1 .. Len(x))
    BY FS_Interval
  <2>2. places \subseteq Int
    BY <2>1
  <2>3. QED
    BY <2>1, <2>2, FS_Subset
<1>2. /\ Cardinality(places) \in Nat
      /\ DOMAIN order = 1 .. Cardinality(places)
      /\ \A n \in DOMAIN order : order[n] \in places
      /\ \A k \in places : \E n \in DOMAIN order : order[n] = k
  BY <1>1, ListedIs
<1>3. some = [n \in DOMAIN order |-> x[order[n]]]
  BY DEF ElementsAt
<1> HIDE DEF order, some
<1>4. DOMAIN some = 1 .. Cardinality(places) /\ some = [n \in DOMAIN some |-> some[n]]
  BY <1>2, <1>3
<1>5. IsList(some)
  BY <1>2, <1>4, ListsAre
<1>6. Range(some) = {x[i] : i \in places}
  <2>1. Range(some) \subseteq {x[i] : i \in places}
    BY <1>2, <1>3 DEF Range
  <2>2. \A i \in places : x[i] \in Range(some)
    BY <1>2, <1>3 DEF Range
  <2>3. QED
    BY <2>1, <2>2
<1>7. QED
  BY <1>5, <1>6 DEF some

(* The elements of x that come from sequence k are that sequence.          *)
LEMMA PiecesAre ==
  ASSUME NEW ss, NEW N, NEW x, NEW p, NEW q, Holds(ss, N, x, p, q),
         DOMAIN x = 1 .. Len(x), Len(x) \in Nat,
         NEW k \in 1 .. N, IsList(ss[k])
  PROVE  ElementsAt(x, {n \in DOMAIN x : p[n] = k}) = ss[k]
<1> DEFINE places == {n \in DOMAIN x : p[n] = k}
           order == Listed(places)
           K == Cardinality(places)
           f == [m \in 1 .. K |-> q[order[m]]]
<1>1. /\ K \in Nat /\ DOMAIN order = 1 .. K
      /\ \A m \in 1 .. K : order[m] \in places
      /\ \A n \in places : \E m \in 1 .. K : order[m] = n
      /\ \A m, n \in 1 .. K : m < n => order[m] < order[n]
  <2>1. places \subseteq Int /\ IsFiniteSet(places)
    <3>1. IsFiniteSet(1 .. Len(x)) /\ places \in SUBSET (1 .. Len(x))
      BY FS_Interval
    <3>2. places \subseteq Int
      BY <3>1
    <3>3. QED
      BY <3>1, <3>2, FS_Subset
  <2>2. /\ K \in Nat /\ DOMAIN order = 1 .. K
        /\ \A n \in DOMAIN order : order[n] \in places
        /\ \A n \in places : /\ Cardinality(UpTo(places, n)) \in DOMAIN order
                             /\ order[Cardinality(UpTo(places, n))] = n
        /\ \A m, n \in DOMAIN order : m < n => order[m] < order[n]
    BY <2>1, ListedIs
  <2> HIDE DEF K, order, places
  <2>3. QED
    BY <2>2
<1>2. \A n \in places : n \in DOMAIN x /\ p[n] = k
  OBVIOUS
<1>3. \A n \in DOMAIN x : p[n] = k => n \in places
  OBVIOUS
<1>4. ElementsAt(x, places) = [m \in DOMAIN order |-> x[order[m]]]
  BY DEF ElementsAt
<1>5. Len(ss[k]) \in Nat /\ DOMAIN ss[k] = 1 .. Len(ss[k]) /\ ss[k] = [m \in DOMAIN ss[k] |-> ss[k][m]]
  BY DEF IsList
<1> HIDE DEF K, order, places
<1>6. \A m \in 1 .. K : /\ f[m] \in 1 .. Len(ss[k])
                        /\ x[order[m]] = ss[k][f[m]]
  BY <1>1, <1>2 DEF Holds
<1>7. \A m, n \in 1 .. K : m < n => f[m] < f[n]
  <2> TAKE m, n \in 1 .. K
  <2> HAVE m < n
  <2>1. order[m] \in DOMAIN x /\ order[n] \in DOMAIN x /\ order[m] < order[n]
        /\ p[order[m]] = k /\ p[order[n]] = k
    BY <1>1, <1>2
  <2>2. q[order[m]] < q[order[n]]
    BY <2>1 DEF Holds
  <2>3. QED
    BY <2>2
<1>8. \A i \in 1 .. Len(ss[k]) : \E m \in 1 .. K : f[m] = i
  <2> TAKE i \in 1 .. Len(ss[k])
  <2>1. PICK n \in DOMAIN x : p[n] = k /\ q[n] = i
    BY DEF Holds
  <2>2. PICK m \in 1 .. K : order[m] = n
    BY <1>1, <1>3, <2>1
  <2>3. QED
    BY <2>1, <2>2
<1> HIDE DEF f
<1>9. K = Len(ss[k]) /\ \A m \in 1 .. K : f[m] = m
  <2>1. IsOrder(K, Len(ss[k]), f)
    BY <1>1, <1>5, <1>6, <1>7, <1>8 DEF IsOrder
  <2>2. QED
    BY <2>1, OrderIsIdentity
<1>10. [m \in DOMAIN order |-> x[order[m]]] = [m \in DOMAIN ss[k] |-> ss[k][m]]
  BY <1>1, <1>5, <1>6, <1>9
<1>11. QED
  BY <1>4, <1>5, <1>10 DEF places

(* What a set of entries gives for the fields of component c of an entity. *)
Given(E, id, c) == UNION {Range(e.fields) : e \in {e \in E : e.entity = id /\ e.component = c}}

Tells(s, E, writes) ==
  /\ \A e \in E : e.entity \in DOMAIN writes
  /\ \A id \in DOMAIN writes : \E e \in E : e.entity = id
  /\ \A id \in DOMAIN writes : \A c \in ComponentIds(s) : Given(E, id, c) = writes[id][c]

(* The entries of an entity, as the components of its update.              *)
Regrouped(id, entries) ==
  [id |-> id,
   components |-> [j \in DOMAIN entries |->
                     [id |-> entries[j].component, fields |-> entries[j].fields]]]

LEMMA RegroupedIs ==
  ASSUME NEW body, NEW id, NEW entries,
         Range(entries) = {e \in Range(body) : e.entity = id}
  PROVE  \A c : Written(Regrouped(id, entries), c) = Given(Range(body), id, c)
<1> TAKE c
<1> DEFINE said(e) == [id |-> e.component, fields |-> e.fields]
           u == Regrouped(id, entries)
           mine == {e \in Range(body) : e.entity = id /\ e.component = c}
<1>1. Range(u.components) = {said(e) : e \in Range(entries)}
  <2>1. u.components = [j \in DOMAIN entries |-> said(entries[j])]
    BY DEF Regrouped
  <2>2. QED
    BY <2>1 DEF Range
<1> HIDE DEF u
<1>2. {x \in Range(u.components) : x.id = c} = {said(e) : e \in mine}
  <2>1. ASSUME NEW e
        PROVE  said(e).id = e.component
    OBVIOUS
  <2> HIDE DEF said
  <2>2. \A x \in Range(u.components) : x.id = c => x \in {said(e) : e \in mine}
    BY <1>1, <2>1
  <2>3. \A e \in mine : said(e) \in Range(u.components) /\ said(e).id = c
    BY <1>1, <2>1
  <2>4. QED
    BY <2>2, <2>3
<1>3. UNION {Range(x.fields) : x \in {said(e) : e \in mine}} = UNION {Range(e.fields) : e \in mine}
  <2> HIDE DEF mine
  <2>1. \A e \in mine : said(e).fields = e.fields
    OBVIOUS
  <2> HIDE DEF said
  <2>2. QED
    BY <2>1
<1>4. QED
  BY <1>2, <1>3 DEF Written, Given, u

LEMMA SparseSays ==
  ASSUME NEW s, NEW lim, NEW writes, DOMAIN writes \subseteq Nat,
         NEW body, DOMAIN body = 1 .. Len(body), Len(body) \in Nat,
         Tells(s, Range(body), writes), DecodeSparse(s, lim, body).ok
  PROVE  /\ IsList(DecodeSparse(s, lim, body).val)
         /\ Says(s, DecodeSparse(s, lim, body).val, writes)
<1> DEFINE named == {body[i].entity : i \in DOMAIN body}
           ids == Listed(named)
           of(id) == ElementsAt(body, {i \in DOMAIN body : body[i].entity = id})
           read == DecodeSparse(s, lim, body).val
<1>1. read = [n \in DOMAIN ids |-> Regrouped(ids[n], of(ids[n]))]
  <2>1. \A error : \A v : Checked(error, v).ok => Checked(error, v).val = v
    BY DEF Checked, Ok, Err
  <2>2. QED
    BY <2>1 DEF DecodeSparse, Regrouped
<1>2. named = DOMAIN writes
  <2>1. named = {e.entity : e \in Range(body)}
    BY DEF Range
  <2> HIDE DEF named
  <2>2. QED
    BY <2>1 DEF Tells
<1>3. IsFiniteSet(named) /\ named \subseteq Int
  <2>1. IsFiniteSet(DOMAIN body)
    BY FS_Interval
  <2> DEFINE f == [i \in DOMAIN body |-> body[i].entity]
  <2>2. IsFiniteSet(named)
    <3>1. f \in Surjection(DOMAIN body, named)
      BY DEF Surjection
    <3> HIDE DEF f, named
    <3>2. QED
      BY <2>1, <3>1, FS_Surjection
  <2>3. QED
    BY <1>2, <2>2
<1>4. /\ Cardinality(named) \in Nat /\ DOMAIN ids = 1 .. Cardinality(named)
      /\ \A n \in DOMAIN ids : ids[n] \in named
      /\ \A id \in named : \E n \in DOMAIN ids : ids[n] = id
  <2> HIDE DEF named, of, read
  <2>1. /\ Cardinality(named) \in Nat /\ DOMAIN ids = 1 .. Cardinality(named)
        /\ \A n \in DOMAIN ids : ids[n] \in named
        /\ \A id \in named : /\ Cardinality(UpTo(named, id)) \in DOMAIN ids
                              /\ ids[Cardinality(UpTo(named, id))] = id
    BY ONLY <1>3, ListedIs DEF ids
  <2> HIDE DEF ids
  <2>2. QED
    BY ONLY <2>1
<1>5. \A id : Range(of(id)) = {e \in Range(body) : e.entity = id}
  <2> TAKE id
  <2> DEFINE places == {i \in DOMAIN body : body[i].entity = id}
  <2>1. Range(ElementsAt(body, places)) = {body[i] : i \in places}
    BY ElementsAre
  <2>2. {body[i] : i \in places} = {e \in Range(body) : e.entity = id}
    BY DEF Range
  <2>3. QED
    BY <2>1, <2>2
<1> HIDE DEF named, ids, of, read
<1>6. /\ DOMAIN read = DOMAIN ids /\ read = [n \in DOMAIN read |-> read[n]]
      /\ \A n \in DOMAIN read : read[n] = Regrouped(ids[n], of(ids[n]))
  BY <1>1
<1>7. IsList(read)
  BY <1>4, <1>6, ListsAre
<1>8. ASSUME NEW n \in DOMAIN read
      PROVE  /\ read[n].id = ids[n] /\ ids[n] \in DOMAIN writes
             /\ \A c \in ComponentIds(s) : Written(read[n], c) = writes[ids[n]][c]
  <2>1. read[n].id = ids[n]
    BY <1>6 DEF Regrouped
  <2>2. ids[n] \in DOMAIN writes
    BY <1>2, <1>4, <1>6
  <2>3. \A c : Written(read[n], c) = Given(Range(body), ids[n], c)
    BY <1>5, <1>6, RegroupedIs
  <2>4. QED
    BY <2>1, <2>2, <2>3 DEF Tells
<1>9. DOMAIN read \subseteq Nat
  BY <1>4, <1>6
<1>10. \A id \in DOMAIN writes : \E n \in DOMAIN read : read[n].id = id
  BY <1>2, <1>4, <1>6, <1>8
<1>11. Says(s, read, writes)
  BY <1>8, <1>9, <1>10 DEF Says
<1>12. QED
  BY <1>7, <1>11 DEF read

(* Entity by entity, the entries of a section tell what writes has.        *)
LEMMA FlatTells ==
  ASSUME NEW s, NEW writes, NEW T, NEW ss \in Seq(Seq(T)), NEW ids,
         \A n \in DOMAIN ss :
           /\ ids[n] \in DOMAIN writes
           /\ \A e \in Range(ss[n]) : e.entity = ids[n]
           /\ ss[n] # <<>>
           /\ \A c \in ComponentIds(s) : Given(Range(ss[n]), ids[n], c) = writes[ids[n]][c],
         \A id \in DOMAIN writes : \E n \in DOMAIN ss : ids[n] = id
  PROVE  /\ FlattenSeq(ss) \in Seq(T)
         /\ Tells(s, Range(FlattenSeq(ss)), writes)
<1> DEFINE x == FlattenSeq(ss)
<1>1. x \in Seq(T) /\ \E p, q : Holds(ss, Len(ss), x, p, q)
  BY FlattenIs
<1> HIDE DEF x
<1>2. PICK p, q : Holds(ss, Len(ss), x, p, q)
  BY <1>1
<1>3. /\ DOMAIN ss = 1 .. Len(ss) /\ Len(ss) \in Nat
      /\ \A n \in DOMAIN ss : DOMAIN ss[n] = 1 .. Len(ss[n]) /\ Len(ss[n]) \in Nat
                              /\ (ss[n] # <<>> => 1 \in DOMAIN ss[n])
  <2>1. DOMAIN ss = 1 .. Len(ss) /\ Len(ss) \in Nat
    OBVIOUS
  <2>2. ASSUME NEW n \in DOMAIN ss
        PROVE  DOMAIN ss[n] = 1 .. Len(ss[n]) /\ Len(ss[n]) \in Nat
               /\ (ss[n] # <<>> => 1 \in DOMAIN ss[n])
    <3>1. ss[n] \in Seq(T)
      BY <2>1
    <3>2. QED
      BY <3>1
  <2>3. QED
    BY <2>1, <2>2
<1>4. \A e \in Range(x) : \E n \in DOMAIN ss : e \in Range(ss[n])
  BY <1>2, <1>3 DEF Holds, Range
<1>5. \A n \in DOMAIN ss : Range(ss[n]) \subseteq Range(x)
  <2>1. ASSUME NEW n \in DOMAIN ss, NEW j \in DOMAIN ss[n]
        PROVE  ss[n][j] \in Range(x)
    <3>1. PICK i \in DOMAIN x : p[i] = n /\ q[i] = j
      <4>1. n \in 1 .. Len(ss) /\ j \in 1 .. Len(ss[n])
        BY <1>3
      <4>2. \A m \in 1 .. Len(ss) : \A l \in 1 .. Len(ss[m]) : \E i \in DOMAIN x : p[i] = m /\ q[i] = l
        BY ONLY <1>2 DEF Holds
      <4>3. QED
        BY ONLY <4>1, <4>2
    <3>2. x[i] = ss[n][j]
      BY <1>2, <3>1 DEF Holds
    <3>3. QED
      BY <3>2 DEF Range
  <2>2. QED
    BY <2>1 DEF Range
<1>6. \A e \in Range(x) : e.entity \in DOMAIN writes
  BY <1>4
<1>7. \A id \in DOMAIN writes : \E e \in Range(x) : e.entity = id
  <2> TAKE id \in DOMAIN writes
  <2>1. PICK n \in DOMAIN ss : ids[n] = id
    OBVIOUS
  <2>2. ss[n][1] \in Range(ss[n])
    BY <1>3 DEF Range
  <2>3. QED
    BY <1>5, <2>1, <2>2
<1>8. ASSUME NEW id \in DOMAIN writes, NEW c \in ComponentIds(s)
      PROVE  Given(Range(x), id, c) = writes[id][c]
  <2> DEFINE mine == {e \in Range(x) : e.entity = id /\ e.component = c}
  <2>1. ASSUME NEW n \in DOMAIN ss, ids[n] = id
        PROVE  writes[id][c] = UNION {Range(e.fields) : e \in {e \in Range(ss[n]) : e.entity = id /\ e.component = c}}
    <3>1. Given(Range(ss[n]), ids[n], c) = writes[ids[n]][c]
      OBVIOUS
    <3>2. QED
      BY <2>1, <3>1 DEF Given
  <2>2. ASSUME NEW w \in writes[id][c]
        PROVE  \E e \in mine : w \in Range(e.fields)
    <3>1. PICK n \in DOMAIN ss : ids[n] = id
      OBVIOUS
    <3>2. PICK e \in Range(ss[n]) : e.entity = id /\ e.component = c /\ w \in Range(e.fields)
      <4>1. w \in UNION {Range(e.fields) : e \in {e \in Range(ss[n]) : e.entity = id /\ e.component = c}}
        BY <2>1, <3>1
      <4>2. QED
        BY ONLY <4>1
    <3>3. QED
      BY <1>5, <3>2
  <2>3. ASSUME NEW e \in mine, NEW w \in Range(e.fields)
        PROVE  w \in writes[id][c]
    <3>1. PICK n \in DOMAIN ss : e \in Range(ss[n])
      BY <1>4
    <3>2. ids[n] = id
      BY <3>1
    <3>3. w \in UNION {Range(a.fields) : a \in {a \in Range(ss[n]) : a.entity = id /\ a.component = c}}
      <4>1. e \in Range(ss[n]) /\ e.entity = id /\ e.component = c /\ w \in Range(e.fields)
        BY <3>1
      <4>2. QED
        BY ONLY <4>1
    <3>4. writes[id][c] =
            UNION {Range(a.fields) : a \in {a \in Range(ss[n]) : a.entity = id /\ a.component = c}}
      BY <2>1, <3>2
    <3>5. QED
      BY ONLY <3>3, <3>4
  <2> HIDE DEF mine
  <2>4. UNION {Range(e.fields) : e \in mine} = writes[id][c]
    BY <2>2, <2>3
  <2>5. QED
    BY <2>4 DEF Given, mine
<1>9. QED
  BY <1>1, <1>6, <1>7, <1>8 DEF Tells, x

-----------------------------------------------------------------------------
(* The three encodings of the updates. *)

LEMMA RemainderIs ==
  ASSUME NEW a \in Nat, NEW m \in Nat, a < m
  PROVE  a % m = a
OBVIOUS

(* The bits of an index hold every index there is.                         *)
Indexed(s) ==
  \A k \in DOMAIN s : \A n \in 0 .. Len(s[k].fields) : 2 ^ n \in Nat /\ n < 2 ^ n

LEMMA PackedIndexIs ==
  ASSUME NEW s, ValidSchema(s), Indexed(s), NEW k \in DOMAIN s, NEW i \in DOMAIN s[k].fields
  PROVE  PackedIndex(s[k], i) = i
<1> DEFINE range == Len(s[k].fields) - 1
           enough == {n \in 0 .. range : range < 2 ^ n}
           b == IndexBits(s[k])
<1>1. /\ DOMAIN s[k].fields = 1 .. Len(s[k].fields) /\ Len(s[k].fields) \in Nat
      /\ s[k].fields \in Seq([max : Nat, threshold : Nat])
  BY ComponentOfIs
<1>2. i \in 1 .. Len(s[k].fields) /\ range \in Nat /\ s[k].fields # <<>>
  BY <1>1
<1>3. b = Min(enough)
  BY <1>2 DEF IndexBits, RequiredBits
<1>4. \A n \in 0 .. range : 2 ^ n \in Nat /\ n < 2 ^ n
  <2>1. \A n \in 0 .. range : n \in 0 .. Len(s[k].fields)
    BY <1>1, <1>2
  <2>2. QED
    BY <2>1 DEF Indexed
<1>5. enough \subseteq Nat /\ range \in enough
  <2> HIDE DEF range
  <2>1. QED
    BY <1>2, <1>4
<1>6. Min(enough) \in enough
  <2> HIDE DEF enough
  <2>1. \E m \in enough : \A n \in enough : m <= n
    BY <1>5, LeastNatural
  <2>2. QED
    BY <2>1 DEF Min
<1>7. b \in 0 .. range /\ range < 2 ^ b /\ 2 ^ b \in Nat
  <2> HIDE DEF b
  <2>1. QED
    BY <1>3, <1>4, <1>6
<1>8. (i - 1) % (2 ^ b) = i - 1
  <2> DEFINE m == 2 ^ b
  <2>1. i - 1 \in Nat /\ m \in Nat /\ i - 1 < m
    <3>1. i - 1 \in Nat /\ i - 1 <= range
      BY <1>1, <1>2
    <3> HIDE DEF b, range
    <3>2. QED
      BY <1>2, <1>7, <3>1
  <2> HIDE DEF m, b
  <2>2. (i - 1) % m = i - 1
    BY <2>1, RemainderIs
  <2>3. QED
    BY <2>2 DEF m
<1> HIDE DEF b
<1>9. QED
  BY <1>2, <1>8 DEF PackedIndex, b

LEMMA ChangedFieldsAre ==
  ASSUME NEW s, ValidSchema(s), NEW k \in DOMAIN s, NEW base, NEW curr
  PROVE  LET changed == ChangedFields(s[k], base, curr) IN
         /\ changed \subseteq DOMAIN s[k].fields /\ IsFiniteSet(changed) /\ changed \subseteq Int
         /\ \A n \in DOMAIN Listed(changed) : Listed(changed)[n] \in changed
         /\ \A i \in changed : \E n \in DOMAIN Listed(changed) : Listed(changed)[n] = i
<1> DEFINE changed == ChangedFields(s[k], base, curr)
<1>1. changed \subseteq DOMAIN s[k].fields
  BY DEF ChangedFields, Marked, FieldMask
<1>2. DOMAIN s[k].fields = 1 .. Len(s[k].fields) /\ Len(s[k].fields) \in Nat
  BY ComponentOfIs
<1> HIDE DEF changed
<1>3. IsFiniteSet(changed) /\ changed \subseteq Int
  <2>1. IsFiniteSet(1 .. Len(s[k].fields))
    BY <1>2, FS_Interval
  <2>2. changed \in SUBSET (1 .. Len(s[k].fields))
    BY <1>1, <1>2
  <2>3. changed \subseteq Int
    BY <2>2
  <2>4. QED
    BY <2>1, <2>2, <2>3, FS_Subset
<1>4. /\ \A n \in DOMAIN Listed(changed) : Listed(changed)[n] \in changed
      /\ \A i \in changed : \E n \in DOMAIN Listed(changed) : Listed(changed)[n] = i
  <2>1. /\ \A n \in DOMAIN Listed(changed) : Listed(changed)[n] \in changed
        /\ \A x \in changed : /\ Cardinality(UpTo(changed, x)) \in DOMAIN Listed(changed)
                              /\ Listed(changed)[Cardinality(UpTo(changed, x))] = x
    BY ONLY <1>3, ListedIs
  <2>2. QED
    BY <2>1
<1>5. QED
  BY <1>1, <1>3, <1>4 DEF changed

(* The entries of a pair, the indices as they are.                         *)
EntryOf(c, base, curr) ==
  [entity |-> curr.id, component |-> c.id,
   fields |-> [n \in DOMAIN Listed(ChangedFields(c, base.components[c.id], curr.components[c.id])) |->
     <<Listed(ChangedFields(c, base.components[c.id], curr.components[c.id]))[n],
       curr.components[c.id][Listed(ChangedFields(c, base.components[c.id], curr.components[c.id]))[n]]>>]]

Entries(s, base, curr) ==
  [j \in DOMAIN ChangedComponents(s, base, curr) |->
     EntryOf(ChangedComponents(s, base, curr)[j], base, curr)]

LEMMA VarintEntriesAre ==
  ASSUME NEW s, NEW pair
  PROVE  SparseEntries(s, pair, VarintIndex) = Entries(s, pair.base, pair.curr)
BY DEF SparseEntries, VarintIndex, Entries, EntryOf

LEMMA PackedEntriesAre ==
  ASSUME NEW s, ValidSchema(s), Indexed(s), NEW pair
  PROVE  SparseEntries(s, pair, PackedIndex) = Entries(s, pair.base, pair.curr)
<1> DEFINE changed == ChangedComponents(s, pair.base, pair.curr)
           listed(c) == Listed(ChangedFields(c, pair.base.components[c.id], pair.curr.components[c.id]))
           packed(c) == [entity |-> pair.curr.id, component |-> c.id,
                         fields |-> [n \in DOMAIN listed(c) |->
                           <<PackedIndex(c, listed(c)[n]), pair.curr.components[c.id][listed(c)[n]]>>]]
<1>1. SparseEntries(s, pair, PackedIndex) = [j \in DOMAIN changed |-> packed(changed[j])]
  BY DEF SparseEntries
<1>2. Entries(s, pair.base, pair.curr) = [j \in DOMAIN changed |-> EntryOf(changed[j], pair.base, pair.curr)]
  BY DEF Entries
<1>3. ASSUME NEW j \in DOMAIN changed
      PROVE  packed(changed[j]) = EntryOf(changed[j], pair.base, pair.curr)
  <2>1. \E k \in DOMAIN s : changed[j] = s[k]
    BY ChangedComponentsAre
  <2>2. PICK k \in DOMAIN s : changed[j] = s[k]
    BY <2>1
  <2> DEFINE c == s[k]
  <2>3. \A n \in DOMAIN listed(c) : listed(c)[n] \in DOMAIN c.fields
    BY ChangedFieldsAre
  <2>4. \A n \in DOMAIN listed(c) : PackedIndex(c, listed(c)[n]) = listed(c)[n]
    <3> HIDE DEF listed
    <3>1. QED
      BY <2>3, PackedIndexIs
  <2>5. EntryOf(c, pair.base, pair.curr) =
          [entity |-> pair.curr.id, component |-> c.id,
           fields |-> [n \in DOMAIN listed(c) |->
             <<listed(c)[n], pair.curr.components[c.id][listed(c)[n]]>>]]
    BY DEF EntryOf
  <2> HIDE DEF listed, c
  <2>6. packed(c) = EntryOf(c, pair.base, pair.curr)
    BY <2>4, <2>5
  <2>7. QED
    BY <2>2, <2>6 DEF c
<1> HIDE DEF changed, packed
<1>4. QED
  BY <1>1, <1>2, <1>3

LEMMA EntriesAre ==
  ASSUME NEW s, ValidSchema(s), NEW base, NEW curr
  PROVE  LET entries == Entries(s, base, curr) IN
         /\ IsList(entries)
         /\ entries = <<>> => ChangedPlaces(s, base, curr) = {}
         /\ \A e \in Range(entries) : e.entity = curr.id
         /\ \A c \in ComponentIds(s) : Given(Range(entries), curr.id, c) = PairWrites(s, base, curr, c)
<1> DEFINE entries == Entries(s, base, curr)
           places == ChangedPlaces(s, base, curr)
           order == Listed(places)
           changed == ChangedComponents(s, base, curr)
           update == Regrouped(curr.id, entries)
<1>1. /\ places \subseteq DOMAIN s
      /\ DOMAIN changed = DOMAIN order
      /\ DOMAIN order = 1 .. Cardinality(places) /\ Cardinality(places) \in Nat
      /\ \A j \in DOMAIN order : order[j] \in places /\ changed[j] = s[order[j]]
      /\ \A k \in places : \E j \in DOMAIN order : order[j] = k
      /\ (changed = <<>>) <=> (places = {})
  BY ChangedComponentsAre
<1>2. entries = [j \in DOMAIN changed |-> EntryOf(changed[j], base, curr)]
  BY DEF Entries
<1> HIDE DEF entries, changed
<1>3. /\ DOMAIN entries = DOMAIN order /\ entries = [j \in DOMAIN entries |-> entries[j]]
      /\ \A j \in DOMAIN order : entries[j] = EntryOf(s[order[j]], base, curr)
  <2> HIDE DEF order, places
  <2>1. QED
    BY <1>1, <1>2
<1>4. IsList(entries)
  <2> HIDE DEF order, places
  <2>1. QED
    BY <1>1, <1>3, ListsAre
<1>5. entries = <<>> => places = {}
  <2>1. entries = <<>> => DOMAIN order = {}
    BY <1>3
  <2> HIDE DEF order
  <2>2. QED
    BY <1>1, <2>1
<1>6. \A e \in Range(entries) : e.entity = curr.id
  <2> HIDE DEF order, places
  <2>1. \A j \in DOMAIN entries : entries[j].entity = curr.id
    <3>1. \A c : EntryOf(c, base, curr).entity = curr.id
      BY DEF EntryOf
    <3>2. QED
      BY ONLY <1>3, <3>1
  <2>2. QED
    BY ONLY <2>1 DEF Range
<1>7. ASSUME NEW k \in places
      PROVE  Range(EntryOf(s[k], base, curr).fields) = PairWrites(s, base, curr, s[k].id)
  <2> DEFINE c == s[k].id
             set == ChangedFields(s[k], base.components[c], curr.components[c])
             values == curr.components[c]
             read == EntryOf(s[k], base, curr).fields
  <2>1. k \in DOMAIN s
    BY <1>1
  <2>2. set = FieldsOf(s, base, curr, c)
    BY <2>1, FieldsOfAre
  <2>3. /\ \A n \in DOMAIN Listed(set) : Listed(set)[n] \in set
        /\ \A i \in set : \E n \in DOMAIN Listed(set) : Listed(set)[n] = i
    BY <2>1, ChangedFieldsAre
  <2>4. read = [n \in DOMAIN Listed(set) |-> <<Listed(set)[n], values[Listed(set)[n]]>>]
    BY DEF EntryOf
  <2> HIDE DEF set, read
  <2>5. Range(read) = {<<i, values[i]>> : i \in set}
    <3> HIDE DEF values
    <3>1. \A x \in Range(read) : x \in {<<i, values[i]>> : i \in set}
      BY <2>3, <2>4 DEF Range
    <3>2. \A i \in set : <<i, values[i]>> \in Range(read)
      BY <2>3, <2>4 DEF Range
    <3>3. QED
      BY <3>1, <3>2
  <2>6. QED
    BY <2>2, <2>5 DEF PairWrites, read
<1>8. update.components = [j \in DOMAIN entries |->
                             [id |-> entries[j].component, fields |-> entries[j].fields]]
  BY DEF Regrouped
<1> HIDE DEF update
<1>9. ASSUME NEW u \in Range(update.components)
      PROVE  \E k \in places : u.id = s[k].id /\ Range(u.fields) = PairWrites(s, base, curr, s[k].id)
  <2>1. PICK j \in DOMAIN entries :
          u = [id |-> entries[j].component, fields |-> entries[j].fields]
    BY <1>8 DEF Range
  <2>2. order[j] \in places /\ entries[j] = EntryOf(s[order[j]], base, curr)
    BY <1>1, <1>3
  <2>3. u.id = s[order[j]].id /\ u.fields = EntryOf(s[order[j]], base, curr).fields
    <3> HIDE DEF order, places
    <3>1. u.id = entries[j].component /\ u.fields = entries[j].fields
      BY <2>1
    <3>2. EntryOf(s[order[j]], base, curr).component = s[order[j]].id
      BY DEF EntryOf
    <3>3. QED
      BY <2>2, <3>1, <3>2
  <2> HIDE DEF order, places
  <2>4. QED
    BY <1>7, <2>2, <2>3
<1>10. ASSUME NEW k \in places
       PROVE  \E u \in Range(update.components) : u.id = s[k].id
  <2>1. PICK j \in DOMAIN order : order[j] = k
    BY <1>1
  <2>2. j \in DOMAIN entries /\ entries[j].component = s[k].id
    <3> HIDE DEF order, places
    <3>1. EntryOf(s[order[j]], base, curr).component = s[k].id
      BY <2>1 DEF EntryOf
    <3>2. j \in DOMAIN entries /\ entries[j] = EntryOf(s[order[j]], base, curr)
      BY <1>3, <2>1
    <3>3. QED
      BY ONLY <3>1, <3>2
  <2>3. update.components[j] \in Range(update.components) /\ update.components[j].id = s[k].id
    BY <1>8, <2>2 DEF Range
  <2>4. QED
    BY <2>3
<1> HIDE DEF order
<1>11. \A c \in ComponentIds(s) : Written(update, c) = PairWrites(s, base, curr, c)
  BY <1>9, <1>10, WrittenIs DEF places
<1>12. \A c : Written(update, c) = Given(Range(entries), curr.id, c)
  <2>1. Range(entries) = {e \in Range(entries) : e.entity = curr.id}
    BY <1>6
  <2>2. QED
    BY <2>1, RegroupedIs DEF update
<1>13. QED
  BY <1>4, <1>5, <1>6, <1>11, <1>12 DEF entries, places

LEMMA NestedAre ==
  ASSUME NEW ss, IsList(ss), \A n \in DOMAIN ss : IsList(ss[n])
  PROVE  ss \in Seq(Seq(UNION {Range(ss[n]) : n \in DOMAIN ss}))
<1> DEFINE T == UNION {Range(ss[n]) : n \in DOMAIN ss}
<1>1. ASSUME NEW n \in DOMAIN ss
      PROVE  ss[n] \in Seq(T)
  <2>1. ss[n] \in Seq(Range(ss[n]))
    BY ListsAre DEF IsList
  <2>2. Range(ss[n]) \subseteq T
    OBVIOUS
  <2> HIDE DEF T
  <2>3. QED
    BY <2>1, <2>2
<1> HIDE DEF T
<1>2. ss \in [1 .. Len(ss) -> Seq(T)]
  BY <1>1 DEF IsList
<1>3. ss \in Seq(Seq(T))
  BY <1>2 DEF IsList
<1>4. QED
  BY <1>3 DEF T

EntriesOf(s, pairs) == [n \in DOMAIN pairs |-> Entries(s, pairs[n].base, pairs[n].curr)]

LEMMA CheckedIs ==
  ASSUME NEW error, NEW v, Checked(error, v).ok
  PROVE  Checked(error, v).val = v /\ error = None
BY DEF Checked, Ok, Err

LEMMA VarintBodyIs ==
  ASSUME NEW s, NEW lim, NEW pairs, EncodeSparseVarint(s, lim, pairs).ok
  PROVE  EncodeSparseVarint(s, lim, pairs).val = FlattenSeq(EntriesOf(s, pairs))
<1> DEFINE ss == [i \in DOMAIN pairs |-> SparseEntries(s, pairs[i], VarintIndex)]
<1>1. ss = EntriesOf(s, pairs)
  BY VarintEntriesAre DEF EntriesOf
<1>2. EncodeSparseVarint(s, lim, pairs) =
        Checked(IF Len(pairs) > lim.update \/ Len(FlattenSeq(ss)) > EntryLimit(lim)
                THEN "LimitsExceeded" ELSE WrittenValuesError(s, pairs), FlattenSeq(ss))
  BY DEF EncodeSparseVarint, SparseBody
<1> HIDE DEF ss
<1>3. EncodeSparseVarint(s, lim, pairs).val = FlattenSeq(ss)
  BY <1>2, CheckedIs
<1>4. QED
  BY <1>1, <1>3

(* Where the bits hold every index, the packed body says what the other    *)
(* sparse body says, and fails where it fails.                             *)
LEMMA PackedIsVarint ==
  ASSUME NEW s, ValidSchema(s), Indexed(s), NEW lim, NEW pairs
  PROVE  EncodeSparsePacked(s, lim, pairs) = EncodeSparseVarint(s, lim, pairs)
<1> DEFINE varint == [i \in DOMAIN pairs |-> SparseEntries(s, pairs[i], VarintIndex)]
           packed == [i \in DOMAIN pairs |-> SparseEntries(s, pairs[i], PackedIndex)]
           result(ss) == Checked(IF Len(pairs) > lim.update \/ Len(FlattenSeq(ss)) > EntryLimit(lim)
                THEN "LimitsExceeded" ELSE WrittenValuesError(s, pairs), FlattenSeq(ss))
<1>1. varint = EntriesOf(s, pairs)
  BY VarintEntriesAre DEF EntriesOf
<1>2. packed = EntriesOf(s, pairs)
  BY PackedEntriesAre DEF EntriesOf
<1>3. EncodeSparseVarint(s, lim, pairs) = result(varint)
  BY DEF EncodeSparseVarint, SparseBody
<1>4. EncodeSparsePacked(s, lim, pairs) = result(packed)
  BY DEF EncodeSparsePacked, SparseBody
<1> HIDE DEF varint, packed, result
<1>5. QED
  BY <1>1, <1>2, <1>3, <1>4

(* An entry of a masked section, as decode_update_section_masked reads it. *)
MaskedRead(s, entry) ==
  [id |-> entry.id,
   components |-> [j \in DOMAIN Listed(Marked(entry.mask)) |->
     [id |-> s[Listed(Marked(entry.mask))[j]].id,
      fields |-> ReadMaskedFields(entry.components[j])]]]

LEMMA MaskedPlacesAre ==
  ASSUME NEW s, ValidSchema(s), NEW base, NEW curr
  PROVE  Marked(MaskedEntry(s, base, curr).mask) = ChangedPlaces(s, base, curr)
<1> DEFINE places == ChangedPlaces(s, base, curr)
           order == Listed(places)
           changed == ChangedComponents(s, base, curr)
           mask == MaskedEntry(s, base, curr).mask
<1>1. /\ places \subseteq DOMAIN s
      /\ DOMAIN changed = DOMAIN order
      /\ \A j \in DOMAIN order : order[j] \in places /\ changed[j] = s[order[j]]
      /\ \A k \in places : \E j \in DOMAIN order : order[j] = k
  BY ChangedComponentsAre
<1>2. mask = [k \in DOMAIN s |-> \E j \in DOMAIN changed : changed[j].id = s[k].id]
  BY DEF MaskedEntry
<1> HIDE DEF mask, changed, places, order
<1>3. ASSUME NEW k \in DOMAIN s
      PROVE  (\E j \in DOMAIN changed : changed[j].id = s[k].id) <=> k \in places
  <2>1. k \in places => \E j \in DOMAIN changed : changed[j].id = s[k].id
    BY <1>1
  <2>2. ASSUME NEW j \in DOMAIN changed, changed[j].id = s[k].id
        PROVE  k \in places
    <3>1. order[j] \in places /\ s[order[j]].id = s[k].id /\ order[j] \in DOMAIN s
      BY <1>1, <2>2
    <3>2. order[j] = k
      BY <3>1 DEF ValidSchema
    <3>3. QED
      BY <3>1, <3>2
  <2>3. QED
    BY <2>1, <2>2
<1>4. Marked(mask) = places
  BY <1>1, <1>2, <1>3 DEF Marked
<1>5. QED
  BY <1>4 DEF mask, places

(* What the changes of a pair are, as an update. *)
Change(s, pair) == Regrouped(pair.curr.id, Entries(s, pair.base, pair.curr))

Changes(s, pairs) == [n \in DOMAIN pairs |-> Change(s, pairs[n])]

LEMMA MaskedIsChange ==
  ASSUME NEW s, ValidSchema(s), NEW base, NEW curr
  PROVE  MaskedRead(s, MaskedEntry(s, base, curr)) = Regrouped(curr.id, Entries(s, base, curr))
<1> DEFINE entry == MaskedEntry(s, base, curr)
           entries == Entries(s, base, curr)
           places == ChangedPlaces(s, base, curr)
           order == Listed(places)
           changed == ChangedComponents(s, base, curr)
           mask(c) == FieldMask(c, base.components[c.id], curr.components[c.id])
           set(c) == Listed(Marked(mask(c)))
           values(c) == curr.components[c.id]
<1>1. /\ places \subseteq DOMAIN s
      /\ DOMAIN changed = DOMAIN order
      /\ \A j \in DOMAIN order : order[j] \in places /\ changed[j] = s[order[j]]
  BY ChangedComponentsAre
<1>2. Marked(entry.mask) = places
  BY MaskedPlacesAre
<1>3. /\ entry.id = curr.id
      /\ entry.components = [j \in DOMAIN changed |->
           [mask |-> mask(changed[j]),
            values |-> ElementsAt(values(changed[j]), Marked(mask(changed[j])))]]
  BY DEF MaskedEntry
<1>4. entries = [j \in DOMAIN changed |->
        [entity |-> curr.id, component |-> changed[j].id,
         fields |-> [n \in DOMAIN set(changed[j]) |->
           <<set(changed[j])[n], values(changed[j])[set(changed[j])[n]]>>]]]
  BY DEF Entries, EntryOf, ChangedFields
<1>5. ASSUME NEW c, NEW wire, wire = [mask |-> mask(c), values |-> ElementsAt(values(c), Marked(mask(c)))]
      PROVE  ReadMaskedFields(wire) = [n \in DOMAIN set(c) |-> <<set(c)[n], values(c)[set(c)[n]]>>]
  <2>1. ReadMaskedFields(wire) =
          [n \in DOMAIN set(c) |-> <<set(c)[n], ElementsAt(values(c), Marked(mask(c)))[n]>>]
    <3>1. wire.mask = mask(c) /\ wire.values = ElementsAt(values(c), Marked(mask(c)))
      BY <1>5
    <3> HIDE DEF mask, values
    <3>2. QED
      BY <3>1 DEF ReadMaskedFields
  <2>2. ElementsAt(values(c), Marked(mask(c))) = [n \in DOMAIN set(c) |-> values(c)[set(c)[n]]]
    BY DEF ElementsAt
  <2> HIDE DEF mask, set, values
  <2>3. QED
    BY <2>1, <2>2
<1> HIDE DEF mask, set, values, changed, places, entry, entries
<1>6. /\ DOMAIN entries = DOMAIN order
      /\ \A j \in DOMAIN order :
           /\ entries[j].component = s[order[j]].id
           /\ entries[j].fields = ReadMaskedFields(entry.components[j])
  <2>1. DOMAIN entries = DOMAIN order
    BY <1>1, <1>4
  <2>2. ASSUME NEW j \in DOMAIN order
        PROVE  /\ entries[j].component = s[order[j]].id
               /\ entries[j].fields = ReadMaskedFields(entry.components[j])
    <3>1. entry.components[j] = [mask |-> mask(changed[j]),
            values |-> ElementsAt(values(changed[j]), Marked(mask(changed[j])))]
      BY <1>1, <1>3
    <3>2. entries[j] = [entity |-> curr.id, component |-> changed[j].id,
         fields |-> [n \in DOMAIN set(changed[j]) |->
           <<set(changed[j])[n], values(changed[j])[set(changed[j])[n]]>>]]
      BY <1>1, <1>4
    <3>3. ReadMaskedFields(entry.components[j]) = [n \in DOMAIN set(changed[j]) |->
           <<set(changed[j])[n], values(changed[j])[set(changed[j])[n]]>>]
      BY <1>5, <3>1
    <3>4. QED
      BY <1>1, <3>2, <3>3
  <2>3. QED
    BY <2>1, <2>2
<1>7. MaskedRead(s, entry) =
        [id |-> entry.id,
         components |-> [j \in DOMAIN order |->
           [id |-> s[order[j]].id, fields |-> ReadMaskedFields(entry.components[j])]]]
  BY <1>2 DEF MaskedRead
<1> HIDE DEF order
<1>8. Regrouped(curr.id, entries) =
        [id |-> curr.id,
         components |-> [j \in DOMAIN order |->
           [id |-> entries[j].component, fields |-> entries[j].fields]]]
  BY <1>6 DEF Regrouped
<1>9. [j \in DOMAIN order |-> [id |-> entries[j].component, fields |-> entries[j].fields]] =
      [j \in DOMAIN order |->
           [id |-> s[order[j]].id, fields |-> ReadMaskedFields(entry.components[j])]]
  BY <1>6
<1>10. QED
  BY <1>3, <1>7, <1>8, <1>9 DEF entry, entries

LEMMA MaskedIsChanges ==
  ASSUME NEW s, ValidSchema(s), NEW lim, NEW pairs,
         EncodeMasked(s, lim, pairs).ok, DecodeMasked(s, lim, EncodeMasked(s, lim, pairs).val).ok
  PROVE  DecodeMasked(s, lim, EncodeMasked(s, lim, pairs).val).val = Changes(s, pairs)
<1> DEFINE body == EncodeMasked(s, lim, pairs).val
           read == DecodeMasked(s, lim, body).val
<1>1. body = [i \in DOMAIN pairs |-> MaskedEntry(s, pairs[i].base, pairs[i].curr)]
  BY CheckedIs DEF EncodeMasked
<1> HIDE DEF body
<1>2. read = [i \in DOMAIN body |-> MaskedRead(s, body[i])]
  <2>1. \A error : \A v : Checked(error, v).ok => Checked(error, v).val = v
    BY DEF Checked, Ok, Err
  <2>2. DecodeMasked(s, lim, body).ok
    BY DEF body
  <2>3. QED
    BY <2>1, <2>2 DEF DecodeMasked, MaskedRead
<1> HIDE DEF read
<1>3. read = [i \in DOMAIN pairs |-> MaskedRead(s, MaskedEntry(s, pairs[i].base, pairs[i].curr))]
  BY <1>1, <1>2
<1>4. \A i \in DOMAIN pairs :
        MaskedRead(s, MaskedEntry(s, pairs[i].base, pairs[i].curr)) = Change(s, pairs[i])
  BY MaskedIsChange DEF Change
<1>5. read = Changes(s, pairs)
  BY <1>3, <1>4 DEF Changes
<1>6. QED
  BY <1>5 DEF read, body

(* Pairs as the diff lists them: of entities that changed, in order.       *)
InTurn(s, pairs) ==
  /\ IsList(pairs)
  /\ \A n \in DOMAIN pairs : /\ pairs[n].curr.id \in Nat
                             /\ ChangedPlaces(s, pairs[n].base, pairs[n].curr) # {}
  /\ \A m, n \in DOMAIN pairs : m < n => pairs[m].curr.id < pairs[n].curr.id

LEMMA BodyInTurn ==
  ASSUME NEW s, ValidSchema(s), NEW pairs, InTurn(s, pairs)
  PROVE  LET body == FlattenSeq(EntriesOf(s, pairs)) IN
         /\ DOMAIN body = 1 .. Len(body) /\ Len(body) \in Nat
         /\ \E p, q : /\ Holds(EntriesOf(s, pairs), Len(pairs), body, p, q)
                      /\ \A i \in DOMAIN body : /\ p[i] \in DOMAIN pairs
                                                /\ body[i].entity = pairs[p[i]].curr.id
         /\ \A n \in DOMAIN pairs : \E i \in DOMAIN body : body[i].entity = pairs[n].curr.id
<1> DEFINE ss == EntriesOf(s, pairs)
           body == FlattenSeq(ss)
           T == UNION {Range(ss[n]) : n \in DOMAIN ss}
<1>1. /\ DOMAIN ss = DOMAIN pairs /\ ss = [n \in DOMAIN ss |-> ss[n]]
      /\ \A n \in DOMAIN ss : ss[n] = Entries(s, pairs[n].base, pairs[n].curr)
  BY DEF EntriesOf
<1> HIDE DEF ss
<1>2. IsList(ss) /\ Len(ss) = Len(pairs)
  BY <1>1, ListsAre DEF InTurn, IsList
<1>3. ASSUME NEW n \in DOMAIN ss
      PROVE  /\ IsList(ss[n]) /\ ss[n] # <<>>
             /\ \A e \in Range(ss[n]) : e.entity = pairs[n].curr.id
  <2>1. ChangedPlaces(s, pairs[n].base, pairs[n].curr) # {}
    BY <1>1 DEF InTurn
  <2>2. QED
    BY <1>1, <2>1, EntriesAre
<1>4. ss \in Seq(Seq(T))
  <2>1. \A n \in DOMAIN ss : IsList(ss[n])
    BY <1>3
  <2>2. ss \in Seq(Seq(UNION {Range(ss[n]) : n \in DOMAIN ss}))
    BY ONLY <1>2, <2>1, NestedAre
  <2>3. QED
    BY <2>2
<1> HIDE DEF T
<1>5. body \in Seq(T) /\ \E p, q : Holds(ss, Len(ss), body, p, q)
  BY <1>4, FlattenIs
<1> HIDE DEF body
<1>6. DOMAIN body = 1 .. Len(body) /\ Len(body) \in Nat
  BY <1>5
<1>7. PICK p, q : Holds(ss, Len(ss), body, p, q)
  BY <1>5
<1>8. \A i \in DOMAIN body : p[i] \in DOMAIN pairs /\ body[i].entity = pairs[p[i]].curr.id
  <2> TAKE i \in DOMAIN body
  <2>1. p[i] \in 1 .. Len(ss) /\ q[i] \in 1 .. Len(ss[p[i]]) /\ body[i] = ss[p[i]][q[i]]
    BY <1>7 DEF Holds
  <2>2. p[i] \in DOMAIN ss /\ q[i] \in DOMAIN ss[p[i]]
    BY <1>2, <1>3, <2>1 DEF IsList
  <2>3. body[i] \in Range(ss[p[i]])
    BY <2>1, <2>2 DEF Range
  <2>4. QED
    BY <1>1, <1>3, <2>2, <2>3
<1>9. \A n \in DOMAIN pairs : \E i \in DOMAIN body : body[i].entity = pairs[n].curr.id
  <2> TAKE n \in DOMAIN pairs
  <2>1. n \in DOMAIN ss /\ n \in 1 .. Len(ss)
    BY <1>1, <1>2 DEF IsList
  <2>2. 1 \in 1 .. Len(ss[n])
    <3>1. Len(ss[n]) # 0
      <4>1. ss[n] \in Seq(Range(ss[n])) /\ ss[n] # <<>>
        BY <1>3, <2>1, ListsAre DEF IsList
      <4>2. QED
        BY <4>1
    <3>2. Len(ss[n]) \in Nat
      BY <1>3, <2>1 DEF IsList
    <3>3. QED
      BY <3>1, <3>2
  <2>3. PICK i \in DOMAIN body : p[i] = n
    BY <1>7, <2>1, <2>2 DEF Holds
  <2>4. QED
    BY <1>8, <2>3
<1>10. QED
  BY <1>2, <1>6, <1>7, <1>8, <1>9 DEF ss, body

(* The entities of a section are those of the pairs, in their order.       *)
LEMMA NamedInTurn ==
  ASSUME NEW s, ValidSchema(s), NEW pairs, InTurn(s, pairs),
         NEW body, body = FlattenSeq(EntriesOf(s, pairs))
  PROVE  LET ids == Listed({body[i].entity : i \in DOMAIN body}) IN
         DOMAIN ids = DOMAIN pairs /\ \A n \in DOMAIN pairs : ids[n] = pairs[n].curr.id
<1> DEFINE named == {body[i].entity : i \in DOMAIN body}
           id(n) == pairs[n].curr.id
<1>1. /\ DOMAIN body = 1 .. Len(body) /\ Len(body) \in Nat
      /\ \E p, q : /\ Holds(EntriesOf(s, pairs), Len(pairs), body, p, q)
                   /\ \A i \in DOMAIN body : /\ p[i] \in DOMAIN pairs
                                             /\ body[i].entity = pairs[p[i]].curr.id
      /\ \A n \in DOMAIN pairs : \E i \in DOMAIN body : body[i].entity = pairs[n].curr.id
  BY ONLY ValidSchema(s), InTurn(s, pairs), body = FlattenSeq(EntriesOf(s, pairs)), BodyInTurn
<1>2. PICK p : \A i \in DOMAIN body : p[i] \in DOMAIN pairs /\ body[i].entity = id(p[i])
  BY <1>1
<1>3. /\ DOMAIN pairs = 1 .. Len(pairs) /\ Len(pairs) \in Nat
      /\ \A n \in DOMAIN pairs : id(n) \in Nat
      /\ \A m, n \in DOMAIN pairs : m < n => id(m) < id(n)
  BY DEF InTurn, IsList
<1>4. named = {id(n) : n \in 1 .. Len(pairs)}
  <2>1. \A i \in DOMAIN body : \E n \in 1 .. Len(pairs) : body[i].entity = id(n)
    BY <1>2, <1>3
  <2>2. \A n \in 1 .. Len(pairs) : \E i \in DOMAIN body : body[i].entity = id(n)
    BY <1>1, <1>3
  <2> HIDE DEF id
  <2>3. QED
    BY <2>1, <2>2
<1> HIDE DEF id, named
<1>5. DOMAIN Listed(named) = DOMAIN pairs /\ \A n \in DOMAIN pairs : Listed(named)[n] = id(n)
  <2> DEFINE g == [n \in 1 .. Len(pairs) |-> id(n)]
  <2>1. Rising(Len(pairs), g) /\ named = {g[i] : i \in 1 .. Len(pairs)}
    BY <1>3, <1>4 DEF Rising
  <2>2. \A n \in DOMAIN pairs : g[n] = id(n)
    BY <1>3
  <2> HIDE DEF g
  <2>3. DOMAIN Listed(named) = 1 .. Len(pairs) /\ \A i \in 1 .. Len(pairs) : Listed(named)[i] = g[i]
    BY <2>1, ListedInOrder
  <2>4. QED
    BY <1>3, <2>2, <2>3
<1>6. QED
  BY <1>5 DEF named, id

(* What the sparse decoder makes of the entries, taken together again by   *)
(* entity.                                                                 *)
LEMMA SparseIsChanges ==
  ASSUME NEW s, ValidSchema(s), NEW lim, NEW pairs, InTurn(s, pairs),
         NEW body, body = FlattenSeq(EntriesOf(s, pairs)), DecodeSparse(s, lim, body).ok
  PROVE  DecodeSparse(s, lim, body).val = Changes(s, pairs)
<1> DEFINE ss == EntriesOf(s, pairs)
           named == {body[i].entity : i \in DOMAIN body}
           ids == Listed(named)
           of(id) == ElementsAt(body, {i \in DOMAIN body : body[i].entity = id})
           read == DecodeSparse(s, lim, body).val
           id(n) == pairs[n].curr.id
<1>1. read = [n \in DOMAIN ids |-> Regrouped(ids[n], of(ids[n]))]
  <2>1. \A error : \A v : Checked(error, v).ok => Checked(error, v).val = v
    BY DEF Checked, Ok, Err
  <2>2. QED
    BY <2>1 DEF DecodeSparse, Regrouped
<1>2. /\ DOMAIN body = 1 .. Len(body) /\ Len(body) \in Nat
      /\ \E p, q : /\ Holds(EntriesOf(s, pairs), Len(pairs), body, p, q)
                   /\ \A i \in DOMAIN body : /\ p[i] \in DOMAIN pairs
                                             /\ body[i].entity = pairs[p[i]].curr.id
      /\ \A n \in DOMAIN pairs : \E i \in DOMAIN body : body[i].entity = pairs[n].curr.id
  BY ONLY ValidSchema(s), InTurn(s, pairs), body = FlattenSeq(EntriesOf(s, pairs)), BodyInTurn
<1>3. PICK p, q : /\ Holds(ss, Len(pairs), body, p, q)
                  /\ \A i \in DOMAIN body : p[i] \in DOMAIN pairs /\ body[i].entity = id(p[i])
  BY <1>2
<1>4. /\ DOMAIN pairs = 1 .. Len(pairs) /\ Len(pairs) \in Nat
      /\ \A n \in DOMAIN pairs : id(n) \in Nat
      /\ \A m, n \in DOMAIN pairs : m < n => id(m) < id(n)
  BY DEF InTurn, IsList
<1>5. DOMAIN ids = DOMAIN pairs /\ \A n \in DOMAIN pairs : ids[n] = id(n)
  BY ONLY ValidSchema(s), InTurn(s, pairs), body = FlattenSeq(EntriesOf(s, pairs)), NamedInTurn
<1> HIDE DEF id, named, of, read
<1>6. ASSUME NEW n \in DOMAIN pairs
      PROVE  of(id(n)) = Entries(s, pairs[n].base, pairs[n].curr)
  <2> DEFINE mine == {i \in DOMAIN body : body[i].entity = id(n)}
             from == {i \in DOMAIN body : p[i] = n}
  <2>1. mine = from
    <3>1. ASSUME NEW i \in DOMAIN body, id(p[i]) = id(n)
          PROVE  p[i] = n
      <4>1. p[i] \in DOMAIN pairs /\ p[i] \in Int /\ n \in Int
        BY <1>3, <1>4
      <4>2. id(p[i]) \in Nat /\ id(n) \in Nat
        BY <1>4, <4>1
      <4>3. ~(p[i] < n) /\ ~(n < p[i])
        BY <1>4, <3>1, <4>1, <4>2
      <4>4. QED
        BY <4>1, <4>3
    <3>2. QED
      BY <1>3, <3>1
  <2>2. ss[n] = Entries(s, pairs[n].base, pairs[n].curr) /\ IsList(ss[n])
    <3>1. ss[n] = Entries(s, pairs[n].base, pairs[n].curr)
      BY DEF EntriesOf
    <3>2. QED
      BY <3>1, EntriesAre
  <2> HIDE DEF ss, mine
  <2>3. ElementsAt(body, from) = ss[n]
    <3>1. Holds(ss, Len(pairs), body, p, q) /\ n \in 1 .. Len(pairs)
      BY <1>3, <1>4
    <3>2. DOMAIN body = 1 .. Len(body) /\ Len(body) \in Nat
      BY <1>2
    <3>3. QED
      BY ONLY <2>2, <3>1, <3>2, PiecesAre
  <2> HIDE DEF from
  <2>4. QED
    BY <2>1, <2>2, <2>3 DEF of, mine
<1>7. \A n \in DOMAIN pairs : Regrouped(ids[n], of(ids[n])) = Change(s, pairs[n])
  BY <1>5, <1>6 DEF Change, id
<1> HIDE DEF ids
<1>8. read = Changes(s, pairs)
  BY <1>1, <1>5, <1>7 DEF Changes
<1>9. QED
  BY <1>8 DEF read

(* Whatever the encoding, the decoder reads what changed.                  *)
LEMMA UpdatesAreChanges ==
  ASSUME NEW s, ValidSchema(s), Indexed(s), NEW lim, NEW pairs, InTurn(s, pairs),
         NEW tag \in UpdateTags, UpdateBody(s, lim, tag, pairs).ok,
         DecodeSection(s, lim, Section(tag, UpdateBody(s, lim, tag, pairs).val)).ok
  PROVE  DecodeSection(s, lim, Section(tag, UpdateBody(s, lim, tag, pairs).val)).val
           = Changes(s, pairs)
<1> DEFINE body == UpdateBody(s, lim, tag, pairs)
           result == DecodeSection(s, lim, Section(tag, body.val))
<1>1. CASE tag = "Update"
  <2>1. body = EncodeMasked(s, lim, pairs)
    BY <1>1 DEF UpdateBody
  <2> HIDE DEF body
  <2>2. result = DecodeMasked(s, lim, body.val)
    BY <1>1 DEF DecodeSection, Section
  <2>3. QED
    BY <2>1, <2>2, MaskedIsChanges DEF body
<1>2. CASE tag # "Update"
  <2>1. body = EncodeSparseVarint(s, lim, pairs)
    BY <1>2, PackedIsVarint DEF UpdateBody, UpdateTags
  <2>2. body.val = FlattenSeq(EntriesOf(s, pairs))
    BY <2>1, VarintBodyIs
  <2> HIDE DEF body
  <2>3. result = DecodeSparse(s, lim, body.val)
    BY <1>2 DEF DecodeSection, Section, UpdateTags, DecodeSparseVarint, DecodeSparsePacked
  <2>4. result.ok
    BY DEF body
  <2> HIDE DEF result
  <2>5. DecodeSparse(s, lim, body.val).ok
    BY <2>3, <2>4
  <2>6. result.val = Changes(s, pairs)
    BY <2>2, <2>3, <2>5, SparseIsChanges
  <2>7. QED
    BY <2>6 DEF result, body
<1>3. QED
  BY <1>1, <1>2

LEMMA ChangesSay ==
  ASSUME NEW s, ValidSchema(s), NEW pairs, NEW writes, Covers(s, pairs, writes)
  PROVE  IsList(Changes(s, pairs)) /\ Says(s, Changes(s, pairs), writes)
<1> DEFINE changes == Changes(s, pairs)
<1>1. /\ DOMAIN changes = DOMAIN pairs /\ changes = [n \in DOMAIN changes |-> changes[n]]
      /\ \A n \in DOMAIN pairs : changes[n] = Change(s, pairs[n])
  BY DEF Changes
<1> HIDE DEF changes
<1>2. IsList(changes)
  BY <1>1, ListsAre DEF Covers
<1>3. ASSUME NEW n \in DOMAIN changes
      PROVE  /\ n \in Nat /\ changes[n].id = pairs[n].curr.id
             /\ changes[n].id \in DOMAIN writes
             /\ \A c \in ComponentIds(s) : Written(changes[n], c) = writes[changes[n].id][c]
  <2> DEFINE base == pairs[n].base
             curr == pairs[n].curr
             entries == Entries(s, base, curr)
  <2>1. /\ n \in Nat /\ curr.id \in DOMAIN writes
        /\ \A c \in ComponentIds(s) : writes[curr.id][c] = PairWrites(s, base, curr, c)
    BY <1>1 DEF Covers
  <2>2. changes[n] = Regrouped(curr.id, entries)
    BY <1>1 DEF Change
  <2>3. /\ \A e \in Range(entries) : e.entity = curr.id
        /\ \A c \in ComponentIds(s) : Given(Range(entries), curr.id, c) = PairWrites(s, base, curr, c)
    BY EntriesAre
  <2> HIDE DEF entries
  <2>4. \A c : Written(Regrouped(curr.id, entries), c) = Given(Range(entries), curr.id, c)
    <3>1. Range(entries) = {e \in Range(entries) : e.entity = curr.id}
      BY <2>3
    <3>2. QED
      BY ONLY <3>1, RegroupedIs
  <2>5. changes[n].id = curr.id
    BY <2>2 DEF Regrouped
  <2> HIDE DEF base, curr
  <2>6. QED
    BY <2>1, <2>2, <2>3, <2>4, <2>5 DEF curr
<1>4. \A id \in DOMAIN writes : \E n \in DOMAIN changes : changes[n].id = id
  BY <1>1, <1>3 DEF Covers
<1>5. Says(s, changes, writes)
  BY <1>3, <1>4 DEF Says
<1>6. QED
  BY <1>2, <1>5 DEF changes

-----------------------------------------------------------------------------
(* A delta says what came, what went and what changed. *)

ChangedIds(s, bs, cs) ==
  {id \in Common(bs, cs) : HasUpdates(s, EntityOf(bs, id), EntityOf(cs, id))}

DeltaWrites(s, bs, cs) ==
  [id \in ChangedIds(s, bs, cs) |->
     [c \in ComponentIds(s) |-> PairWrites(s, EntityOf(bs, id), EntityOf(cs, id), c)]]

LEMMA UpdatedCovers ==
  ASSUME NEW s, ValidSchema(s),
         NEW bs, IsEntities(bs), SortedById(bs), NEW cs, IsEntities(cs), SortedById(cs)
  PROVE  /\ DOMAIN DeltaWrites(s, bs, cs) \subseteq Nat
         /\ Covers(s, Updated(s, bs, cs), DeltaWrites(s, bs, cs))
         /\ InTurn(s, Updated(s, bs, cs))
         /\ Updated(s, bs, cs) = <<>> => DOMAIN DeltaWrites(s, bs, cs) = {}
<1> DEFINE P == ChangedIds(s, bs, cs)
           ids == Listed(P)
           pairs == Updated(s, bs, cs)
           writes == DeltaWrites(s, bs, cs)
<1>1. /\ DOMAIN writes = P
      /\ \A id \in P : \A c \in ComponentIds(s) :
           writes[id][c] = PairWrites(s, EntityOf(bs, id), EntityOf(cs, id), c)
  BY DEF DeltaWrites
<1>2. P \subseteq Ids(bs) /\ P \subseteq Ids(cs)
  BY DEF ChangedIds, Common
<1>3. P \subseteq Nat /\ IsFiniteSet(P)
  <2>1. IsFiniteSet(Ids(bs)) /\ Ids(bs) \subseteq Nat
    BY IdsAreFinite
  <2> HIDE DEF P
  <2>2. QED
    BY <1>2, <2>1, FS_Subset
<1>4. \A id \in P : ChangedPlaces(s, EntityOf(bs, id), EntityOf(cs, id)) # {}
  <2> TAKE id \in P
  <2>1. ChangedComponents(s, EntityOf(bs, id), EntityOf(cs, id)) # <<>>
    BY DEF ChangedIds, HasUpdates
  <2>2. QED
    BY <2>1, ChangedComponentsAre
<1>5. \A id \in P : EntityOf(cs, id).id = id
  BY <1>2, EntityOfIs
<1>6. pairs = [i \in DOMAIN ids |-> [base |-> EntityOf(bs, ids[i]), curr |-> EntityOf(cs, ids[i])]]
  BY DEF Updated, ChangedIds
<1> HIDE DEF P, writes, pairs
<1>7. /\ Cardinality(P) \in Nat /\ DOMAIN ids = 1 .. Cardinality(P)
      /\ \A n \in DOMAIN ids : ids[n] \in P
      /\ \A id \in P : \E n \in DOMAIN ids : ids[n] = id
      /\ \A m, n \in DOMAIN ids : m < n => ids[m] < ids[n]
  <2>1. P \subseteq Int
    BY <1>3
  <2>2. /\ Cardinality(P) \in Nat /\ DOMAIN ids = 1 .. Cardinality(P)
        /\ \A n \in DOMAIN ids : ids[n] \in P
        /\ \A id \in P : /\ Cardinality(UpTo(P, id)) \in DOMAIN ids
                         /\ ids[Cardinality(UpTo(P, id))] = id
        /\ \A m, n \in DOMAIN ids : m < n => ids[m] < ids[n]
    BY <1>3, <2>1, ListedIs
  <2> HIDE DEF ids
  <2>3. QED
    BY <2>2
<1> HIDE DEF ids
<1>8. /\ DOMAIN pairs = DOMAIN ids /\ pairs = [n \in DOMAIN pairs |-> pairs[n]]
      /\ \A n \in DOMAIN ids : pairs[n].base = EntityOf(bs, ids[n]) /\ pairs[n].curr = EntityOf(cs, ids[n])
  BY <1>6
<1>9. IsList(pairs)
  BY <1>7, <1>8, ListsAre
<1>10. ASSUME NEW n \in DOMAIN pairs
       PROVE  /\ pairs[n].curr.id \in DOMAIN writes /\ pairs[n].curr.id \in Nat
              /\ ChangedPlaces(s, pairs[n].base, pairs[n].curr) # {}
              /\ \A c \in ComponentIds(s) :
                   writes[pairs[n].curr.id][c] = PairWrites(s, pairs[n].base, pairs[n].curr, c)
  <2>1. ids[n] \in P /\ pairs[n].base = EntityOf(bs, ids[n]) /\ pairs[n].curr = EntityOf(cs, ids[n])
    BY <1>7, <1>8
  <2>2. pairs[n].curr.id = ids[n]
    BY <1>5, <2>1
  <2>3. QED
    BY <1>1, <1>3, <1>4, <2>1, <2>2
<1>11. \A id \in DOMAIN writes : \E n \in DOMAIN pairs : pairs[n].curr.id = id
  BY <1>1, <1>5, <1>7, <1>8
<1>12. Covers(s, pairs, writes)
  BY <1>9, <1>10, <1>11 DEF Covers, IsList
<1>13. pairs = <<>> => DOMAIN writes = {}
  <2>1. ASSUME pairs = <<>> PROVE DOMAIN pairs = {}
    BY <2>1
  <2>2. QED
    BY <1>11, <2>1
<1>14. InTurn(s, pairs)
  <2>1. \A n \in DOMAIN pairs : pairs[n].curr.id = ids[n]
    BY <1>5, <1>7, <1>8
  <2>2. \A m, n \in DOMAIN pairs : m < n => pairs[m].curr.id < pairs[n].curr.id
    BY <1>7, <1>8, <2>1
  <2>3. QED
    BY <1>9, <1>10, <2>2 DEF InTurn
<1>15. QED
  BY <1>1, <1>3, <1>12, <1>13, <1>14 DEF pairs, writes

SaysDelta(s, lim, bs, cs, said) ==
  /\ said.destroys = Destroyed(bs, cs)
  /\ said.creates = Created(bs, cs)
  /\ \A i \in DOMAIN Created(bs, cs) : ComponentsError(s, lim, Created(bs, cs)[i]) = None
  /\ said.updates = Changes(s, Updated(s, bs, cs))
  /\ Says(s, said.updates, DeltaWrites(s, bs, cs))

LEMMA DeltaSays ==
  ASSUME NEW s, ValidSchema(s), Indexed(s), NEW lim, NEW encoding \in Encodings \cup {"Auto"},
         NEW baseline_tick, NEW base, IsEntities(base.entities), SortedById(base.entities),
         NEW current, IsEntities(current.entities), SortedById(current.entities),
         NEW packet, packet = EncodeDelta(s, lim, encoding, baseline_tick, base, current), packet.ok,
         DecodeDeltaSections(s, lim, packet.val.sections).ok
  PROVE  /\ packet.val.tick = current.tick
         /\ DiffError(s, lim, base.entities, current.entities) = None
         /\ SaysDelta(s, lim, base.entities, current.entities,
                      DecodeDeltaSections(s, lim, packet.val.sections).val)
<1> DEFINE destroyed == Destroyed(base.entities, current.entities)
           created == Created(base.entities, current.entities)
           pairs == Updated(s, base.entities, current.entities)
           writes == DeltaWrites(s, base.entities, current.entities)
           diff == EncodeDiff(s, lim, encoding, destroyed, created, pairs)
           sections == packet.val.sections
           said == DecodeDeltaSections(s, lim, sections)
<1>1. /\ diff.ok /\ packet.val = DeltaRecord(s, current.tick, baseline_tick, diff.val)
      /\ DiffError(s, lim, base.entities, current.entities) = None
  BY EncodedDelta
<1>2. sections = diff.val /\ packet.val.tick = current.tick
  BY <1>1 DEF DeltaRecord
<1>3. said.ok
  OBVIOUS
<1>4. IsEntities(created)
  BY ElementsAtIs DEF Created
<1>5. /\ DOMAIN writes \subseteq Nat /\ Covers(s, pairs, writes) /\ InTurn(s, pairs)
      /\ pairs = <<>> => DOMAIN writes = {}
  BY UpdatedCovers
<1> HIDE DEF destroyed, created, pairs, sections, writes
<1>6. PICK tag \in UpdateTags :
        /\ pairs # <<>> => UpdateBody(s, lim, tag, pairs).ok
        /\ sections = Joined(OneFor(destroyed, "Destroy", destroyed),
                          OneFor(created, "Create", Body(s, created)),
                          OneFor(pairs, tag, UpdateBody(s, lim, tag, pairs).val))
  <2>1. DOMAIN created \subseteq Nat
    BY <1>4 DEF IsEntities
  <2>2. \E tag \in UpdateTags : IsDiff(s, lim, encoding, destroyed, created, pairs, tag, diff.val)
    BY ONLY <1>1, <2>1, encoding \in Encodings \cup {"Auto"}, DiffIs DEF diff
  <2> HIDE DEF diff
  <2>3. QED
    BY ONLY <1>2, <2>2 DEF IsDiff
<1>7. created # <<>> => \A i \in DOMAIN created : ComponentsError(s, lim, created[i]) = None
  <2>1. DOMAIN created \subseteq Nat
    BY <1>4 DEF IsEntities
  <2>2. QED
    BY <1>1, <2>1, DiffIs
<1> DEFINE D == DecodeDestroySection(lim, destroyed)
           C == DecodeDeltaCreateSection(s, lim, Body(s, created))
           update == UpdateBody(s, lim, tag, pairs).val
           U == DecodeSection(s, lim, Section(tag, update))
<1>8. /\ destroyed # <<>> => D.ok
      /\ said.val.destroys = IF destroyed = <<>> THEN <<>> ELSE D.val
      /\ created # <<>> => C.ok
      /\ said.val.creates = IF created = <<>> THEN <<>> ELSE C.val
      /\ pairs # <<>> => U.ok
      /\ said.val.updates = IF pairs = <<>> THEN Appended(<<>>, <<>>)
                            ELSE IF tag = "Update" THEN Appended(U.val, <<>>)
                            ELSE Appended(<<>>, U.val)
  <2> HIDE DEF update, said
  <2>1. sections = Joined(OneFor(destroyed, "Destroy", destroyed),
                          OneFor(created, "Create", Body(s, created)),
                          OneFor(pairs, tag, update))
    BY <1>6 DEF update
  <2>2. DecodeDeltaSections(s, lim, sections).ok
    BY <1>3 DEF said
  <2>3. LET delta == DecodeDeltaSections(s, lim, sections).val IN
        /\ destroyed # <<>> => D.ok
        /\ delta.destroys = IF destroyed = <<>> THEN <<>> ELSE D.val
        /\ created # <<>> => C.ok
        /\ delta.creates = IF created = <<>> THEN <<>> ELSE C.val
        /\ pairs # <<>> => U.ok
        /\ delta.updates = IF pairs = <<>> THEN Appended(<<>>, <<>>)
                           ELSE IF tag = "Update" THEN Appended(U.val, <<>>)
                           ELSE Appended(<<>>, U.val)
    BY ONLY <2>1, <2>2, tag \in UpdateTags, DeltaDecoded
  <2>4. QED
    BY <2>3 DEF said
<1> HIDE DEF said
<1>9. said.val.destroys = destroyed
  <2> HIDE DEF U, C
  <2>1. CASE destroyed = <<>>
    BY <1>8, <2>1
  <2>2. CASE destroyed # <<>>
    BY <1>8, <2>2, DestroysReadBack
  <2>3. QED
    BY <2>1, <2>2
<1>10. said.val.creates = created
  <2> HIDE DEF U, D
  <2>1. CASE created = <<>>
    BY <1>8, <2>1
  <2>2. CASE created # <<>>
    <3>1. \A i \in DOMAIN created : DOMAIN created[i].components \subseteq ComponentIds(s)
      BY <1>7, <2>2, ComponentsAre
    <3>2. QED
      BY <1>4, <1>8, <2>2, <3>1, CreatesReadBack
  <2>3. QED
    BY <2>1, <2>2
<1>11. \A i \in DOMAIN created : ComponentsError(s, lim, created[i]) = None
  <2>1. CASE created = <<>>
    BY <2>1
  <2>2. QED
    BY <1>7, <2>1
<1>12. said.val.updates = Changes(s, pairs) /\ Says(s, said.val.updates, writes)
  <2> HIDE DEF C, D
  <2>1. IsList(Changes(s, pairs)) /\ Says(s, Changes(s, pairs), writes)
    BY <1>5, ChangesSay
  <2>2. CASE pairs = <<>>
    <3>1. IsList(<<>>)
      BY DEF IsList
    <3>2. Appended(<<>>, <<>>) = <<>>
      BY <3>1, AppendedIs
    <3>3. Changes(s, pairs) = <<>>
      BY <2>2 DEF Changes
    <3>4. QED
      BY <1>8, <2>1, <2>2, <3>2, <3>3
  <2>3. CASE pairs # <<>>
    <3>1. UpdateBody(s, lim, tag, pairs).ok /\ U.ok
      BY <1>6, <1>8, <2>3
    <3>2. U.val = Changes(s, pairs)
      BY <1>5, <3>1, UpdatesAreChanges
    <3> HIDE DEF U
    <3>3. said.val.updates = U.val
      BY <1>8, <2>1, <2>3, <3>2, AppendedIs
    <3>4. QED
      BY <2>1, <3>2, <3>3
  <2>4. QED
    BY <2>2, <2>3
<1>13. QED
  BY <1>1, <1>2, <1>9, <1>10, <1>11, <1>12 DEF SaysDelta, destroyed, created, pairs, writes, said, sections

-----------------------------------------------------------------------------
(* What the receiver makes of it. *)

LEMMA MinIs ==
  ASSUME NEW S, S \subseteq Nat, S # {}
  PROVE  Min(S) \in S
<1>1. \E m \in S : \A n \in S : m <= n
  BY LeastNatural
<1>2. QED
  BY <1>1 DEF Min

(* result has the entities of es that are not destroyed and those created, *)
(* each with what writes has for it.                                       *)
Outcome(s, es, delta, writes, result) ==
  /\ Ids(result) = (Ids(es) \ Range(delta.destroys)) \cup Ids(delta.creates)
  /\ \A id \in Ids(result) : \E from :
       /\ id \in Ids(delta.creates) => from = EntityOf(delta.creates, id)
       /\ id \notin Ids(delta.creates) => from = EntityOf(es, id)
       /\ id \notin DOMAIN writes => EntityOf(result, id) = from
       /\ id \in DOMAIN writes => \E u :
            /\ EntityOf(result, id) = UpdatedEntity(from, u)
            /\ \A c \in ComponentIds(s) : Written(u, c) = writes[id][c]

LEMMA AppliedIs ==
  ASSUME NEW s, NEW lim, NEW es, IsEntities(es), SortedById(es),
         NEW delta, IsEntities(delta.creates), SortedById(delta.creates),
         NEW writes, Says(s, delta.updates, writes),
         ApplyDecoded(lim, es, delta).ok
  PROVE  LET result == ApplyDecoded(lim, es, delta).val IN
         /\ IsEntities(result) /\ SortedById(result)
         /\ Outcome(s, es, delta, writes, result)
<1> DEFINE destroys == delta.destroys
           creates == delta.creates
           updates == delta.updates
           kept == ApplyDestroys(es, destroys).val
           all == ApplyCreates(kept, creates).val
           result == ApplyDecoded(lim, es, delta).val
           places == {i \in DOMAIN es : \A n \in DOMAIN destroys : destroys[n] # es[i].id}
<1>1. /\ ApplyDestroys(es, destroys).ok /\ ApplyCreates(kept, creates).ok
      /\ ApplyUpdates(all, updates).ok /\ result = ApplyUpdates(all, updates).val
  BY AppliedDecoded
<1>2. IsEntities(result) /\ SortedById(result)
  BY AppliedInOrder
<1>3. IsEntities(kept) /\ Range(kept) = {es[i] : i \in places}
  BY <1>1, DestroysApplied
<1> HIDE DEF kept
<1>4. /\ IsEntities(all) /\ Ids(all) = Ids(kept) \cup Ids(creates)
      /\ \A n \in DOMAIN all : all[n] \in Range(kept) \cup Range(creates)
      /\ Ids(kept) \cap Ids(creates) = {}
  BY <1>1, <1>3, CreatesApplied
<1> HIDE DEF all, result
<1>5. /\ DOMAIN result = DOMAIN all
      /\ \A i \in DOMAIN all :
           /\ result[i].id = all[i].id
           /\ UpdatesOf(updates, all[i].id) = {} => result[i] = all[i]
           /\ UpdatesOf(updates, all[i].id) # {} =>
                result[i] = UpdatedEntity(all[i], updates[Min(UpdatesOf(updates, all[i].id))])
  <2>1. IsEntities(all) /\ ApplyUpdates(all, updates).ok
    BY <1>1, <1>4
  <2>2. AreUpdated(all, updates, result)
    BY ONLY <1>1, <2>1, UpdatesApplied
  <2>3. QED
    BY ONLY <2>2 DEF AreUpdated
<1>6. Ids(kept) = Ids(es) \ Range(destroys)
  <2>1. Ids(kept) = {e.id : e \in {es[i] : i \in places}}
    BY <1>3, IdsAreFinite
  <2>2. {e.id : e \in {es[i] : i \in places}} = Ids(es) \ Range(destroys)
    BY DEF Ids, Range
  <2>3. QED
    BY <2>1, <2>2
<1>7. Ids(result) = Ids(all)
  BY <1>5 DEF Ids
<1>8. ASSUME NEW id \in Ids(result)
      PROVE  \E from :
              /\ id \in Ids(creates) => from = EntityOf(creates, id)
              /\ id \notin Ids(creates) => from = EntityOf(es, id)
              /\ id \notin DOMAIN writes => EntityOf(result, id) = from
              /\ id \in DOMAIN writes => \E u :
                   /\ EntityOf(result, id) = UpdatedEntity(from, u)
                   /\ \A c \in ComponentIds(s) : Written(u, c) = writes[id][c]
  <2>1. PICK i \in DOMAIN all : result[i].id = id /\ all[i].id = id
    BY <1>5 DEF Ids
  <2>2. EntityOf(result, id) = result[i]
    <3>1. result[i] \in Range(result)
      BY <1>5, <2>1 DEF Range
    <3>2. QED
      BY <1>2, <2>1, <3>1, EntityOfIs
  <2>3. id \in Ids(creates) => all[i] = EntityOf(creates, id)
    <3>1. CASE all[i] \in Range(creates)
      BY <2>1, <3>1, EntityOfIs
    <3>2. CASE all[i] \in Range(kept)
      <4>1. id \in Ids(kept)
        BY <2>1, <3>2, <1>3, IdsAreFinite
      <4>2. QED
        BY <1>4, <4>1
    <3>3. QED
      BY <1>4, <3>1, <3>2
  <2>4. id \notin Ids(creates) => all[i] = EntityOf(es, id)
    <3>1. CASE all[i] \in Range(creates)
      BY <2>1, <3>1, EntityOfIs
    <3>2. CASE all[i] \in Range(kept)
      <4>1. all[i] \in Range(es)
        BY <1>3, <3>2 DEF Range
      <4>2. QED
        BY <2>1, <4>1, EntityOfIs
    <3>3. QED
      BY <1>4, <3>1, <3>2
  <2> DEFINE mine == UpdatesOf(updates, id)
  <2>5. id \notin DOMAIN writes => mine = {}
    BY DEF Says, UpdatesOf
  <2>6. id \in DOMAIN writes => mine # {}
    BY DEF Says, UpdatesOf
  <2>7. mine \subseteq Nat
    BY DEF Says, UpdatesOf
  <2>8. ASSUME id \in DOMAIN writes
        PROVE  \E u : /\ result[i] = UpdatedEntity(all[i], u)
                      /\ \A c \in ComponentIds(s) : Written(u, c) = writes[id][c]
    <3> DEFINE n == Min(mine)
    <3>1. n \in mine
      BY <2>6, <2>7, <2>8, MinIs
    <3>2. updates[n].id = id /\ n \in DOMAIN updates
      BY <3>1 DEF UpdatesOf
    <3>3. result[i] = UpdatedEntity(all[i], updates[n])
      BY <1>5, <2>1, <2>6, <2>8
    <3> HIDE DEF n
    <3>4. \A c \in ComponentIds(s) : Written(updates[n], c) = writes[id][c]
      BY <3>2 DEF Says
    <3>5. QED
      BY <3>3, <3>4
  <2>9. id \notin DOMAIN writes => result[i] = all[i]
    BY <1>5, <2>1, <2>5
  <2> HIDE DEF mine
  <2>10. QED
    BY <2>2, <2>3, <2>4, <2>8, <2>9
<1>9. Ids(result) = (Ids(es) \ Range(destroys)) \cup Ids(creates)
  BY <1>4, <1>6, <1>7
<1>10. QED
  BY <1>2, <1>8, <1>9 DEF result, Outcome

-----------------------------------------------------------------------------
(* How far the receiver is from the sender. *)

(* The fields of an entity are those of the schema.                        *)
Fits(s, e) ==
  \A c \in DOMAIN e.components :
    /\ c \in DOMAIN Values /\ c \in ComponentIds(s)
    /\ DOMAIN Values[c] = DOMAIN ComponentOf(s, c).fields
    /\ DOMAIN e.components[c] = DOMAIN Values[c]
    /\ \A i \in DOMAIN Values[c] : e.components[c][i] \in Int

Near(s, r, e, n) ==
  /\ DOMAIN r.components = DOMAIN e.components
  /\ \A c \in DOMAIN e.components :
       /\ DOMAIN r.components[c] = DOMAIN Values[c]
       /\ \A i \in DOMAIN Values[c] :
            /\ r.components[c][i] \in Int
            /\ Abs(e.components[c][i] - r.components[c][i])
                 <= n * ComponentOf(s, c).fields[i].threshold

LEMMA ThresholdsAre ==
  ASSUME NEW s, ValidSchema(s), NEW e, Fits(s, e), NEW c \in DOMAIN e.components,
         NEW i \in DOMAIN Values[c]
  PROVE  ComponentOf(s, c).fields[i].threshold \in Nat
<1>1. c \in ComponentIds(s) /\ i \in DOMAIN ComponentOf(s, c).fields
  BY DEF Fits
<1>2. PICK k \in DOMAIN s : ComponentOf(s, c) = s[k]
  BY <1>1, ComponentOfIs
<1>3. QED
  BY <1>1, <1>2, ComponentOfIs

LEMMA NearItself ==
  ASSUME NEW s, ValidSchema(s), NEW e, Fits(s, e), NEW n \in Nat
  PROVE  Near(s, e, e, n)
<1>1. ASSUME NEW c \in DOMAIN e.components, NEW i \in DOMAIN Values[c]
      PROVE  Abs(e.components[c][i] - e.components[c][i]) <= n * ComponentOf(s, c).fields[i].threshold
  <2> DEFINE v == e.components[c][i]
             t == ComponentOf(s, c).fields[i].threshold
  <2>1. v \in Int
    BY DEF Fits
  <2>2. t \in Nat
    BY ThresholdsAre
  <2> HIDE DEF v, t
  <2>3. Abs(v - v) = 0 /\ 0 <= n * t
    BY <2>1, <2>2 DEF Abs
  <2>4. QED
    BY <2>2, <2>3 DEF v, t
<1>2. QED
  BY <1>1 DEF Near, Fits

(* A field is off by one more threshold, if its change was held back.      *)
LEMMA HeldBack ==
  ASSUME NEW r \in Int, NEW e \in Int, NEW f \in Int, NEW n \in Nat, NEW t \in Nat,
         Abs(e - r) <= n * t, Abs(e - f) <= t
  PROVE  Abs(f - r) <= (n + 1) * t
<1>1. Abs(f - r) <= Abs(e - r) + Abs(e - f)
  BY DEF Abs
<1>2. Abs(f - r) \in Int /\ Abs(e - r) \in Int /\ Abs(e - f) \in Int
  BY DEF Abs
<1>3. n * t \in Nat /\ (n + 1) * t = n * t + t
  OBVIOUS
<1>4. QED
  BY <1>1, <1>2, <1>3

(* w has for each component what is written to its fields: all of f that   *)
(* is further than its threshold from e.                                   *)
Told(s, e, f, w) ==
  \A c \in DOMAIN f.components :
    /\ \A x \in w[c] : \E i \in DOMAIN Values[c] : x = <<i, f.components[c][i]>>
    /\ \A i \in DOMAIN Values[c] :
         \/ \E x \in w[c] : x[1] = i
         \/ Abs(e.components[c][i] - f.components[c][i]) <= ComponentOf(s, c).fields[i].threshold

LEMMA NearNext ==
  ASSUME NEW s, ValidSchema(s), NEW e, Fits(s, e), NEW f, Fits(s, f),
         DOMAIN f.components = DOMAIN e.components,
         NEW n \in Nat, NEW r, Near(s, r, e, n), NEW w, Told(s, e, f, w),
         NEW new, DOMAIN new.components = DOMAIN r.components,
         \A c \in DOMAIN r.components :
           /\ DOMAIN new.components[c] = DOMAIN r.components[c]
           /\ \A i \in DOMAIN r.components[c] :
                new.components[c][i] = Overlaid(w[c], i, r.components[c][i])
  PROVE  Near(s, new, f, n + 1)
<1>1. ASSUME NEW c \in DOMAIN f.components, NEW i \in DOMAIN Values[c]
      PROVE  /\ new.components[c][i] \in Int
             /\ Abs(f.components[c][i] - new.components[c][i])
                  <= (n + 1) * ComponentOf(s, c).fields[i].threshold
  <2> DEFINE t == ComponentOf(s, c).fields[i].threshold
             fv == f.components[c][i]
             ev == e.components[c][i]
             rv == r.components[c][i]
             nv == new.components[c][i]
  <2>1. t \in Nat
    BY ThresholdsAre
  <2>2. fv \in Int /\ ev \in Int
    BY DEF Fits
  <2>3. rv \in Int /\ Abs(ev - rv) <= n * t /\ i \in DOMAIN r.components[c]
    BY DEF Near
  <2>4. nv = Overlaid(w[c], i, rv)
    <3>1. c \in DOMAIN r.components /\ i \in DOMAIN r.components[c]
      BY <2>3 DEF Near
    <3>2. QED
      BY <3>1
  <2>5. CASE \E x \in w[c] : x[1] = i
    <3> DEFINE y == CHOOSE x \in w[c] : x[1] = i
    <3>1. y \in w[c] /\ y[1] = i
      BY <2>5
    <3>2. nv = y[2]
      BY <2>4, <2>5 DEF Overlaid
    <3> HIDE DEF y
    <3>3. PICK j \in DOMAIN Values[c] : y = <<j, f.components[c][j]>>
      BY <3>1 DEF Told
    <3>4. nv = fv
      BY <3>1, <3>2, <3>3
    <3> HIDE DEF t, fv, nv
    <3>5. Abs(fv - nv) = 0 /\ 0 <= (n + 1) * t
      BY <2>1, <2>2, <3>4 DEF Abs
    <3>6. nv \in Int /\ Abs(fv - nv) <= (n + 1) * t
      BY <2>1, <2>2, <3>4, <3>5
    <3>7. QED
      BY <3>6 DEF t, fv, nv
  <2>6. CASE ~ \E x \in w[c] : x[1] = i
    <3>1. Abs(ev - fv) <= t
      BY <2>6 DEF Told
    <3>2. nv = rv
      BY <2>4, <2>6 DEF Overlaid
    <3> HIDE DEF t, fv, nv, ev, rv
    <3>3. Abs(fv - rv) <= (n + 1) * t
      BY <2>1, <2>2, <2>3, <3>1, HeldBack
    <3>4. QED
      BY <2>3, <3>2, <3>3 DEF t, fv, nv
  <2>7. QED
    BY <2>5, <2>6
<1>2. DOMAIN new.components = DOMAIN f.components
  BY DEF Near
<1>3. \A c \in DOMAIN f.components : DOMAIN new.components[c] = DOMAIN Values[c]
  BY DEF Near
<1>4. QED
  BY <1>1, <1>2, <1>3 DEF Near

(* The changes of a diff are all that is further than its threshold.       *)
LEMMA PairsTold ==
  ASSUME NEW s, ValidSchema(s), NEW e, Fits(s, e), NEW f, Fits(s, f),
         DOMAIN f.components = DOMAIN e.components,
         NEW w, \A c \in ComponentIds(s) : w[c] = PairWrites(s, e, f, c)
  PROVE  Told(s, e, f, w)
<1> SUFFICES ASSUME NEW c \in DOMAIN f.components
             PROVE  /\ \A x \in w[c] : \E i \in DOMAIN Values[c] : x = <<i, f.components[c][i]>>
                    /\ \A i \in DOMAIN Values[c] :
                         \/ \E x \in w[c] : x[1] = i
                         \/ Abs(e.components[c][i] - f.components[c][i])
                              <= ComponentOf(s, c).fields[i].threshold
  BY DEF Told
<1> DEFINE changed == FieldsOf(s, e, f, c)
           component == ComponentOf(s, c)
<1>1. c \in ComponentIds(s) /\ DOMAIN Values[c] = DOMAIN component.fields
  BY DEF Fits
<1>2. w[c] = {<<i, f.components[c][i]>> : i \in changed}
  BY <1>1 DEF PairWrites
<1>3. changed = ChangedFields(component, e.components[c], f.components[c])
  BY DEF FieldsOf, Both
<1>4. changed = {i \in DOMAIN component.fields :
                   FieldChanged(component.fields[i], e.components[c][i], f.components[c][i])}
  BY <1>3 DEF ChangedFields, Marked, FieldMask
<1> HIDE DEF changed, component
<1>5. \A x \in w[c] : \E i \in DOMAIN Values[c] : x = <<i, f.components[c][i]>>
  BY <1>1, <1>2, <1>4
<1>6. ASSUME NEW i \in DOMAIN Values[c], i \in changed
      PROVE  \E x \in w[c] : x[1] = i
  <2>1. <<i, f.components[c][i]>> \in w[c]
    BY <1>2, <1>6
  <2>2. <<i, f.components[c][i]>>[1] = i
    OBVIOUS
  <2>3. QED
    BY <2>1, <2>2
<1>7. ASSUME NEW i \in DOMAIN Values[c], i \notin changed
      PROVE  Abs(e.components[c][i] - f.components[c][i]) <= component.fields[i].threshold
  <2> DEFINE t == component.fields[i].threshold
             fv == f.components[c][i]
             ev == e.components[c][i]
  <2>1. ~(Abs(ev - fv) > t)
    BY <1>1, <1>4, <1>7 DEF FieldChanged
  <2>2. fv \in Int /\ ev \in Int
    BY DEF Fits
  <2>3. t \in Nat
    BY ThresholdsAre DEF component
  <2> HIDE DEF t, fv, ev
  <2>4. Abs(ev - fv) <= t
    BY <2>1, <2>2, <2>3 DEF Abs
  <2>5. QED
    BY <2>4 DEF t, fv, ev
<1>8. QED
  BY <1>5, <1>6, <1>7 DEF component

-----------------------------------------------------------------------------
(* A delta keeps the receiver near. *)

(* An entity of the world: each component has the fields it has everywhere. *)
Shaped(s, e) ==
  \A c \in DOMAIN e.components :
    /\ c \in DOMAIN Values /\ c \in ComponentIds(s)
    /\ DOMAIN Values[c] = 1 .. Len(e.components[c]) /\ Len(e.components[c]) \in Nat
    /\ DOMAIN e.components[c] = DOMAIN Values[c]
    /\ \A i \in DOMAIN Values[c] : e.components[c][i] \in Int

LEMMA CreatedFits ==
  ASSUME NEW s, ValidSchema(s), NEW lim, NEW e, Shaped(s, e), ComponentsError(s, lim, e) = None
  PROVE  Fits(s, e)
<1> SUFFICES ASSUME NEW c \in DOMAIN e.components
             PROVE  DOMAIN Values[c] = DOMAIN ComponentOf(s, c).fields
  BY DEF Fits, Shaped
<1>1. PICK k \in DOMAIN s : s[k].id = c /\ ComponentOf(s, c) = s[k]
  BY ComponentOfIs DEF Shaped
<1>2. k \in Marked(ComponentMask(s, e))
  BY <1>1 DEF Marked, ComponentMask
<1>3. ComponentFieldsError(s[k], lim, e.components[c]) = None
  BY <1>1, <1>2, ComponentsAre
<1>4. Len(e.components[c]) = Len(s[k].fields)
  BY <1>3 DEF ComponentFieldsError, None
<1>5. DOMAIN s[k].fields = 1 .. Len(s[k].fields)
  BY ComponentOfIs
<1>6. QED
  BY <1>1, <1>4, <1>5 DEF Shaped

(* The entities that both snapshots have, have passed the checks.        *)
LEMMA ComparedIs ==
  ASSUME NEW s, NEW lim, NEW bs, IsEntities(bs), NEW cs, DiffError(s, lim, bs, cs) = None,
         NEW id \in Common(bs, cs)
  PROVE  EntityDiffError(s, lim, EntityOf(bs, id), EntityOf(cs, id)) = None
<1> DEFINE errors == [x \in Common(bs, cs) |->
                        EntityDiffError(s, lim, EntityOf(bs, x), EntityOf(cs, x))]
<1>1. DOMAIN errors \subseteq Nat /\ id \in DOMAIN errors
  BY IdsAreFinite DEF Common
<1>2. FirstError(errors) = None
  BY DEF DiffError
<1>3. errors[id] = EntityDiffError(s, lim, EntityOf(bs, id), EntityOf(cs, id))
  BY <1>1
<1> HIDE DEF errors
<1>4. errors[id] = None
  BY <1>1, <1>2, FirstErrorIs
<1>5. QED
  BY <1>3, <1>4

LEMMA ComparedFits ==
  ASSUME NEW s, NEW lim, NEW e, Fits(s, e), NEW f, Shaped(s, f),
         EntityDiffError(s, lim, e, f) = None
  PROVE  DOMAIN f.components = DOMAIN e.components /\ Fits(s, f)
<1>1. PresenceError(s, e, f) = None
  BY DEF EntityDiffError, Then
<1>2. \A c \in ComponentIds(s) : (c \in DOMAIN e.components) <=> (c \in DOMAIN f.components)
  BY <1>1 DEF PresenceError, None
<1>3. DOMAIN e.components \subseteq ComponentIds(s) /\ DOMAIN f.components \subseteq ComponentIds(s)
  BY DEF Fits, Shaped
<1>4. DOMAIN f.components = DOMAIN e.components
  BY <1>2, <1>3
<1>5. QED
  BY <1>4 DEF Fits, Shaped

(* An entity that is not updated has nothing to write.                     *)
LEMMA NothingToWrite ==
  ASSUME NEW s, ValidSchema(s), NEW e, NEW f, ~HasUpdates(s, e, f)
  PROVE  \A c \in ComponentIds(s) : PairWrites(s, e, f, c) = {}
<1>1. ChangedPlaces(s, e, f) = {}
  BY ChangedComponentsAre DEF HasUpdates
<1>2. \A k \in DOMAIN s : FieldsOf(s, e, f, s[k].id) = {}
  BY <1>1, FieldsOfAre
<1>3. QED
  BY <1>2 DEF PairWrites, ComponentIds

(* An entity of the receiver, which is written what changed, or not at all *)
(* where nothing did.                                                      *)
LEMMA WrittenIsNear ==
  ASSUME NEW s, ValidSchema(s), NEW e, Fits(s, e), NEW f, Fits(s, f),
         DOMAIN f.components = DOMAIN e.components,
         NEW n \in Nat, NEW r, IsEntity(r), Near(s, r, e, n), NEW w, Told(s, e, f, w),
         NEW new,
         \/ /\ new = r
            /\ \A c \in ComponentIds(s) : w[c] = {}
         \/ \E u : /\ new = UpdatedEntity(r, u)
                   /\ \A c \in ComponentIds(s) : Written(u, c) = w[c]
  PROVE  Near(s, new, f, n + 1)
<1>1. DOMAIN r.components \subseteq ComponentIds(s)
  BY DEF Near, Fits
<1> DEFINE Goal == Near(s, new, f, n + 1)
<1>2. ASSUME DOMAIN new.components = DOMAIN r.components,
             \A c \in DOMAIN r.components :
               /\ DOMAIN new.components[c] = DOMAIN r.components[c]
               /\ \A i \in DOMAIN r.components[c] :
                    new.components[c][i] = Overlaid(w[c], i, r.components[c][i])
      PROVE  Goal
  <2>1. /\ ValidSchema(s) /\ Fits(s, e) /\ Fits(s, f)
        /\ DOMAIN f.components = DOMAIN e.components
        /\ n \in Nat /\ Near(s, r, e, n) /\ Told(s, e, f, w)
    OBVIOUS
  <2>2. QED
    BY ONLY <1>2, <2>1, NearNext
<1> HIDE DEF Goal
<1>3. CASE new = r /\ \A c \in ComponentIds(s) : w[c] = {}
  <2>1. \A c \in DOMAIN r.components : \A i \in DOMAIN r.components[c] :
          new.components[c][i] = Overlaid(w[c], i, r.components[c][i])
    BY <1>1, <1>3 DEF Overlaid
  <2>2. QED
    BY <1>3, <2>1, <1>2 DEF Goal
<1>4. CASE \E u : /\ new = UpdatedEntity(r, u)
                  /\ \A c \in ComponentIds(s) : Written(u, c) = w[c]
  <2>1. PICK u : /\ new = UpdatedEntity(r, u)
                 /\ \A c \in ComponentIds(s) : Written(u, c) = w[c]
    BY <1>4
  <2>2. /\ DOMAIN new.components = DOMAIN r.components
        /\ \A c \in DOMAIN r.components :
              /\ DOMAIN new.components[c] = DOMAIN r.components[c]
              /\ \A i \in DOMAIN r.components[c] :
                   new.components[c][i] = Overlaid(Written(u, c), i, r.components[c][i])
    <3>1. LET updated == UpdatedEntity(r, u) IN
          /\ IsEntity(updated) /\ updated.id = r.id
          /\ DOMAIN updated.components = DOMAIN r.components
          /\ \A c \in DOMAIN r.components :
              /\ DOMAIN updated.components[c] = DOMAIN r.components[c]
              /\ \A i \in DOMAIN r.components[c] :
                   updated.components[c][i] = Overlaid(Written(u, c), i, r.components[c][i])
      BY ONLY IsEntity(r), UpdatedIs
    <3>2. QED
      BY ONLY <2>1, <3>1
  <2>3. \A c \in DOMAIN r.components : Written(u, c) = w[c]
    BY <1>1, <2>1
  <2>4. \A c \in DOMAIN r.components :
           /\ DOMAIN new.components[c] = DOMAIN r.components[c]
           /\ \A i \in DOMAIN r.components[c] :
                new.components[c][i] = Overlaid(w[c], i, r.components[c][i])
    BY <2>2, <2>3
  <2>5. QED
    BY <2>2, <2>4, <1>2 DEF Goal
<1>5. QED
  BY <1>3, <1>4

LEMMA CreatedIs ==
  ASSUME NEW bs, IsEntities(bs), NEW cs, IsEntities(cs), SortedById(cs)
  PROVE  LET created == Created(bs, cs) IN
         /\ IsEntities(created) /\ SortedById(created)
         /\ Ids(created) = Ids(cs) \ Ids(bs)
         /\ \A id \in Ids(created) : /\ EntityOf(created, id) = EntityOf(cs, id)
                                     /\ \E i \in DOMAIN created : created[i] = EntityOf(cs, id)
<1> DEFINE places == {i \in DOMAIN cs : cs[i].id \notin Ids(bs)}
           created == Created(bs, cs)
<1>1. /\ IsEntities(created) /\ SortedById(created)
      /\ Range(created) = {cs[i] : i \in places}
  <2>1. created = ElementsAt(cs, places)
    BY DEF Created
  <2>2. places \subseteq DOMAIN cs
    OBVIOUS
  <2> HIDE DEF places, created
  <2>3. QED
    BY <2>1, <2>2, ElementsAtIs
<1> HIDE DEF created
<1>2. Ids(created) = Ids(cs) \ Ids(bs)
  <2>1. Ids(created) = {e.id : e \in {cs[i] : i \in places}}
    BY <1>1, IdsAreFinite
  <2>2. {e.id : e \in {cs[i] : i \in places}} = Ids(cs) \ Ids(bs)
    BY DEF Ids
  <2>3. QED
    BY <2>1, <2>2
<1>3. Range(created) \subseteq Range(cs)
  BY <1>1 DEF Range
<1>4. ASSUME NEW id \in Ids(created)
      PROVE  /\ EntityOf(created, id) = EntityOf(cs, id)
             /\ \E i \in DOMAIN created : created[i] = EntityOf(cs, id)
  <2>1. EntityOf(created, id) \in Range(created) /\ EntityOf(created, id).id = id
    BY <1>1, EntityOfIs
  <2>2. EntityOf(cs, id) = EntityOf(created, id)
    BY <1>3, <2>1, EntityOfIs
  <2>3. QED
    BY <2>1, <2>2 DEF Range
<1>5. QED
  BY <1>1, <1>2, <1>4 DEF created

LEMMA DestroyedIs ==
  ASSUME NEW bs, IsEntities(bs), NEW cs
  PROVE  Range(Destroyed(bs, cs)) = Ids(bs) \ Ids(cs)
<1> DEFINE gone == Ids(bs) \ Ids(cs)
           order == Listed(gone)
<1>1. IsFiniteSet(gone) /\ gone \subseteq Int
  <2>1. IsFiniteSet(Ids(bs)) /\ Ids(bs) \subseteq Nat /\ gone \subseteq Ids(bs)
    BY IdsAreFinite
  <2> HIDE DEF gone
  <2>2. gone \subseteq Int
    BY <2>1
  <2>3. QED
    BY <2>1, <2>2, FS_Subset
<1> HIDE DEF gone
<1>2. /\ \A n \in DOMAIN order : order[n] \in gone
      /\ \A x \in gone : /\ Cardinality(UpTo(gone, x)) \in DOMAIN order
                         /\ order[Cardinality(UpTo(gone, x))] = x
  BY <1>1, ListedIs
<1> HIDE DEF order
<1>3. Range(order) = gone
  BY <1>2 DEF Range
<1>4. QED
  BY <1>3 DEF Destroyed, order, gone

(* A snapshot with, for each entity, what its receiver has of it.          *)
Copied(s, es, bs, n) ==
  /\ IsEntities(es) /\ SortedById(es)
  /\ IsEntities(bs) /\ SortedById(bs)
  /\ Ids(es) = Ids(bs)
  /\ \A id \in Ids(bs) :
       Fits(s, EntityOf(bs, id)) /\ Near(s, EntityOf(es, id), EntityOf(bs, id), n)

(* A snapshot of the world. *)
Taken(s, cs) ==
  /\ IsEntities(cs) /\ SortedById(cs)
  /\ \A id \in Ids(cs) : Shaped(s, EntityOf(cs, id))

LEMMA DeltaFollows ==
  ASSUME NEW s, ValidSchema(s), Indexed(s), NEW lim, NEW encoding \in Encodings \cup {"Auto"},
         NEW n \in Nat, NEW baseline_tick, NEW base, NEW had, Copied(s, had.entities, base.entities, n),
         NEW current, Taken(s, current.entities),
         NEW packet, packet = EncodeDelta(s, lim, encoding, baseline_tick, base, current), packet.ok,
         NEW applied, applied = ApplyDelta(s, lim, had, packet.val), applied.ok
  PROVE  /\ applied.val.tick = current.tick
         /\ Copied(s, applied.val.entities, current.entities, n + 1)
<1> DEFINE es == had.entities
           bs == base.entities
           cs == current.entities
           writes == DeltaWrites(s, bs, cs)
           created == Created(bs, cs)
           said == DecodeDeltaSections(s, lim, packet.val.sections)
           result == ApplyDecoded(lim, es, said.val).val
<1>1. /\ said.ok /\ ApplyDecoded(lim, es, said.val).ok
      /\ applied.val = [tick |-> packet.val.tick, entities |-> result]
  BY AppliedDelta
<1>2. /\ IsEntities(bs) /\ SortedById(bs) /\ IsEntities(cs) /\ SortedById(cs)
      /\ IsEntities(es) /\ SortedById(es) /\ Ids(es) = Ids(bs)
  BY DEF Copied, Taken
<1>3. /\ packet.val.tick = current.tick
      /\ DiffError(s, lim, bs, cs) = None
      /\ said.val.destroys = Destroyed(bs, cs)
      /\ said.val.creates = created
      /\ \A i \in DOMAIN created : ComponentsError(s, lim, created[i]) = None
      /\ Says(s, said.val.updates, writes)
  <2>1. /\ ValidSchema(s) /\ Indexed(s) /\ encoding \in Encodings \cup {"Auto"}
        /\ IsEntities(base.entities) /\ SortedById(base.entities)
        /\ IsEntities(current.entities) /\ SortedById(current.entities)
        /\ packet = EncodeDelta(s, lim, encoding, baseline_tick, base, current) /\ packet.ok
        /\ DecodeDeltaSections(s, lim, packet.val.sections).ok
    BY <1>1, <1>2
  <2>2. /\ packet.val.tick = current.tick
        /\ DiffError(s, lim, base.entities, current.entities) = None
        /\ SaysDelta(s, lim, base.entities, current.entities,
                     DecodeDeltaSections(s, lim, packet.val.sections).val)
    BY ONLY <2>1, DeltaSays
  <2>3. QED
    BY <2>2 DEF SaysDelta
<1>4. /\ IsEntities(created) /\ SortedById(created)
      /\ Ids(created) = Ids(cs) \ Ids(bs)
      /\ \A id \in Ids(created) : /\ EntityOf(created, id) = EntityOf(cs, id)
                                  /\ \E i \in DOMAIN created : created[i] = EntityOf(cs, id)
  BY <1>2, CreatedIs
<1>5. Range(said.val.destroys) = Ids(bs) \ Ids(cs)
  BY <1>2, <1>3, DestroyedIs
<1>6. applied.val.tick = current.tick /\ applied.val.entities = result
  BY <1>1, <1>3
<1> HIDE DEF said, created, writes
<1>7. /\ IsEntities(result) /\ SortedById(result)
      /\ Outcome(s, es, said.val, writes, result)
  <2>1. /\ IsEntities(said.val.creates) /\ SortedById(said.val.creates)
        /\ Says(s, said.val.updates, writes)
    BY <1>3, <1>4
  <2> HIDE DEF es
  <2>2. QED
    BY <1>1, <1>2, <2>1, AppliedIs
<1> HIDE DEF result
<1>8. Ids(result) = Ids(cs)
  BY <1>2, <1>3, <1>4, <1>5, <1>7 DEF Outcome
<1>9. /\ DOMAIN writes = ChangedIds(s, bs, cs)
      /\ \A id \in DOMAIN writes : \A c \in ComponentIds(s) :
           writes[id][c] = PairWrites(s, EntityOf(bs, id), EntityOf(cs, id), c)
  BY DEF writes, DeltaWrites
<1>10. ASSUME NEW id \in Ids(cs)
       PROVE  Fits(s, EntityOf(cs, id)) /\ Near(s, EntityOf(result, id), EntityOf(cs, id), n + 1)
  <2> DEFINE f == EntityOf(cs, id)
             new == EntityOf(result, id)
  <2>1. Shaped(s, f)
    BY DEF Taken
  <2>2. PICK from :
           /\ id \in Ids(created) => from = EntityOf(created, id)
           /\ id \notin Ids(created) => from = EntityOf(es, id)
           /\ id \notin DOMAIN writes => EntityOf(result, id) = from
           /\ id \in DOMAIN writes => \E u :
                /\ EntityOf(result, id) = UpdatedEntity(from, u)
                /\ \A c \in ComponentIds(s) : Written(u, c) = writes[id][c]
    BY <1>3, <1>7, <1>8 DEF Outcome
  <2>3. CASE id \notin Ids(bs)
    <3>1. id \in Ids(created)
      BY <1>4, <2>3
    <3>2. id \notin DOMAIN writes
      BY <1>9, <2>3 DEF ChangedIds, Common
    <3>3. new = f
      BY <1>4, <2>2, <3>1, <3>2
    <3>4. ComponentsError(s, lim, f) = None
      BY <1>3, <1>4, <3>1
    <3> HIDE DEF f, new
    <3>5. Fits(s, f)
      BY <2>1, <3>4, CreatedFits
    <3>6. n + 1 \in Nat
      OBVIOUS
    <3>7. Near(s, f, f, n + 1)
      BY <3>5, <3>6, NearItself
    <3>8. QED
      BY <3>3, <3>5, <3>7 DEF f, new
  <2>4. CASE id \in Ids(bs)
    <3> DEFINE e == EntityOf(bs, id)
               r == EntityOf(es, id)
               w == [c \in ComponentIds(s) |-> PairWrites(s, e, f, c)]
    <3>1. Fits(s, e) /\ Near(s, r, e, n)
      BY <2>4 DEF Copied
    <3>2. IsEntity(r)
      BY <1>2, <2>4, EntityOfIs
    <3>3. EntityDiffError(s, lim, e, f) = None
      BY <1>2, <1>3, <2>4, ComparedIs DEF Common
    <3>4. from = r
      BY <1>4, <2>2, <2>4
    <3>5. id \in DOMAIN writes => \A c \in ComponentIds(s) : writes[id][c] = w[c]
      BY <1>9
    <3>6. id \notin DOMAIN writes => \A c \in ComponentIds(s) : w[c] = {}
      <4>1. ASSUME id \notin DOMAIN writes PROVE ~HasUpdates(s, e, f)
        BY <1>9, <2>4, <4>1 DEF ChangedIds, Common
      <4> HIDE DEF e, f
      <4>2. QED
        BY <4>1, NothingToWrite
    <3>7. \A c \in ComponentIds(s) : w[c] = PairWrites(s, e, f, c)
      OBVIOUS
    <3> HIDE DEF e, f, r, w, new
    <3>8. DOMAIN f.components = DOMAIN e.components /\ Fits(s, f)
      BY <2>1, <3>1, <3>3, ComparedFits
    <3>9. Told(s, e, f, w)
      BY <3>1, <3>7, <3>8, PairsTold
    <3>10. \/ /\ new = r
              /\ \A c \in ComponentIds(s) : w[c] = {}
           \/ \E u : /\ new = UpdatedEntity(r, u)
                     /\ \A c \in ComponentIds(s) : Written(u, c) = w[c]
      <4>1. CASE id \in DOMAIN writes
        <5>1. PICK u : /\ new = UpdatedEntity(r, u)
                       /\ \A c \in ComponentIds(s) : Written(u, c) = writes[id][c]
          BY <2>2, <3>4, <4>1 DEF new
        <5>2. \A c \in ComponentIds(s) : Written(u, c) = w[c]
          BY <3>5, <4>1, <5>1
        <5>3. QED
          BY <5>1, <5>2
      <4>2. CASE id \notin DOMAIN writes
        BY <2>2, <3>4, <3>6, <4>2 DEF new
      <4>3. QED
        BY <4>1, <4>2
    <3>11. Near(s, new, f, n + 1)
      BY <3>1, <3>2, <3>8, <3>9, <3>10, WrittenIsNear
    <3>12. QED
      BY <3>8, <3>11 DEF f, new
  <2>5. QED
    BY <2>3, <2>4
<1>11. Copied(s, result, cs, n + 1)
  BY <1>2, <1>7, <1>8, <1>10 DEF Copied
<1>12. QED
  BY <1>6, <1>11

-----------------------------------------------------------------------------
(* The lists of build_dirty_updates. *)

(* The fields of component c that differ, with their new values.           *)
DirtyWrites(base, curr, c) ==
  IF c \in Both(base, curr)
  THEN {<<i, curr.components[c][i]>> :
          i \in {i \in DOMAIN base.components[c] : base.components[c][i] # curr.components[c][i]}}
  ELSE {}

DirtyPlaces(s, base, curr) ==
  {k \in Shared(s, base, curr) :
     DirtyFields(base.components[s[k].id], curr.components[s[k].id]) # <<>>}

DirtyOf(s, base, curr) ==
  [j \in DOMAIN Listed(DirtyPlaces(s, base, curr)) |->
     [id |-> s[Listed(DirtyPlaces(s, base, curr))[j]].id,
      fields |-> DirtyFields(base.components[s[Listed(DirtyPlaces(s, base, curr))[j]].id],
                             curr.components[s[Listed(DirtyPlaces(s, base, curr))[j]].id])]]

LEMMA DirtyFieldsAre ==
  ASSUME NEW m \in Nat, NEW base, DOMAIN base = 1 .. m, NEW curr
  PROVE  LET dirty == DirtyFields(base, curr) IN
         /\ IsList(dirty)
         /\ \A n \in DOMAIN dirty : dirty[n] = <<dirty[n][1], dirty[n][2]>> /\ dirty[n][1] \in DOMAIN base
         /\ Range(dirty) = {<<i, curr[i]>> : i \in {i \in DOMAIN base : base[i] # curr[i]}}
         /\ dirty = <<>> => \A i \in DOMAIN base : base[i] = curr[i]
<1> DEFINE places == {i \in DOMAIN base : base[i] # curr[i]}
           order == Listed(places)
           dirty == DirtyFields(base, curr)
<1>1. IsFiniteSet(places) /\ places \subseteq Int
  <2>1. IsFiniteSet(1 .. m) /\ places \in SUBSET (1 .. m)
    BY FS_Interval
  <2> HIDE DEF places
  <2>2. places \subseteq Int
    BY <2>1
  <2>3. QED
    BY <2>1, <2>2, FS_Subset
<1>2. dirty = [n \in DOMAIN order |-> <<order[n], curr[order[n]]>>]
  BY DEF DirtyFields
<1>3. places \subseteq DOMAIN base /\ \A i \in DOMAIN base : base[i] # curr[i] => i \in places
  OBVIOUS
<1> HIDE DEF places
<1>4. /\ Cardinality(places) \in Nat /\ DOMAIN order = 1 .. Cardinality(places)
      /\ \A n \in DOMAIN order : order[n] \in places
      /\ \A x \in places : /\ Cardinality(UpTo(places, x)) \in DOMAIN order
                           /\ order[Cardinality(UpTo(places, x))] = x
  BY <1>1, ListedIs
<1> HIDE DEF order, dirty
<1>5. /\ DOMAIN dirty = DOMAIN order /\ dirty = [n \in DOMAIN dirty |-> dirty[n]]
      /\ \A n \in DOMAIN order : dirty[n] = <<order[n], curr[order[n]]>>
  BY <1>2
<1>6. IsList(dirty)
  BY <1>4, <1>5, ListsAre
<1>7. \A n \in DOMAIN dirty : dirty[n] = <<dirty[n][1], dirty[n][2]>> /\ dirty[n][1] \in DOMAIN base
  <2> TAKE n \in DOMAIN dirty
  <2>1. dirty[n] = <<order[n], curr[order[n]]>> /\ order[n] \in places
    BY <1>4, <1>5
  <2>2. dirty[n][1] = order[n] /\ dirty[n][2] = curr[order[n]]
    BY <2>1
  <2>3. QED
    BY <1>3, <2>1, <2>2
<1>8. Range(dirty) = {<<i, curr[i]>> : i \in places}
  <2>1. \A x \in Range(dirty) : x \in {<<i, curr[i]>> : i \in places}
    BY <1>4, <1>5 DEF Range
  <2>2. \A i \in places : <<i, curr[i]>> \in Range(dirty)
    BY <1>4, <1>5 DEF Range
  <2>3. QED
    BY <2>1, <2>2
<1>9. ASSUME dirty = <<>>, NEW i \in DOMAIN base
      PROVE  base[i] = curr[i]
  <2>1. DOMAIN dirty = {}
    BY <1>9
  <2>2. places = {}
    BY <1>4, <1>5, <2>1
  <2>3. QED
    BY <1>3, <2>2
<1>10. QED
  BY <1>6, <1>7, <1>8, <1>9 DEF dirty, places

LEMMA DirtyOfIs ==
  ASSUME NEW s, ValidSchema(s), NEW base, Fits(s, base), NEW curr, NEW id
  PROVE  LET dirty == DirtyOf(s, base, curr) IN
         /\ IsList(dirty)
         /\ \A j \in DOMAIN dirty :
              /\ dirty[j].id \in ComponentIds(s) /\ IsList(dirty[j].fields)
              /\ \A n \in DOMAIN dirty[j].fields :
                   dirty[j].fields[n] = <<dirty[j].fields[n][1], dirty[j].fields[n][2]>>
         /\ \A c \in ComponentIds(s) :
              Written([id |-> id, components |-> dirty], c) = DirtyWrites(base, curr, c)
         /\ dirty = <<>> => \A c \in ComponentIds(s) : DirtyWrites(base, curr, c) = {}
<1> DEFINE places == DirtyPlaces(s, base, curr)
           order == Listed(places)
           dirty == DirtyOf(s, base, curr)
           fields(k) == DirtyFields(base.components[s[k].id], curr.components[s[k].id])
           update == [id |-> id, components |-> dirty]
           w == [c \in ComponentIds(s) |-> DirtyWrites(base, curr, c)]
<1>1. places \subseteq DOMAIN s /\ DOMAIN s = 1 .. Len(s) /\ Len(s) \in Nat
  BY DEF DirtyPlaces, Shared, ValidSchema
<1>2. IsFiniteSet(places) /\ places \subseteq Int
  <2>1. IsFiniteSet(1 .. Len(s)) /\ places \in SUBSET (1 .. Len(s))
    BY <1>1, FS_Interval
  <2> HIDE DEF places
  <2>2. places \subseteq Int
    BY <2>1
  <2>3. QED
    BY <2>1, <2>2, FS_Subset
<1>3. dirty = [j \in DOMAIN order |-> [id |-> s[order[j]].id, fields |-> fields(order[j])]]
  BY DEF DirtyOf
<1>4. ASSUME NEW k \in DOMAIN s
      PROVE  /\ s[k].id \in Both(base, curr) =>
                  /\ IsList(fields(k))
                  /\ \A n \in DOMAIN fields(k) : fields(k)[n] = <<fields(k)[n][1], fields(k)[n][2]>>
                  /\ Range(fields(k)) = DirtyWrites(base, curr, s[k].id)
             /\ k \notin places => DirtyWrites(base, curr, s[k].id) = {}
             /\ k \in places => s[k].id \in Both(base, curr)
  <2> DEFINE c == s[k].id
             b == base.components[c]
             f == curr.components[c]
  <2>1. k \in places => c \in Both(base, curr)
    BY DEF DirtyPlaces, Shared
  <2>2. ASSUME c \in Both(base, curr)
        PROVE  \E m \in Nat : DOMAIN b = 1 .. m
    <3>1. DOMAIN b = DOMAIN ComponentOf(s, c).fields
      BY <2>2 DEF Fits, Both
    <3>2. ComponentOf(s, c) = s[k]
      BY ComponentOfIs
    <3>3. DOMAIN s[k].fields = 1 .. Len(s[k].fields) /\ Len(s[k].fields) \in Nat
      BY ComponentOfIs
    <3>4. QED
      BY <3>1, <3>2, <3>3
  <2>3. ASSUME c \in Both(base, curr)
        PROVE  LET dirty_fields == DirtyFields(b, f) IN
               /\ IsList(dirty_fields)
               /\ \A n \in DOMAIN dirty_fields :
                    /\ dirty_fields[n] = <<dirty_fields[n][1], dirty_fields[n][2]>>
                    /\ dirty_fields[n][1] \in DOMAIN b
               /\ Range(dirty_fields) = {<<i, f[i]>> : i \in {i \in DOMAIN b : b[i] # f[i]}}
               /\ dirty_fields = <<>> => \A i \in DOMAIN b : b[i] = f[i]
    <3>1. PICK m \in Nat : DOMAIN b = 1 .. m
      BY <2>2, <2>3
    <3> HIDE DEF b, f
    <3>2. QED
      BY ONLY <3>1, DirtyFieldsAre
  <2>4. c \in Both(base, curr) =>
          DirtyWrites(base, curr, c) = {<<i, f[i]>> : i \in {i \in DOMAIN b : b[i] # f[i]}}
    BY DEF DirtyWrites
  <2>5. k \notin places /\ c \in Both(base, curr) => DirtyFields(b, f) = <<>>
    BY DEF DirtyPlaces, Shared
  <2>6. c \notin Both(base, curr) => DirtyWrites(base, curr, c) = {}
    BY DEF DirtyWrites
  <2>7. k \notin places /\ c \in Both(base, curr) => DirtyWrites(base, curr, c) = {}
    <3> HIDE DEF places, b, f, c
    <3>1. QED
      BY <2>3, <2>4, <2>5
  <2> HIDE DEF places
  <2>8. QED
    BY <2>1, <2>3, <2>4, <2>6, <2>7
<1> HIDE DEF places, dirty, fields
<1>5. /\ Cardinality(places) \in Nat /\ DOMAIN order = 1 .. Cardinality(places)
      /\ \A n \in DOMAIN order : order[n] \in places
      /\ \A k \in places : /\ Cardinality(UpTo(places, k)) \in DOMAIN order
                           /\ order[Cardinality(UpTo(places, k))] = k
  BY <1>2, ListedIs
<1> HIDE DEF order
<1>6. /\ DOMAIN dirty = DOMAIN order /\ dirty = [j \in DOMAIN dirty |-> dirty[j]]
      /\ \A j \in DOMAIN order : dirty[j].id = s[order[j]].id /\ dirty[j].fields = fields(order[j])
  BY <1>3
<1>7. IsList(dirty)
  BY <1>5, <1>6, ListsAre
<1>8. ASSUME NEW j \in DOMAIN dirty
      PROVE  /\ dirty[j].id \in ComponentIds(s) /\ IsList(dirty[j].fields)
             /\ \A n \in DOMAIN dirty[j].fields :
                  dirty[j].fields[n] = <<dirty[j].fields[n][1], dirty[j].fields[n][2]>>
  <2>1. order[j] \in places /\ order[j] \in DOMAIN s
    BY <1>1, <1>5, <1>6
  <2>2. dirty[j].id = s[order[j]].id /\ dirty[j].fields = fields(order[j])
    BY <1>6
  <2>3. QED
    BY <1>4, <2>1, <2>2 DEF ComponentIds
<1>9. \A c \in ComponentIds(s) : Written(update, c) = w[c]
  <2>1. \A u \in Range(update.components) : \E k \in places :
           u.id = s[k].id /\ Range(u.fields) = w[s[k].id]
    <3> TAKE u \in Range(update.components)
    <3>1. PICK j \in DOMAIN dirty : u = dirty[j]
      BY DEF Range
    <3>2. order[j] \in places /\ order[j] \in DOMAIN s
      BY <1>1, <1>5, <1>6
    <3>3. u.id = s[order[j]].id /\ Range(u.fields) = DirtyWrites(base, curr, s[order[j]].id)
      BY <1>4, <1>6, <3>1, <3>2
    <3>4. w[s[order[j]].id] = DirtyWrites(base, curr, s[order[j]].id)
      BY <3>2 DEF ComponentIds
    <3>5. QED
      BY <3>2, <3>3, <3>4
  <2>2. \A k \in places : \E u \in Range(update.components) : u.id = s[k].id
    <3> TAKE k \in places
    <3>1. PICK j \in DOMAIN order : order[j] = k
      BY <1>5
    <3>2. dirty[j] \in Range(update.components) /\ dirty[j].id = s[k].id
      BY <1>6, <3>1 DEF Range
    <3>3. QED
      BY <3>2
  <2>3. \A k \in DOMAIN s \ places : w[s[k].id] = {}
    BY <1>4 DEF ComponentIds
  <2> HIDE DEF w, update
  <2>4. Names(s, places, w, update)
    BY <1>1, <2>1, <2>2, <2>3 DEF Names
  <2>5. QED
    BY ONLY ValidSchema(s), <2>4, WrittenFrom
<1>10. ASSUME dirty = <<>>, NEW c \in ComponentIds(s)
       PROVE  DirtyWrites(base, curr, c) = {}
  <2>1. DOMAIN dirty = {}
    BY <1>10
  <2>2. places = {}
    BY <1>5, <1>6, <2>1
  <2>3. QED
    BY <1>4, <2>2 DEF ComponentIds
<1>11. QED
  BY <1>7, <1>8, <1>9, <1>10 DEF dirty

-----------------------------------------------------------------------------
(* The packet of a list of updates. *)

IsPairs(fields) ==
  /\ IsList(fields)
  /\ \A n \in DOMAIN fields : fields[n] = <<fields[n][1], fields[n][2]>>

(* Updates as validate_updates_for_encoding takes them.                    *)
IsUpdates(updates) ==
  /\ IsList(updates)
  /\ \A i \in DOMAIN updates :
       /\ IsList(updates[i].components) /\ updates[i].components # <<>>
       /\ \A j \in DOMAIN updates[i].components : IsPairs(updates[i].components[j].fields)

(* What it checks of component u of an update.                             *)
ListedError(s, lim, u) ==
  IF u.id \notin ComponentIds(s) \/ u.fields = <<>> THEN "InvalidMask"
  ELSE IF Len(u.fields) > lim.fields THEN "LimitsExceeded"
  ELSE IF \E n \in DOMAIN u.fields :
            u.fields[n][1] \notin DOMAIN ComponentOf(s, u.id).fields
  THEN "InvalidMask" ELSE None

LEMMA ListIsChecked ==
  ASSUME NEW s, NEW lim, NEW updates, IsUpdates(updates), UpdateListError(s, lim, updates) = None
  PROVE  \A i \in DOMAIN updates : \A j \in DOMAIN updates[i].components :
           LET u == updates[i].components[j] IN
           /\ u.id \in ComponentIds(s)
           /\ \A n \in DOMAIN u.fields : u.fields[n][1] \in DOMAIN ComponentOf(s, u.id).fields
<1> DEFINE inner(i) == [j \in DOMAIN updates[i].components |-> ListedError(s, lim, updates[i].components[j])]
           count(i) == IF Len(updates[i].components) > lim.components THEN "LimitsExceeded" ELSE None
           outer == [i \in DOMAIN updates |->
                       Then(OrderError(updates, i), Then(count(i), FirstError(inner(i))))]
<1>1. UpdateListError(s, lim, updates) = FirstError(outer)
  BY DEF UpdateListError, ListedError
<1>2. DOMAIN outer \subseteq Nat /\ \A i \in DOMAIN updates : DOMAIN inner(i) \subseteq Nat
  <2>1. DOMAIN updates \subseteq Nat
    BY DEF IsUpdates, IsList
  <2>2. DOMAIN outer = DOMAIN updates
    OBVIOUS
  <2>3. ASSUME NEW i \in DOMAIN updates
        PROVE  DOMAIN updates[i].components \subseteq Nat
    <3>1. IsList(updates[i].components)
      BY DEF IsUpdates
    <3>2. QED
      BY ONLY <3>1 DEF IsList
  <2>4. \A i : DOMAIN inner(i) = DOMAIN updates[i].components
    OBVIOUS
  <2> HIDE DEF outer, inner
  <2>5. QED
    BY <2>1, <2>2, <2>3, <2>4
<1>3. ASSUME NEW i \in DOMAIN updates
      PROVE  FirstError(inner(i)) = None
  <2>1. outer[i] = Then(OrderError(updates, i), Then(count(i), FirstError(inner(i)))) /\ i \in DOMAIN outer
    OBVIOUS
  <2> HIDE DEF outer, inner, count
  <2>2. outer[i] = None
    BY <1>1, <1>2, <2>1, FirstErrorIs
  <2>3. QED
    BY <2>1, <2>2 DEF Then
<1>4. ASSUME NEW i \in DOMAIN updates, NEW j \in DOMAIN updates[i].components
      PROVE  ListedError(s, lim, updates[i].components[j]) = None
  <2>1. inner(i)[j] = ListedError(s, lim, updates[i].components[j]) /\ j \in DOMAIN inner(i)
    OBVIOUS
  <2> HIDE DEF inner
  <2>2. inner(i)[j] = None
    BY <1>2, <1>3, <2>1, FirstErrorIs
  <2>3. QED
    BY <2>1, <2>2
<1>5. QED
  BY <1>4 DEF ListedError, None

(* An entry of the section: the index of a field keeps its value in the    *)
(* bits it has.                                                            *)
ListEntry(s, e, u) ==
  [entity |-> e.id, component |-> u.id,
   fields |-> [n \in DOMAIN u.fields |->
     <<PackedIndex(ComponentOf(s, u.id), u.fields[n][1]), u.fields[n][2]>>]]

LEMMA ListEntryIs ==
  ASSUME NEW s, ValidSchema(s), Indexed(s), NEW e, NEW u, IsPairs(u.fields), u.id \in ComponentIds(s),
         \A n \in DOMAIN u.fields : u.fields[n][1] \in DOMAIN ComponentOf(s, u.id).fields
  PROVE  /\ ListEntry(s, e, u).entity = e.id /\ ListEntry(s, e, u).component = u.id
         /\ ListEntry(s, e, u).fields = u.fields
<1>1. PICK k \in DOMAIN s : ComponentOf(s, u.id) = s[k]
  BY ComponentOfIs
<1> DEFINE written == [n \in DOMAIN u.fields |->
                         <<PackedIndex(ComponentOf(s, u.id), u.fields[n][1]), u.fields[n][2]>>]
<1>2. \A n \in DOMAIN u.fields : written[n] = u.fields[n]
  <2> TAKE n \in DOMAIN u.fields
  <2>1. PackedIndex(s[k], u.fields[n][1]) = u.fields[n][1]
    BY <1>1, PackedIndexIs
  <2>2. u.fields[n] = <<u.fields[n][1], u.fields[n][2]>>
    BY DEF IsPairs
  <2>3. QED
    BY <1>1, <2>1, <2>2
<1>3. written = u.fields
  BY <1>2 DEF IsPairs, IsList
<1>4. QED
  BY <1>3 DEF ListEntry

ListEntries(s, updates) ==
  [i \in DOMAIN updates |->
     [j \in DOMAIN updates[i].components |-> ListEntry(s, updates[i], updates[i].components[j])]]

(* The entries of an update give what the update writes.                   *)
LEMMA UpdateGives ==
  ASSUME NEW s, ValidSchema(s), Indexed(s), NEW e, IsList(e.components),
         \A j \in DOMAIN e.components :
           LET u == e.components[j] IN
           /\ IsPairs(u.fields) /\ u.id \in ComponentIds(s)
           /\ \A n \in DOMAIN u.fields : u.fields[n][1] \in DOMAIN ComponentOf(s, u.id).fields,
         NEW entries, entries = [j \in DOMAIN e.components |-> ListEntry(s, e, e.components[j])]
  PROVE  /\ IsList(entries) /\ Len(entries) = Len(e.components)
         /\ \A x \in Range(entries) : x.entity = e.id
         /\ \A c \in ComponentIds(s) : Given(Range(entries), e.id, c) = Written(e, c)
<1>1. /\ DOMAIN entries = DOMAIN e.components /\ entries = [j \in DOMAIN entries |-> entries[j]]
      /\ \A j \in DOMAIN entries : entries[j] = ListEntry(s, e, e.components[j])
  OBVIOUS
<1>2. IsList(entries) /\ Len(entries) = Len(e.components)
  <2>1. Len(e.components) \in Nat /\ DOMAIN entries = 1 .. Len(e.components)
    BY <1>1 DEF IsList
  <2>2. QED
    BY ONLY <1>1, <2>1, ListsAre
<1>3. ASSUME NEW j \in DOMAIN entries
      PROVE  /\ entries[j].entity = e.id /\ entries[j].component = e.components[j].id
             /\ entries[j].fields = e.components[j].fields
  <2> DEFINE u == e.components[j]
  <2>1. /\ IsPairs(u.fields) /\ u.id \in ComponentIds(s)
        /\ \A n \in DOMAIN u.fields : u.fields[n][1] \in DOMAIN ComponentOf(s, u.id).fields
    BY <1>1
  <2>2. entries[j] = ListEntry(s, e, u)
    BY <1>1
  <2> HIDE DEF u
  <2>3. ListEntry(s, e, u).entity = e.id /\ ListEntry(s, e, u).component = u.id
        /\ ListEntry(s, e, u).fields = u.fields
    BY <2>1, ListEntryIs
  <2>4. QED
    BY <2>2, <2>3 DEF u
<1>4. \A x \in Range(entries) : x.entity = e.id
  BY <1>3 DEF Range
<1>5. ASSUME NEW c \in ComponentIds(s)
      PROVE  Given(Range(entries), e.id, c) = Written(e, c)
  <2> DEFINE given == {x \in Range(entries) : x.entity = e.id /\ x.component = c}
             written == {u \in Range(e.components) : u.id = c}
  <2>1. ASSUME NEW x \in given
        PROVE  \E u \in written : Range(u.fields) = Range(x.fields)
    <3>1. PICK j \in DOMAIN entries : x = entries[j]
      BY DEF Range
    <3>2. e.components[j] \in Range(e.components)
      BY <1>1 DEF Range
    <3>3. QED
      BY <1>3, <3>1, <3>2
  <2>2. ASSUME NEW u \in written
        PROVE  \E x \in given : Range(u.fields) = Range(x.fields)
    <3>1. PICK j \in DOMAIN entries : u = e.components[j]
      BY <1>1 DEF Range
    <3>2. entries[j] \in Range(entries)
      BY DEF Range
    <3>3. QED
      BY <1>3, <3>1, <3>2
  <2> HIDE DEF given, written
  <2>3. UNION {Range(x.fields) : x \in given} = UNION {Range(u.fields) : u \in written}
    BY <2>1, <2>2
  <2>4. QED
    BY <2>3 DEF Given, Written, given, written
<1>6. QED
  BY <1>2, <1>4, <1>5

LEMMA UpdateListTells ==
  ASSUME NEW s, ValidSchema(s), Indexed(s), NEW lim, NEW updates, IsUpdates(updates),
         NEW writes, Says(s, updates, writes),
         UpdateListError(s, lim, updates) = None, EncodeUpdateList(s, lim, updates).ok
  PROVE  LET body == EncodeUpdateList(s, lim, updates).val IN
         /\ DOMAIN body = 1 .. Len(body) /\ Len(body) \in Nat
         /\ Tells(s, Range(body), writes)
<1> DEFINE ss == ListEntries(s, updates)
           ids == [i \in DOMAIN updates |-> updates[i].id]
           T == UNION {Range(ss[i]) : i \in DOMAIN ss}
           body == EncodeUpdateList(s, lim, updates).val
<1>1. body = FlattenSeq(ss)
  <2>1. \A error : \A v : Checked(error, v).ok => Checked(error, v).val = v
    BY DEF Checked, Ok, Err
  <2>2. QED
    BY <2>1 DEF EncodeUpdateList, ListEntries, ListEntry
<1>2. DOMAIN ss = DOMAIN updates /\ DOMAIN updates = 1 .. Len(updates) /\ Len(updates) \in Nat
      /\ ss = [i \in DOMAIN ss |-> ss[i]]
  BY DEF ListEntries, IsUpdates, IsList
<1>3. ASSUME NEW i \in DOMAIN updates
      PROVE  /\ IsList(ss[i]) /\ ss[i] # <<>>
             /\ \A x \in Range(ss[i]) : x.entity = updates[i].id
             /\ \A c \in ComponentIds(s) : Given(Range(ss[i]), updates[i].id, c) = Written(updates[i], c)
  <2> DEFINE e == updates[i]
  <2>1. IsList(e.components) /\ e.components # <<>>
    BY DEF IsUpdates
  <2>2. \A j \in DOMAIN e.components :
          LET u == e.components[j] IN
          /\ IsPairs(u.fields) /\ u.id \in ComponentIds(s)
          /\ \A n \in DOMAIN u.fields : u.fields[n][1] \in DOMAIN ComponentOf(s, u.id).fields
    BY ListIsChecked DEF IsUpdates
  <2>3. ss[i] = [j \in DOMAIN e.components |-> ListEntry(s, e, e.components[j])]
    BY DEF ListEntries
  <2> HIDE DEF e, ss
  <2>4. /\ IsList(ss[i]) /\ Len(ss[i]) = Len(e.components)
        /\ \A x \in Range(ss[i]) : x.entity = e.id
        /\ \A c \in ComponentIds(s) : Given(Range(ss[i]), e.id, c) = Written(e, c)
    BY <2>1, <2>2, <2>3, UpdateGives
  <2>5. ss[i] # <<>>
    <3>1. e.components \in Seq(Range(e.components))
      BY <2>1, ListsAre DEF IsList
    <3>2. Len(e.components) # 0
      BY <2>1, <3>1
    <3>3. QED
      BY <2>4, <3>2
  <2>6. QED
    BY <2>4, <2>5 DEF e
<1> HIDE DEF ss
<1>4. IsList(ss)
  BY ONLY <1>2, ListsAre
<1>5. ss \in Seq(Seq(T))
  BY ONLY <1>2, <1>3, <1>4, NestedAre
<1>6. \A i \in DOMAIN ss : ids[i] = updates[i].id /\ ids[i] \in DOMAIN writes
  BY <1>2 DEF Says
<1>7. \A i \in DOMAIN ss : \A c \in ComponentIds(s) :
        Given(Range(ss[i]), ids[i], c) = writes[ids[i]][c]
  BY <1>2, <1>3, <1>6 DEF Says
<1>8. \A id \in DOMAIN writes : \E i \in DOMAIN ss : ids[i] = id
  BY <1>2, <1>6 DEF Says
<1>9. \A i \in DOMAIN ss :
        /\ ids[i] \in DOMAIN writes
        /\ \A x \in Range(ss[i]) : x.entity = ids[i]
        /\ ss[i] # <<>>
        /\ \A c \in ComponentIds(s) : Given(Range(ss[i]), ids[i], c) = writes[ids[i]][c]
  BY <1>2, <1>3, <1>6, <1>7
<1> HIDE DEF ids, T
<1>10. FlattenSeq(ss) \in Seq(T) /\ Tells(s, Range(FlattenSeq(ss)), writes)
  BY ONLY <1>5, <1>8, <1>9, FlatTells
<1> HIDE DEF body
<1>11. QED
  BY <1>1, <1>10 DEF body

(* What the receiver decodes from a list of updates.                       *)
LEMMA ListIsSaid ==
  ASSUME NEW s, ValidSchema(s), Indexed(s), NEW lim, NEW tick, NEW baseline_tick,
         NEW updates, IsUpdates(updates),
         NEW writes, DOMAIN writes \subseteq Nat, Says(s, updates, writes),
         NEW packet, packet = EncodeFromUpdates(s, lim, tick, baseline_tick, <<>>, <<>>, updates),
         packet.ok, DecodeDeltaSections(s, lim, packet.val.sections).ok
  PROVE  LET delta == DecodeDeltaSections(s, lim, packet.val.sections).val IN
         /\ packet.val.tick = tick
         /\ delta.destroys = <<>> /\ delta.creates = <<>>
         /\ Says(s, delta.updates, writes)
<1> DEFINE encoded == EncodeUpdateList(s, lim, updates)
           body == encoded.val
           sections == packet.val.sections
           said == DecodeDeltaSections(s, lim, sections)
           U == DecodeSection(s, lim, Section("UpdateSparsePacked", body))
           none == <<>>
<1>1. /\ UpdateListError(s, lim, updates) = None
      /\ updates # <<>> => encoded.ok
      /\ packet.val = DeltaRecord(s, tick, baseline_tick,
                        Joined(OneFor(<<>>, "Destroy", <<>>), OneFor(<<>>, "Create", Body(s, <<>>)),
                               OneFor(updates, "UpdateSparsePacked", body)))
  <2>1. EncodeFromUpdates(s, lim, tick, baseline_tick, <<>>, <<>>, updates).ok
    OBVIOUS
  <2>2. /\ UpdateListError(s, lim, updates) = None
        /\ updates # <<>> => encoded.ok
        /\ EncodeFromUpdates(s, lim, tick, baseline_tick, <<>>, <<>>, updates).val =
             DeltaRecord(s, tick, baseline_tick,
               Joined(OneFor(<<>>, "Destroy", <<>>), OneFor(<<>>, "Create", Body(s, <<>>)),
                      OneFor(updates, "UpdateSparsePacked", body)))
    BY ONLY <2>1, EncodedUpdates
  <2>3. QED
    BY <2>2
<1> HIDE DEF body
<1>2. /\ packet.val.tick = tick
      /\ sections = Joined(OneFor(none, "Destroy", none), OneFor(none, "Create", Body(s, none)),
                           OneFor(updates, "UpdateSparsePacked", body))
  BY <1>1 DEF DeltaRecord
<1> HIDE DEF none
<1>3. /\ said.val.destroys = IF none = <<>> THEN <<>> ELSE DecodeDestroySection(lim, none).val
      /\ said.val.creates = IF none = <<>> THEN <<>>
                            ELSE DecodeDeltaCreateSection(s, lim, Body(s, none)).val
      /\ updates # <<>> => U.ok
      /\ said.val.updates = IF updates = <<>> THEN Appended(<<>>, <<>>) ELSE Appended(<<>>, U.val)
  <2>1. "UpdateSparsePacked" \in UpdateTags /\ "UpdateSparsePacked" # "Update"
    BY DEF UpdateTags
  <2>2. DecodeDeltaSections(s, lim, sections).ok
    OBVIOUS
  <2> HIDE DEF sections, said, U
  <2>3. LET delta == DecodeDeltaSections(s, lim, sections).val
            D == DecodeDestroySection(lim, none)
            C == DecodeDeltaCreateSection(s, lim, Body(s, none))
            V == DecodeSection(s, lim, Section("UpdateSparsePacked", body))
        IN /\ none # <<>> => D.ok
           /\ delta.destroys = IF none = <<>> THEN <<>> ELSE D.val
           /\ none # <<>> => C.ok
           /\ delta.creates = IF none = <<>> THEN <<>> ELSE C.val
           /\ updates # <<>> => V.ok
           /\ delta.updates = IF updates = <<>> THEN Appended(<<>>, <<>>)
                              ELSE IF "UpdateSparsePacked" = "Update" THEN Appended(V.val, <<>>)
                              ELSE Appended(<<>>, V.val)
    BY ONLY <1>2, <2>1, <2>2, DeltaDecoded
  <2>4. QED
    BY <2>1, <2>3 DEF said, U
<1>4. said.val.destroys = <<>> /\ said.val.creates = <<>>
  <2> HIDE DEF said, U
  <2>1. none = <<>>
    BY DEF none
  <2>2. QED
    BY <1>3, <2>1
<1> HIDE DEF said
<1>5. Says(s, said.val.updates, writes)
  <2>1. CASE updates = <<>>
    <3>1. IsList(<<>>)
      BY DEF IsList
    <3>2. Appended(<<>>, <<>>) = <<>>
      BY <3>1, AppendedIs
    <3> HIDE DEF U
    <3>3. said.val.updates = updates
      BY <1>3, <2>1, <3>2
    <3>4. QED
      BY <3>3
  <2>2. CASE updates # <<>>
    <3>1. /\ DOMAIN body = 1 .. Len(body) /\ Len(body) \in Nat
          /\ Tells(s, Range(body), writes)
      BY <1>1, <2>2, UpdateListTells DEF body
    <3>2. U = DecodeSparse(s, lim, body)
      BY DEF DecodeSection, Section, DecodeSparsePacked
    <3> HIDE DEF U
    <3>3. DecodeSparse(s, lim, body).ok
      BY <1>3, <2>2, <3>2
    <3>4. IsList(U.val) /\ Says(s, U.val, writes)
      BY <3>1, <3>2, <3>3, SparseSays
    <3>5. said.val.updates = U.val
      BY <1>3, <2>2, <3>4, AppendedIs
    <3>6. QED
      BY <3>4, <3>5
  <2>3. QED
    BY <2>1, <2>2
<1>6. QED
  BY <1>2, <1>4, <1>5 DEF said

(* Two lists of the same ids in order have the same id at each place.      *)
LEMMA AtTheSamePlace ==
  ASSUME NEW bs, IsEntities(bs), SortedById(bs), NEW cs, IsEntities(cs), SortedById(cs),
         Ids(bs) = Ids(cs)
  PROVE  \A i \in DOMAIN bs : i \in DOMAIN cs /\ bs[i].id = cs[i].id
<1> DEFINE bad == {i \in DOMAIN bs : ~(i \in DOMAIN cs /\ bs[i].id = cs[i].id)}
<1>1. /\ DOMAIN bs = 1 .. Len(bs) /\ Len(bs) \in Nat
      /\ DOMAIN cs = 1 .. Len(cs) /\ Len(cs) \in Nat
      /\ \A i \in DOMAIN bs : bs[i].id \in Nat /\ bs[i].id \in Ids(bs)
      /\ \A i \in DOMAIN cs : cs[i].id \in Nat /\ cs[i].id \in Ids(cs)
  BY DEF IsEntities, Ids
<1>2. \A id \in Ids(bs) : \E j \in DOMAIN cs : cs[j].id = id
  BY DEF Ids
<1>3. \A id \in Ids(cs) : \E j \in DOMAIN bs : bs[j].id = id
  BY DEF Ids
<1>4. bad = {}
  <2> SUFFICES ASSUME bad # {}
               PROVE  FALSE
    OBVIOUS
  <2>1. bad \subseteq Nat
    BY <1>1
  <2>2. PICK i \in bad : \A n \in bad : i <= n
    <3> HIDE DEF bad
    <3>1. QED
      BY <2>1, LeastNatural
  <2>3. i \in DOMAIN bs /\ ~(i \in DOMAIN cs /\ bs[i].id = cs[i].id)
    OBVIOUS
  <2>4. \A n \in DOMAIN bs : n < i => n \in DOMAIN cs /\ bs[n].id = cs[n].id
    <3> TAKE n \in DOMAIN bs
    <3>1. n < i => ~(i <= n)
      BY <1>1, <2>3
    <3>2. QED
      BY <2>2, <3>1
  <2>5. PICK j \in DOMAIN cs : cs[j].id = bs[i].id
    BY <1>1, <1>2, <2>3
  <2>6. j > i
    <3>1. CASE j < i
      <4>1. j \in DOMAIN bs
        BY <1>1, <2>3, <3>1
      <4>2. bs[j].id = bs[i].id /\ bs[j].id < bs[i].id
        BY <2>3, <2>4, <2>5, <3>1, <4>1 DEF SortedById
      <4>3. QED
        BY <1>1, <2>3, <4>1, <4>2
    <3>2. CASE j = i
      BY <2>3, <2>5, <3>2
    <3>3. QED
      BY <1>1, <2>3, <3>1, <3>2
  <2>7. i \in DOMAIN cs /\ cs[i].id < bs[i].id
    <3>1. i \in DOMAIN cs
      BY <1>1, <2>3, <2>6
    <3>2. QED
      BY <2>5, <2>6, <3>1 DEF SortedById
  <2>8. PICK k \in DOMAIN bs : bs[k].id = cs[i].id
    BY <1>1, <1>3, <2>7
  <2>9. CASE k < i
    <3>1. k \in DOMAIN cs /\ cs[k].id = cs[i].id
      BY <2>4, <2>8, <2>9
    <3>2. cs[k].id < cs[i].id
      BY <2>7, <2>9, <3>1 DEF SortedById
    <3>3. QED
      BY <1>1, <2>7, <3>1, <3>2
  <2>10. CASE k = i
    BY <1>1, <2>3, <2>7, <2>8, <2>10
  <2>11. CASE k > i
    <3>1. bs[i].id < bs[k].id
      BY <2>3, <2>11 DEF SortedById
    <3>2. QED
      BY <1>1, <2>3, <2>7, <2>8, <3>1
  <2>12. QED
    BY <1>1, <2>3, <2>9, <2>10, <2>11
<1>5. QED
  BY <1>4

(* The list that build_dirty_updates makes of two snapshots.               *)
DirtyAll(s, bs, cs) ==
  [i \in DOMAIN bs |-> [id |-> bs[i].id, components |-> DirtyOf(s, bs[i], cs[i])]]

DirtyList(s, bs, cs) ==
  ElementsAt(DirtyAll(s, bs, cs),
             {i \in DOMAIN DirtyAll(s, bs, cs) : DirtyAll(s, bs, cs)[i].components # <<>>})

(* What it writes, by entity and component.                                *)
DirtyIds(s, bs, cs) ==
  {id \in Ids(bs) : DirtyOf(s, EntityOf(bs, id), EntityOf(cs, id)) # <<>>}

DirtyTotal(s, bs, cs) ==
  [id \in DirtyIds(s, bs, cs) |->
     [c \in ComponentIds(s) |-> DirtyWrites(EntityOf(bs, id), EntityOf(cs, id), c)]]

LEMMA DirtyListSays ==
  ASSUME NEW s, ValidSchema(s),
         NEW bs, IsEntities(bs), SortedById(bs), NEW cs, IsEntities(cs), SortedById(cs),
         Ids(bs) = Ids(cs), \A id \in Ids(bs) : Fits(s, EntityOf(bs, id))
  PROVE  /\ IsUpdates(DirtyList(s, bs, cs))
         /\ Says(s, DirtyList(s, bs, cs), DirtyTotal(s, bs, cs))
<1> DEFINE all == DirtyAll(s, bs, cs)
           places == {i \in DOMAIN all : all[i].components # <<>>}
           updates == DirtyList(s, bs, cs)
           writes == DirtyTotal(s, bs, cs)
<1>1. DOMAIN bs = 1 .. Len(bs) /\ Len(bs) \in Nat
  BY DEF IsEntities
<1>2. ASSUME NEW i \in DOMAIN bs
      PROVE  /\ i \in DOMAIN cs /\ bs[i].id \in Ids(bs) /\ bs[i].id \in Nat
             /\ EntityOf(bs, bs[i].id) = bs[i] /\ EntityOf(cs, bs[i].id) = cs[i]
  <2>1. i \in DOMAIN cs /\ bs[i].id = cs[i].id
    BY AtTheSamePlace
  <2>2. bs[i] \in Range(bs) /\ cs[i] \in Range(cs)
    BY <2>1 DEF Range
  <2>3. EntityOf(bs, bs[i].id) = bs[i] /\ bs[i].id \in Ids(bs) /\ bs[i].id \in Nat
    BY <2>2, EntityOfIs
  <2>4. EntityOf(cs, cs[i].id) = cs[i]
    BY <2>2, EntityOfIs
  <2>5. QED
    BY <2>1, <2>3, <2>4
<1>3. /\ DOMAIN all = DOMAIN bs /\ all = [i \in DOMAIN all |-> all[i]]
      /\ \A i \in DOMAIN bs : /\ all[i].id = bs[i].id
                               /\ all[i].components = DirtyOf(s, bs[i], cs[i])
                               /\ all[i] = [id |-> bs[i].id, components |-> DirtyOf(s, bs[i], cs[i])]
  BY DEF DirtyAll
<1> HIDE DEF all
<1>4. IsList(all)
  <2>1. Len(bs) \in Nat /\ DOMAIN all = 1 .. Len(bs) /\ all = [i \in DOMAIN all |-> all[i]]
    BY <1>1, <1>3
  <2>2. QED
    BY ONLY <2>1, ListsAre
<1>5. updates = ElementsAt(all, places)
  BY DEF DirtyList, all
<1>6. places \subseteq DOMAIN all
  OBVIOUS
<1>7. ASSUME NEW i \in DOMAIN bs
      PROVE  /\ IsList(all[i].components)
             /\ \A j \in DOMAIN all[i].components : IsPairs(all[i].components[j].fields)
             /\ \A c \in ComponentIds(s) : Written(all[i], c) = DirtyWrites(bs[i], cs[i], c)
  <2> DEFINE b == bs[i]
             f == cs[i]
             dirty == DirtyOf(s, b, f)
  <2>1. Fits(s, b)
    BY <1>2
  <2> HIDE DEF b, f
  <2>2. LET d == DirtyOf(s, b, f) IN
        /\ IsList(d)
        /\ \A j \in DOMAIN d :
             /\ d[j].id \in ComponentIds(s) /\ IsList(d[j].fields)
             /\ \A n \in DOMAIN d[j].fields : d[j].fields[n] = <<d[j].fields[n][1], d[j].fields[n][2]>>
        /\ \A c \in ComponentIds(s) :
             Written([id |-> b.id, components |-> d], c) = DirtyWrites(b, f, c)
        /\ d = <<>> => \A c \in ComponentIds(s) : DirtyWrites(b, f, c) = {}
    BY <2>1, DirtyOfIs
  <2> HIDE DEF dirty
  <2>3. /\ IsList(dirty)
        /\ \A j \in DOMAIN dirty : IsPairs(dirty[j].fields)
        /\ \A c \in ComponentIds(s) : Written([id |-> b.id, components |-> dirty], c) = DirtyWrites(b, f, c)
    BY <2>2 DEF dirty, IsPairs
  <2>4. all[i] = [id |-> b.id, components |-> dirty] /\ all[i].components = dirty
    BY <1>3 DEF dirty, b, f
  <2>5. QED
    BY <2>3, <2>4 DEF b, f
<1> HIDE DEF places, updates
<1>8. IsList(updates) /\ Range(updates) = {all[i] : i \in places}
  BY ONLY <1>4, <1>5, <1>6, ElementsAre DEF IsList
<1>9. ASSUME NEW n \in DOMAIN updates
      PROVE  \E i \in DOMAIN bs : updates[n] = all[i] /\ all[i].components # <<>>
  BY <1>3, <1>8 DEF Range, places
<1>10. IsUpdates(updates)
  BY <1>7, <1>8, <1>9 DEF IsUpdates
<1>11. DOMAIN writes = DirtyIds(s, bs, cs)
       /\ \A id \in DOMAIN writes : \A c \in ComponentIds(s) :
            writes[id][c] = DirtyWrites(EntityOf(bs, id), EntityOf(cs, id), c)
  BY DEF DirtyTotal
<1> HIDE DEF writes
<1>12. ASSUME NEW n \in DOMAIN updates
       PROVE  /\ updates[n].id \in DOMAIN writes
              /\ \A c \in ComponentIds(s) : Written(updates[n], c) = writes[updates[n].id][c]
  <2>1. PICK i \in DOMAIN bs : updates[n] = all[i] /\ all[i].components # <<>>
    BY <1>9
  <2>2. updates[n].id = bs[i].id /\ EntityOf(bs, bs[i].id) = bs[i] /\ EntityOf(cs, bs[i].id) = cs[i]
    BY <1>2, <1>3, <2>1
  <2>3. bs[i].id \in DirtyIds(s, bs, cs)
    BY <1>2, <1>3, <2>1, <2>2 DEF DirtyIds
  <2>4. QED
    BY <1>7, <1>11, <2>1, <2>2, <2>3
<1>13. ASSUME NEW id \in DOMAIN writes
       PROVE  \E n \in DOMAIN updates : updates[n].id = id
  <2>1. id \in Ids(bs) /\ DirtyOf(s, EntityOf(bs, id), EntityOf(cs, id)) # <<>>
    BY <1>11 DEF DirtyIds
  <2>2. PICK i \in DOMAIN bs : bs[i].id = id
    BY <2>1 DEF Ids
  <2>3. i \in places
    BY <1>2, <1>3, <2>1, <2>2 DEF places
  <2>4. all[i] \in Range(updates)
    BY <1>8, <2>3
  <2>5. QED
    BY <1>3, <2>2, <2>4 DEF Range
<1>14. DOMAIN updates \subseteq Nat
  BY <1>8 DEF IsList
<1>15. Says(s, updates, writes)
  BY <1>12, <1>13, <1>14 DEF Says
<1>16. QED
  BY <1>10, <1>15 DEF updates, writes

(* The fields that are not dirty are the same.                             *)
LEMMA DirtyTold ==
  ASSUME NEW s, ValidSchema(s), NEW e, Fits(s, e), NEW f, Fits(s, f),
         DOMAIN f.components = DOMAIN e.components,
         NEW w, \A c \in ComponentIds(s) : w[c] = DirtyWrites(e, f, c)
  PROVE  Told(s, e, f, w)
<1> SUFFICES ASSUME NEW c \in DOMAIN f.components
             PROVE  /\ \A x \in w[c] : \E i \in DOMAIN Values[c] : x = <<i, f.components[c][i]>>
                    /\ \A i \in DOMAIN Values[c] :
                         \/ \E x \in w[c] : x[1] = i
                         \/ Abs(e.components[c][i] - f.components[c][i])
                              <= ComponentOf(s, c).fields[i].threshold
  BY DEF Told
<1> DEFINE changed == {i \in DOMAIN e.components[c] : e.components[c][i] # f.components[c][i]}
<1>1. c \in ComponentIds(s) /\ DOMAIN e.components[c] = DOMAIN Values[c]
  BY DEF Fits
<1>2. w[c] = {<<i, f.components[c][i]>> : i \in changed}
  BY <1>1 DEF DirtyWrites, Both
<1>3. \A x \in w[c] : \E i \in DOMAIN Values[c] : x = <<i, f.components[c][i]>>
  BY <1>1, <1>2
<1>4. ASSUME NEW i \in DOMAIN Values[c], i \in changed
      PROVE  \E x \in w[c] : x[1] = i
  <2> HIDE DEF changed
  <2>1. <<i, f.components[c][i]>> \in w[c]
    BY <1>2, <1>4
  <2>2. <<i, f.components[c][i]>>[1] = i
    OBVIOUS
  <2>3. QED
    BY <2>1, <2>2
<1>5. ASSUME NEW i \in DOMAIN Values[c], i \notin changed
      PROVE  Abs(e.components[c][i] - f.components[c][i]) <= ComponentOf(s, c).fields[i].threshold
  <2> DEFINE t == ComponentOf(s, c).fields[i].threshold
             ev == e.components[c][i]
             fv == f.components[c][i]
  <2>1. ev = fv
    BY <1>1, <1>5
  <2>2. ev \in Int /\ fv \in Int
    BY DEF Fits
  <2>3. t \in Nat
    BY ThresholdsAre
  <2> HIDE DEF t, ev, fv
  <2>4. Abs(ev - fv) <= t
    BY <2>1, <2>2, <2>3 DEF Abs
  <2>5. QED
    BY <2>4 DEF t, ev, fv
<1>6. QED
  BY <1>3, <1>4, <1>5

(* The dirty fields keep the receiver near, if no entity came, went or     *)
(* changed its components.                                                 *)
LEMMA DirtyFollows ==
  ASSUME NEW s, ValidSchema(s), Indexed(s), NEW lim, NEW tick, NEW baseline_tick,
         NEW n \in Nat, NEW had, NEW bs, Copied(s, had.entities, bs, n),
         NEW cs, Taken(s, cs), Ids(bs) = Ids(cs),
         \A id \in Ids(bs) : DOMAIN EntityOf(cs, id).components = DOMAIN EntityOf(bs, id).components,
         NEW packet,
         packet = EncodeFromUpdates(s, lim, tick, baseline_tick, <<>>, <<>>, DirtyList(s, bs, cs)),
         packet.ok,
         NEW applied, applied = ApplyDelta(s, lim, had, packet.val), applied.ok
  PROVE  /\ applied.val.tick = tick
         /\ Copied(s, applied.val.entities, cs, n + 1)
<1> DEFINE es == had.entities
           updates == DirtyList(s, bs, cs)
           writes == DirtyTotal(s, bs, cs)
           said == DecodeDeltaSections(s, lim, packet.val.sections)
           result == ApplyDecoded(lim, es, said.val).val
<1>1. /\ said.ok /\ ApplyDecoded(lim, es, said.val).ok
      /\ applied.val = [tick |-> packet.val.tick, entities |-> result]
  BY AppliedDelta
<1>2. /\ IsEntities(bs) /\ SortedById(bs) /\ IsEntities(cs) /\ SortedById(cs)
      /\ IsEntities(es) /\ SortedById(es) /\ Ids(es) = Ids(bs)
      /\ \A id \in Ids(bs) : Fits(s, EntityOf(bs, id))
  BY DEF Copied, Taken
<1>3. IsUpdates(updates) /\ Says(s, updates, writes)
  BY <1>2, DirtyListSays
<1>4. /\ DOMAIN writes = DirtyIds(s, bs, cs)
      /\ \A id \in DOMAIN writes : \A c \in ComponentIds(s) :
           writes[id][c] = DirtyWrites(EntityOf(bs, id), EntityOf(cs, id), c)
  BY DEF DirtyTotal
<1>5. DOMAIN writes \subseteq Nat
  BY <1>2, <1>4, IdsAreFinite DEF DirtyIds
<1> HIDE DEF writes, updates
<1>6. /\ packet.val.tick = tick
      /\ said.val.destroys = <<>> /\ said.val.creates = <<>>
      /\ Says(s, said.val.updates, writes)
  <2>1. /\ ValidSchema(s) /\ Indexed(s)
        /\ packet = EncodeFromUpdates(s, lim, tick, baseline_tick, <<>>, <<>>, updates)
        /\ packet.ok /\ DecodeDeltaSections(s, lim, packet.val.sections).ok
    BY <1>1 DEF updates
  <2>2. LET delta == DecodeDeltaSections(s, lim, packet.val.sections).val IN
        /\ packet.val.tick = tick
        /\ delta.destroys = <<>> /\ delta.creates = <<>>
        /\ Says(s, delta.updates, writes)
    BY ONLY <1>3, <1>5, <2>1, ListIsSaid
  <2>3. QED
    BY <2>2
<1>7. applied.val.tick = tick /\ applied.val.entities = result
  BY <1>1, <1>6
<1> HIDE DEF said
<1>8. IsEntities(<<>>) /\ SortedById(<<>>) /\ Ids(<<>>) = {} /\ Range(<<>>) = {}
  BY DEF IsEntities, SortedById, Ids, Range
<1>9. /\ IsEntities(result) /\ SortedById(result)
      /\ Outcome(s, es, said.val, writes, result)
  <2>1. /\ IsEntities(said.val.creates) /\ SortedById(said.val.creates)
        /\ Says(s, said.val.updates, writes)
    BY <1>6, <1>8
  <2> HIDE DEF es
  <2>2. QED
    BY <1>1, <1>2, <2>1, AppliedIs
<1> HIDE DEF result
<1>10. Ids(said.val.creates) = {} /\ Range(said.val.destroys) = {}
  BY <1>6, <1>8
<1>11. Ids(result) = Ids(cs)
  BY <1>2, <1>9, <1>10 DEF Outcome
<1>12. ASSUME NEW id \in Ids(cs)
       PROVE  Fits(s, EntityOf(cs, id)) /\ Near(s, EntityOf(result, id), EntityOf(cs, id), n + 1)
  <2> DEFINE e == EntityOf(bs, id)
             f == EntityOf(cs, id)
             r == EntityOf(es, id)
             new == EntityOf(result, id)
             w == [c \in ComponentIds(s) |-> DirtyWrites(e, f, c)]
  <2>1. Fits(s, e) /\ Near(s, r, e, n) /\ Shaped(s, f)
        /\ DOMAIN f.components = DOMAIN e.components
    BY DEF Copied, Taken
  <2>2. IsEntity(r)
    BY <1>2, EntityOfIs
  <2>3. PICK from :
           /\ id \in Ids(said.val.creates) => from = EntityOf(said.val.creates, id)
           /\ id \notin Ids(said.val.creates) => from = EntityOf(es, id)
           /\ id \notin DOMAIN writes => EntityOf(result, id) = from
           /\ id \in DOMAIN writes => \E u :
                /\ EntityOf(result, id) = UpdatedEntity(from, u)
                /\ \A c \in ComponentIds(s) : Written(u, c) = writes[id][c]
    BY <1>9, <1>11 DEF Outcome
  <2>4. from = r
    BY <1>10, <2>3
  <2>5. id \in DOMAIN writes => \A c \in ComponentIds(s) : writes[id][c] = w[c]
    BY <1>4
  <2>6. id \notin DOMAIN writes => \A c \in ComponentIds(s) : w[c] = {}
    <3>1. ASSUME id \notin DOMAIN writes PROVE DirtyOf(s, e, f) = <<>>
      BY <1>4, <3>1 DEF DirtyIds
    <3> HIDE DEF e, f
    <3>2. LET d == DirtyOf(s, e, f) IN
          /\ IsList(d)
          /\ \A j \in DOMAIN d :
               /\ d[j].id \in ComponentIds(s) /\ IsList(d[j].fields)
               /\ \A m \in DOMAIN d[j].fields : d[j].fields[m] = <<d[j].fields[m][1], d[j].fields[m][2]>>
          /\ \A c \in ComponentIds(s) :
               Written([id |-> id, components |-> d], c) = DirtyWrites(e, f, c)
          /\ d = <<>> => \A c \in ComponentIds(s) : DirtyWrites(e, f, c) = {}
      BY <2>1, DirtyOfIs
    <3>3. QED
      BY <3>1, <3>2
  <2>7. \A c \in ComponentIds(s) : w[c] = DirtyWrites(e, f, c)
    OBVIOUS
  <2> HIDE DEF e, f, r, w, new
  <2>8. Fits(s, f)
    BY <2>1 DEF Fits, Shaped
  <2>9. Told(s, e, f, w)
    BY <2>1, <2>7, <2>8, DirtyTold
  <2>10. \/ /\ new = r
            /\ \A c \in ComponentIds(s) : w[c] = {}
         \/ \E u : /\ new = UpdatedEntity(r, u)
                   /\ \A c \in ComponentIds(s) : Written(u, c) = w[c]
    <3>1. CASE id \in DOMAIN writes
      <4>1. PICK u : /\ new = UpdatedEntity(r, u)
                     /\ \A c \in ComponentIds(s) : Written(u, c) = writes[id][c]
        BY <2>3, <2>4, <3>1 DEF new
      <4>2. \A c \in ComponentIds(s) : Written(u, c) = w[c]
        BY <2>5, <3>1, <4>1
      <4>3. QED
        BY <4>1, <4>2
    <3>2. CASE id \notin DOMAIN writes
      BY <2>3, <2>4, <2>6, <3>2 DEF new
    <3>3. QED
      BY <3>1, <3>2
  <2>11. Near(s, new, f, n + 1)
    BY <2>1, <2>2, <2>8, <2>9, <2>10, WrittenIsNear
  <2>12. QED
    BY <2>8, <2>11 DEF f, new
<1>13. Copied(s, result, cs, n + 1)
  BY <1>2, <1>9, <1>11, <1>12 DEF Copied
<1>14. QED
  BY <1>7, <1>13

-----------------------------------------------------------------------------
(* The receiver follows the sender. *)

Follow ==
  /\ Copied(schema, replica.entities, sent.entities, age)
  /\ replica.tick = sent.tick

LEMMA CurrentIsTaken ==
  ASSUME Typed
  PROVE  Taken(schema, Current.entities) /\ Indexed(schema)
<1> DEFINE cs == Current.entities
<1>1. PICK setting \in Setups : schema = setting.schema
  BY DEF Typed
<1>2. DOMAIN Values \subseteq ComponentIds(schema)
  BY <1>1, StreamAssumption
<1>3. Indexed(schema)
  BY <1>1, PowersOfTwo DEF Indexed
<1>4. /\ IsEntities(cs) /\ SortedById(cs)
      /\ \A n \in DOMAIN cs : cs[n].id \in DOMAIN world /\ cs[n].components = world[cs[n].id]
  BY CurrentIs DEF Typed
<1> HIDE DEF cs
<1>5. ASSUME NEW id \in Ids(cs)
      PROVE  Shaped(schema, EntityOf(cs, id))
  <2> DEFINE f == EntityOf(cs, id)
  <2>1. f \in Range(cs) /\ f.id = id
    BY <1>4, EntityOfIs
  <2>2. id \in DOMAIN world /\ f.components = world[id]
    BY <1>4, <2>1 DEF Range
  <2>3. ASSUME NEW c \in DOMAIN world[id]
        PROVE  /\ c \in DOMAIN Values
               /\ DOMAIN Values[c] = 1 .. Len(world[id][c]) /\ Len(world[id][c]) \in Nat
               /\ DOMAIN world[id][c] = DOMAIN Values[c]
               /\ \A i \in DOMAIN Values[c] : world[id][c][i] \in Int
    <3> DEFINE v == world[id][c]
    <3>1. /\ c \in DOMAIN Values /\ v = [i \in DOMAIN Values[c] |-> v[i]]
          /\ \A i \in DOMAIN Values[c] : v[i] \in Values[c][i]
      BY <2>2 DEF Typed, IsWorld
    <3>2. Values[c] \in Seq(SUBSET Int)
      BY <3>1, StreamAssumption
    <3>3. DOMAIN Values[c] = 1 .. Len(Values[c]) /\ Len(Values[c]) \in Nat
          /\ \A i \in DOMAIN Values[c] : Values[c][i] \subseteq Int
      BY <3>2
    <3> HIDE DEF v
    <3>4. DOMAIN v = DOMAIN Values[c]
      BY <3>1
    <3>5. v = [i \in DOMAIN v |-> v[i]] /\ DOMAIN v = 1 .. Len(Values[c])
      BY <3>1, <3>3, <3>4
    <3>6. Len(v) = Len(Values[c])
      BY ONLY <3>3, <3>5, ListsAre
    <3>7. QED
      BY <3>1, <3>3, <3>4, <3>6 DEF v
  <2> HIDE DEF f
  <2>4. QED
    BY <1>2, <2>2, <2>3 DEF Shaped, f
<1>6. QED
  BY <1>3, <1>4, <1>5 DEF Taken, cs

(* A full snapshot is what the receiver then has.                          *)
LEMMA FullFollows ==
  ASSUME Typed, EncodeFullSnapshot(schema, limits, sent.tick + 1, Current.entities).ok
  PROVE  Copied(schema, Current.entities, Current.entities, 0)
<1> DEFINE cs == Current.entities
<1>1. ValidSchema(schema) /\ Taken(schema, cs)
  BY SchemaIsValid, CurrentIsTaken
<1>2. IsEntities(cs) /\ SortedById(cs)
  BY <1>1 DEF Taken
<1>3. \A i \in DOMAIN cs : ComponentsError(schema, limits, cs[i]) = None
  <2>1. EncodeFullSnapshot(schema, limits, sent.tick + 1, cs).ok
    OBVIOUS
  <2>2. DOMAIN cs = 1 .. Len(cs) /\ Len(cs) \in Nat
    BY <1>2 DEF IsEntities
  <2>3. CASE cs = <<>>
    <3>1. DOMAIN cs = {}
      BY <2>3
    <3>2. QED
      BY <3>1
  <2>4. CASE cs # <<>>
    <3> HIDE DEF cs
    <3>1. QED
      BY <1>1, <2>1, <2>2, <2>4, FullEncoded
  <2>5. QED
    BY <2>3, <2>4
<1> HIDE DEF cs
<1>4. ASSUME NEW id \in Ids(cs)
      PROVE  Fits(schema, EntityOf(cs, id)) /\ Near(schema, EntityOf(cs, id), EntityOf(cs, id), 0)
  <2> DEFINE f == EntityOf(cs, id)
  <2>1. f \in Range(cs)
    BY <1>2, EntityOfIs
  <2>2. Shaped(schema, f)
    BY <1>1 DEF Taken
  <2>3. ComponentsError(schema, limits, f) = None
    BY <1>3, <2>1 DEF Range
  <2> HIDE DEF f
  <2>4. Fits(schema, f)
    BY <1>1, <2>2, <2>3, CreatedFits
  <2>5. 0 \in Nat
    OBVIOUS
  <2>6. Near(schema, f, f, 0)
    BY <1>1, <2>4, <2>5, NearItself
  <2>7. QED
    BY <2>4, <2>6 DEF f
<1>5. QED
  BY <1>2, <1>4 DEF Copied, cs

LEMMA InitiallyFollows ==
  ASSUME Init
  PROVE  Follow
<1>1. /\ sent.entities = <<>> /\ replica.entities = <<>> /\ replica.tick = sent.tick
  BY DEF Init, NoSnapshot
<1>2. IsEntities(<<>>) /\ SortedById(<<>>) /\ Ids(<<>>) = {}
  BY DEF IsEntities, SortedById, Ids
<1>3. QED
  BY <1>1, <1>2 DEF Follow, Copied

(* The list that the sender makes of the dirty fields, if it makes one.    *)
LEMMA DirtyUpdatesAre ==
  ASSUME DirtyUpdates.ok
  PROVE  /\ DirtyUpdates.val = DirtyList(schema, sent.entities, Current.entities)
         /\ Ids(sent.entities) = DOMAIN world
         /\ \A e \in Range(sent.entities) : DOMAIN e.components = DOMAIN world[e.id]
<1> DEFINE refused == \/ Ids(sent.entities) # DOMAIN world
                      \/ \E e \in Range(sent.entities) : DOMAIN e.components # DOMAIN world[e.id]
           list == DirtyList(schema, sent.entities, Current.entities)
<1>1. DirtyUpdates = IF refused THEN Err("unsupported") ELSE Ok(list)
  BY DEF DirtyUpdates, DirtyList, DirtyAll, DirtyOf, DirtyPlaces
<1> HIDE DEF list
<1>2. ~refused
  <2> HIDE DEF refused
  <2>1. QED
    BY <1>1 DEF Err
<1>3. QED
  BY <1>1, <1>2 DEF Ok, list

(* Every packet that is delivered leaves the receiver a copy of what the   *)
(* sender has taken.                                                       *)
LEMMA FullDelivered ==
  ASSUME Typed, SendFull
  PROVE  Follow'
<1> DEFINE packet == EncodeFullSnapshot(schema, limits, sent.tick + 1, Current.entities)
           applied == IF packet.ok THEN DecodeFullSnapshot(schema, limits, packet.val) ELSE packet
<1>1. Deliver(applied, 0)
  BY DEF SendFull, AndThen
<1>2. packet.ok
  <2>1. applied.ok
    BY <1>1 DEF Deliver
  <2> HIDE DEF packet
  <2>2. QED
    BY <2>1
<1>3. applied = Ok(Current)
  BY <1>2, CurrentRoundTrips
<1>4. Copied(schema, Current.entities, Current.entities, 0)
  BY <1>2, FullFollows
<1> HIDE DEF applied
<1>5. sent' = Current /\ replica' = Current /\ age' = 0 /\ schema' = schema
  BY <1>1, <1>3 DEF Deliver, setup, Ok
<1>6. Copied(schema', replica'.entities, sent'.entities, age')
  BY <1>4, <1>5
<1>7. replica'.tick = sent'.tick
  BY <1>5
<1>8. QED
  BY <1>6, <1>7 DEF Follow

LEMMA DeltaDelivered ==
  ASSUME Typed, Follow, NEW encoding \in {"Auto", "SparsePacked"}, SendDelta(encoding)
  PROVE  Follow'
<1> DEFINE packet == EncodeDelta(schema, limits, encoding, sent.tick, sent, Current)
           delivered == ApplyDelta(schema, limits, replica, packet.val)
           applied == IF packet.ok THEN delivered ELSE packet
<1>1. Deliver(applied, age + 1)
  BY DEF SendDelta, AndThen
<1>2. packet.ok /\ applied = delivered /\ delivered.ok
  <2>1. applied.ok
    BY <1>1 DEF Deliver
  <2> HIDE DEF packet, delivered
  <2>2. QED
    BY <2>1
<1>3. /\ ValidSchema(schema) /\ Indexed(schema) /\ Taken(schema, Current.entities)
      /\ encoding \in Encodings \cup {"Auto"} /\ age \in Nat
      /\ Copied(schema, replica.entities, sent.entities, age)
  BY SchemaIsValid, CurrentIsTaken DEF Follow, Encodings, Typed
<1>4. /\ packet = EncodeDelta(schema, limits, encoding, sent.tick, sent, Current)
      /\ delivered = ApplyDelta(schema, limits, replica, packet.val)
  OBVIOUS
<1> HIDE DEF packet, delivered, applied
<1>5. /\ delivered.val.tick = Current.tick
      /\ Copied(schema, delivered.val.entities, Current.entities, age + 1)
  <2>1. packet.ok /\ delivered.ok
    BY <1>2
  <2>2. QED
    BY ONLY <1>3, <1>4, <2>1, DeltaFollows
<1>6. sent' = Current /\ replica' = delivered.val /\ age' = age + 1 /\ schema' = schema
  BY <1>1, <1>2 DEF Deliver, setup
<1>7. Copied(schema', replica'.entities, sent'.entities, age')
  BY <1>5, <1>6
<1>8. replica'.tick = sent'.tick
  BY <1>5, <1>6
<1>9. QED
  BY <1>7, <1>8 DEF Follow

LEMMA DirtyDelivered ==
  ASSUME Typed, Follow, SendDirty
  PROVE  Follow'
<1> DEFINE updates == DirtyUpdates.val
           packet == EncodeFromUpdates(schema, limits, sent.tick + 1, sent.tick, <<>>, <<>>, updates)
           delivered == ApplyDelta(schema, limits, replica, packet.val)
           sending == IF packet.ok THEN delivered ELSE packet
           applied == IF DirtyUpdates.ok THEN sending ELSE DirtyUpdates
           bs == sent.entities
           cs == Current.entities
<1>1. Deliver(applied, age + 1)
  BY DEF SendDirty, AndThen
<1>2. DirtyUpdates.ok /\ packet.ok /\ applied = delivered /\ delivered.ok
  <2>1. applied.ok
    BY <1>1 DEF Deliver
  <2>2. DirtyUpdates.ok /\ applied = sending
    <3> HIDE DEF sending
    <3>1. QED
      BY <2>1
  <2> HIDE DEF packet, delivered, applied
  <2>3. QED
    BY <2>1, <2>2
<1>3. /\ ValidSchema(schema) /\ Indexed(schema) /\ Taken(schema, cs) /\ age \in Nat
      /\ Copied(schema, replica.entities, bs, age)
  BY SchemaIsValid, CurrentIsTaken DEF Follow, Typed
<1>4. /\ updates = DirtyList(schema, bs, cs)
      /\ Ids(bs) = DOMAIN world
      /\ \A e \in Range(bs) : DOMAIN e.components = DOMAIN world[e.id]
  BY <1>2, DirtyUpdatesAre
<1>5. /\ IsEntities(cs) /\ SortedById(cs) /\ Ids(cs) = DOMAIN world
      /\ \A n \in DOMAIN cs : cs[n].id \in DOMAIN world /\ cs[n].components = world[cs[n].id]
  BY CurrentIs DEF Typed
<1>6. /\ packet = EncodeFromUpdates(schema, limits, sent.tick + 1, sent.tick, <<>>, <<>>, updates)
      /\ delivered = ApplyDelta(schema, limits, replica, packet.val)
  OBVIOUS
<1> HIDE DEF updates, packet, delivered, sending, applied, bs, cs
<1>7. ASSUME NEW id \in Ids(bs)
      PROVE  DOMAIN EntityOf(cs, id).components = DOMAIN EntityOf(bs, id).components
  <2>1. EntityOf(bs, id) \in Range(bs) /\ EntityOf(bs, id).id = id
    BY <1>3, EntityOfIs DEF Copied
  <2>2. EntityOf(cs, id) \in Range(cs) /\ EntityOf(cs, id).id = id
    BY <1>4, <1>5, EntityOfIs
  <2>3. EntityOf(cs, id).components = world[id]
    BY <1>5, <2>2 DEF Range
  <2>4. QED
    BY <1>4, <2>1, <2>3
<1>8. Ids(bs) = Ids(cs)
  BY <1>4, <1>5
<1>9. packet = EncodeFromUpdates(schema, limits, sent.tick + 1, sent.tick, <<>>, <<>>,
                                 DirtyList(schema, bs, cs))
  BY <1>4, <1>6
<1>10. /\ delivered.val.tick = sent.tick + 1
       /\ Copied(schema, delivered.val.entities, cs, age + 1)
  BY ONLY <1>2, <1>3, <1>6, <1>7, <1>8, <1>9, DirtyFollows
<1>11. sent' = Current /\ replica' = delivered.val /\ age' = age + 1 /\ schema' = schema
  BY <1>1, <1>2 DEF Deliver, setup
<1>12. Copied(schema', replica'.entities, sent'.entities, age')
  BY <1>10, <1>11 DEF cs
<1>13. replica'.tick = sent'.tick
  BY <1>10, <1>11 DEF Current
<1>14. QED
  BY <1>12, <1>13 DEF Follow

LEMMA StaysFollowing ==
  ASSUME Typed, Follow, [Next]_vars
  PROVE  Follow'
<1>1. CASE \/ \E e \in DOMAIN Forms :
                Leave(e) \/ \E form \in Forms[e] : Enter(e, form) \/ Reshape(e, form)
           \/ \E e \in DOMAIN Forms, c \in DOMAIN Values : \E i \in DOMAIN Values[c] :
                \E v \in Values[c][i] : SetField(e, c, i, v)
  <2>1. UNCHANGED <<schema, sent, replica, age>>
    BY <1>1 DEF Leave, Enter, Reshape, SetField, setup
  <2>2. QED
    BY <2>1 DEF Follow
<1>2. CASE SendFull
  BY <1>2, FullDelivered
<1>3. ASSUME NEW encoding \in {"Auto", "SparsePacked"}, SendDelta(encoding)
      PROVE  Follow'
  BY <1>3, DeltaDelivered
<1>4. CASE SendDirty
  BY <1>4, DirtyDelivered
<1>5. CASE UNCHANGED vars
  BY <1>5 DEF vars, setup, Follow
<1>6. QED
  BY <1>1, <1>2, <1>3, <1>4, <1>5 DEF Next

LEMMA FollowIsReplicaFollows ==
  ASSUME Typed, Follow
  PROVE  ReplicaFollows
<1>1. /\ IsEntities(sent.entities) /\ SortedById(sent.entities)
      /\ Ids(replica.entities) = Ids(sent.entities)
      /\ \A id \in Ids(sent.entities) :
           /\ Fits(schema, EntityOf(sent.entities, id))
           /\ Near(schema, EntityOf(replica.entities, id), EntityOf(sent.entities, id), age)
  BY DEF Follow, Copied
<1>2. ASSUME NEW e \in Range(sent.entities)
      PROVE  LET r == EntityOf(replica.entities, e.id) IN
             /\ DOMAIN r.components = DOMAIN e.components
             /\ \A c \in DOMAIN e.components : \A i \in DOMAIN e.components[c] :
                  Abs(e.components[c][i] - r.components[c][i])
                    <= age * ComponentOf(schema, c).fields[i].threshold
  <2> DEFINE r == EntityOf(replica.entities, e.id)
  <2>1. EntityOf(sent.entities, e.id) = e /\ e.id \in Ids(sent.entities)
    BY <1>1, EntityOfIs
  <2>2. Fits(schema, e) /\ Near(schema, r, e, age)
    BY <1>1, <2>1
  <2> HIDE DEF r
  <2>3. QED
    BY <2>2 DEF Fits, Near, r
<1>3. replica.tick = sent.tick
  BY DEF Follow
<1>4. QED
  BY <1>1, <1>2, <1>3 DEF ReplicaFollows

(* Whatever snapshots and deltas the receiver has accepted, in any         *)
(* encoding and for any schema, thresholds and limits, it has the entities *)
(* and components of the snapshot the sender takes it to have; a field is  *)
(* off by at most its threshold for each delta since the last full         *)
(* snapshot, and so not at all where the threshold is zero (delta.rs,      *)
(* field_changed; the mirror state of simbench's loops).                   *)
THEOREM ReplicaFollowsCorrect == Spec => []ReplicaFollows
<1>1. Init => Follow
  BY InitiallyFollows
<1>2. Typed /\ Follow /\ [Next]_vars => Follow'
  BY StaysFollowing
<1>3. Typed /\ Follow => ReplicaFollows
  BY FollowIsReplicaFollows
<1>4. QED
  BY <1>1, <1>2, <1>3, TypedAlways, PTL DEF Spec

-----------------------------------------------------------------------------
(* The three encodings say the same. *)

(* What a delta between two snapshots says, whatever its encoding.         *)
Difference(s, bs, cs) ==
  [destroys |-> Destroyed(bs, cs), creates |-> Created(bs, cs),
   updates |-> Changes(s, Updated(s, bs, cs))]

(* What was said, with nothing else in the record.                         *)
LEMMA GatheredIsRecord ==
  ASSUME NEW sections, NEW decoded, NEW said, said = GatherSections(sections, decoded), said.ok
  PROVE  said.val = [destroys |-> said.val.destroys, creates |-> said.val.creates,
                     updates |-> said.val.updates]
<1> DEFINE slot(i) == Slot(sections[i].tag)
           ErrorOf(i) ==
             IF \E j \in 1 .. i - 1 : slot(j) = slot(i) THEN "DuplicateSection"
             ELSE IF decoded[i].ok THEN None ELSE decoded[i].error
           error == Then(FirstError([i \in DOMAIN sections |-> ErrorOf(i)]),
                         IF {"Update", "UpdateSparse"} \subseteq {slot(i) : i \in DOMAIN sections}
                         THEN "DuplicateUpdateEncoding" ELSE None)
           record == [destroys |-> FoundIn(sections, decoded, "Destroy"),
                      creates |-> FoundIn(sections, decoded, "Create"),
                      updates |-> Appended(FoundIn(sections, decoded, "Update"),
                                           FoundIn(sections, decoded, "UpdateSparse"))]
<1>1. GatherSections(sections, decoded) = Checked(error, record)
  BY Zenon DEF GatherSections, FoundIn, Appended
<1> HIDE DEF error
<1>2. said.val = record
  <2> HIDE DEF record
  <2>1. QED
    BY <1>1, CheckedIs
<1>3. QED
  BY <1>2

LEMMA DeltaIsDifference ==
  ASSUME NEW s, ValidSchema(s), Indexed(s), NEW lim, NEW encoding \in Encodings,
         NEW baseline_tick, NEW base, IsEntities(base.entities), SortedById(base.entities),
         NEW current, IsEntities(current.entities), SortedById(current.entities),
         NEW packet, packet = EncodeDelta(s, lim, encoding, baseline_tick, base, current), packet.ok,
         DecodeDeltaPacket(s, lim, packet.val).ok
  PROVE  DecodeDeltaPacket(s, lim, packet.val).val = Difference(s, base.entities, current.entities)
<1> DEFINE p == packet.val
           error == Then(DeltaHeaderError(p), SchemaMismatch(s, p))
           read == DecodeDeltaPacket(s, lim, p)
           said == DecodeDeltaSections(s, lim, p.sections)
<1>1. read = IF error = None THEN said ELSE Err(error)
  BY DEF DecodeDeltaPacket, AndThen, Checked, Ok, Err
<1>2. read = said /\ said.ok
  <2>1. read.ok
    OBVIOUS
  <2> HIDE DEF read, said, error
  <2>2. QED
    BY <1>1, <2>1 DEF Err
<1>3. SaysDelta(s, lim, base.entities, current.entities, said.val)
  <2>1. encoding \in Encodings \cup {"Auto"} /\ DecodeDeltaSections(s, lim, packet.val.sections).ok
    BY <1>2
  <2>2. SaysDelta(s, lim, base.entities, current.entities,
                  DecodeDeltaSections(s, lim, packet.val.sections).val)
    BY <2>1, DeltaSays
  <2>3. QED
    BY <2>2
<1>4. said.val = [destroys |-> said.val.destroys, creates |-> said.val.creates,
                  updates |-> said.val.updates]
  <2>1. said = GatherSections(p.sections,
                 [i \in DOMAIN p.sections |-> DecodeSection(s, lim, p.sections[i])])
    BY DEF DecodeDeltaSections
  <2> HIDE DEF said
  <2>2. QED
    BY <1>2, <2>1, GatheredIsRecord
<1> HIDE DEF said, read
<1>5. QED
  BY <1>2, <1>3, <1>4 DEF SaysDelta, Difference, read

LEMMA FollowIsEncodingsAgree ==
  ASSUME Typed, Follow
  PROVE  EncodingsAgree
<1> DEFINE packets == {packet \in
                         {EncodeDelta(schema, limits, encoding, sent.tick, sent, Current) :
                            encoding \in {"Masked", "SparseVarint", "SparsePacked"}} : packet.ok}
           said == {DecodeDeltaPacket(schema, limits, packet.val) : packet \in packets}
           values == {d.val : d \in {d \in said : d.ok}}
           difference == Difference(schema, sent.entities, Current.entities)
<1>1. /\ ValidSchema(schema) /\ Indexed(schema)
      /\ IsEntities(sent.entities) /\ SortedById(sent.entities)
      /\ IsEntities(Current.entities) /\ SortedById(Current.entities)
  BY SchemaIsValid, CurrentIsTaken DEF Follow, Copied, Taken
<1>2. ASSUME NEW packet \in packets, DecodeDeltaPacket(schema, limits, packet.val).ok
      PROVE  DecodeDeltaPacket(schema, limits, packet.val).val = difference
  <2>1. PICK encoding \in Encodings :
          packet = EncodeDelta(schema, limits, encoding, sent.tick, sent, Current)
    BY DEF Encodings
  <2>2. packet.ok
    OBVIOUS
  <2> HIDE DEF packets
  <2>3. QED
    BY ONLY <1>1, <1>2, <2>1, <2>2, DeltaIsDifference
<1>3. values \in SUBSET {difference}
  <2> HIDE DEF packets, difference
  <2>1. ASSUME NEW d \in said, d.ok
        PROVE  d.val = difference
    BY <1>2, <2>1
  <2> HIDE DEF said
  <2>2. QED
    BY <2>1
<1> HIDE DEF values, difference
<1>4. Cardinality(values) <= 1
  <2>1. IsFiniteSet({difference}) /\ Cardinality({difference}) = 1
    BY FS_Singleton
  <2>2. Cardinality(values) <= Cardinality({difference})
    BY <1>3, <2>1, FS_Subset
  <2>3. QED
    BY <2>1, <2>2
<1>5. QED
  BY <1>4 DEF EncodingsAgree, values

(* Whatever the schema, the limits, the values and the thresholds, the     *)
(* receiver is told the same creates, destroys and updates, in the same    *)
(* order, by each of the three encodings that it can decode                *)
(* (encode_delta_payload_with_mode and the decoders of delta.rs).          *)
THEOREM EncodingsAgreeCorrect == Spec => []EncodingsAgree
<1>1. Init => Follow
  BY InitiallyFollows
<1>2. Typed /\ Follow /\ [Next]_vars => Follow'
  BY StaysFollowing
<1>3. Typed /\ Follow => EncodingsAgree
  BY FollowIsEncodingsAgree
<1>4. QED
  BY <1>1, <1>2, <1>3, TypedAlways, PTL DEF Spec

-----------------------------------------------------------------------------
(* What is encoded can be decoded and applied: each check of the decoders  *)
(* follows from a check of the encoder or from the way it lists things.    *)

(* A pair of the diff is of an entity that both snapshots have. *)
LEMMA UpdatedAre ==
  ASSUME NEW s, NEW bs, IsEntities(bs), NEW cs, NEW n \in DOMAIN Updated(s, bs, cs)
  PROVE  \E id \in Common(bs, cs) : /\ HasUpdates(s, EntityOf(bs, id), EntityOf(cs, id))
                                    /\ Updated(s, bs, cs)[n].base = EntityOf(bs, id)
                                    /\ Updated(s, bs, cs)[n].curr = EntityOf(cs, id)
<1> DEFINE P == ChangedIds(s, bs, cs)
           ids == Listed(P)
<1>1. Updated(s, bs, cs) = [i \in DOMAIN ids |-> [base |-> EntityOf(bs, ids[i]), curr |-> EntityOf(cs, ids[i])]]
  BY DEF Updated, ChangedIds
<1>2. P \subseteq Ids(bs)
  BY DEF ChangedIds, Common
<1> HIDE DEF P
<1>3. IsFiniteSet(P) /\ P \subseteq Int
  <2>1. IsFiniteSet(Ids(bs)) /\ Ids(bs) \subseteq Nat
    BY IdsAreFinite
  <2>2. P \subseteq Int
    BY <1>2, <2>1
  <2>3. QED
    BY <1>2, <2>1, <2>2, FS_Subset
<1>4. \A i \in DOMAIN ids : ids[i] \in P
  BY ONLY <1>3, ListedIs
<1>5. n \in DOMAIN ids
  BY <1>1
<1> HIDE DEF ids
<1>6. ids[n] \in P /\ Updated(s, bs, cs)[n].base = EntityOf(bs, ids[n])
      /\ Updated(s, bs, cs)[n].curr = EntityOf(cs, ids[n])
  BY <1>1, <1>4, <1>5
<1>7. ids[n] \in Common(bs, cs) /\ HasUpdates(s, EntityOf(bs, ids[n]), EntityOf(cs, ids[n]))
  BY <1>6 DEF P, ChangedIds
<1>8. QED
  BY <1>6, <1>7

-----------------------------------------------------------------------------
(* What the encoder has checked. *)

(* The fields that changed are few enough and in the range of their codecs. *)
Sendable(s, lim, pairs) ==
  \A n \in DOMAIN pairs : \A k \in ChangedPlaces(s, pairs[n].base, pairs[n].curr) :
    /\ ~(Len(s[k].fields) > lim.fields)
    /\ \A i \in ChangedFields(s[k], pairs[n].base.components[s[k].id],
                                    pairs[n].curr.components[s[k].id]) :
         ValueError(s[k].fields[i], pairs[n].curr.components[s[k].id][i]) = None

(* The values that are written are in the range of their codecs. *)
LEMMA WrittenInRange ==
  ASSUME NEW s, ValidSchema(s), NEW pairs, DOMAIN pairs \subseteq Nat,
         WrittenValuesError(s, pairs) = None,
         NEW n \in DOMAIN pairs, NEW k \in ChangedPlaces(s, pairs[n].base, pairs[n].curr)
  PROVE  \A i \in ChangedFields(s[k], pairs[n].base.components[s[k].id],
                                      pairs[n].curr.components[s[k].id]) :
           ValueError(s[k].fields[i], pairs[n].curr.components[s[k].id][i]) = None
<1> DEFINE changed(m) == ChangedComponents(s, pairs[m].base, pairs[m].curr)
           ofFields(m, c) == [i \in ChangedFields(c, pairs[m].base.components[c.id],
                                                     pairs[m].curr.components[c.id]) |->
                                ValueError(c.fields[i], pairs[m].curr.components[c.id][i])]
           ofComponents(m) == [j \in DOMAIN changed(m) |-> FirstError(ofFields(m, changed(m)[j]))]
           ofPairs == [m \in DOMAIN pairs |-> FirstError(ofComponents(m))]
<1>1. FirstError(ofPairs) = None
  BY DEF WrittenValuesError
<1>2. DOMAIN ofPairs = DOMAIN pairs /\ ofPairs[n] = FirstError(ofComponents(n))
  OBVIOUS
<1> HIDE DEF ofPairs
<1>3. FirstError(ofComponents(n)) = None
  BY <1>1, <1>2, FirstErrorIs
<1>4. PICK j \in DOMAIN changed(n) : changed(n)[j] = s[k]
  <2>1. /\ DOMAIN changed(n) = DOMAIN Listed(ChangedPlaces(s, pairs[n].base, pairs[n].curr))
        /\ \A i \in DOMAIN Listed(ChangedPlaces(s, pairs[n].base, pairs[n].curr)) :
             changed(n)[i] = s[Listed(ChangedPlaces(s, pairs[n].base, pairs[n].curr))[i]]
        /\ \E i \in DOMAIN Listed(ChangedPlaces(s, pairs[n].base, pairs[n].curr)) :
             Listed(ChangedPlaces(s, pairs[n].base, pairs[n].curr))[i] = k
    BY ChangedComponentsAre
  <2>2. QED
    BY <2>1
<1>5. DOMAIN changed(n) \subseteq Nat
  BY ChangedComponentsAre
<1>6. DOMAIN ofComponents(n) = DOMAIN changed(n)
      /\ ofComponents(n)[j] = FirstError(ofFields(n, s[k]))
  BY <1>4
<1> HIDE DEF ofComponents
<1>7. FirstError(ofFields(n, s[k])) = None
  BY <1>3, <1>4, <1>5, <1>6, FirstErrorIs
<1>8. k \in DOMAIN s
  BY DEF ChangedPlaces, Shared
<1>9. DOMAIN ofFields(n, s[k]) \subseteq Nat
  <2>1. ChangedFields(s[k], pairs[n].base.components[s[k].id], pairs[n].curr.components[s[k].id])
          \subseteq DOMAIN s[k].fields
    BY <1>8, ChangedFieldsAre
  <2>2. DOMAIN s[k].fields \subseteq Nat
    BY <1>8, ComponentOfIs
  <2>3. QED
    BY <2>1, <2>2
<1>10. \A i \in DOMAIN ofFields(n, s[k]) : ofFields(n, s[k])[i] = None
  <2> DEFINE errors == ofFields(n, s[k])
  <2>1. DOMAIN errors \subseteq Nat /\ FirstError(errors) = None
    BY <1>7, <1>9
  <2> HIDE DEF errors
  <2>2. \A i \in DOMAIN errors : errors[i] = None
    BY <2>1, FirstErrorIs
  <2>3. QED
    BY <2>2 DEF errors
<1>11. QED
  BY <1>10

(* The components that both have, have few enough fields. *)
LEMMA ComparedHasRoom ==
  ASSUME NEW s, ValidSchema(s), NEW lim, NEW base, NEW curr, EntityDiffError(s, lim, base, curr) = None,
         NEW k \in Shared(s, base, curr)
  PROVE  ~(Len(s[k].fields) > lim.fields)
<1> DEFINE errors == [x \in Shared(s, base, curr) |->
                        PairError(s[x], lim, base.components[s[x].id], curr.components[s[x].id])]
<1>1. FirstError(errors) = None
  BY DEF EntityDiffError, Then
<1>2. DOMAIN errors \subseteq Nat /\ k \in DOMAIN errors
  BY DEF Shared, ValidSchema
<1>3. errors[k] = PairError(s[k], lim, base.components[s[k].id], curr.components[s[k].id])
  OBVIOUS
<1> HIDE DEF errors
<1>4. errors[k] = None
  BY <1>1, <1>2, FirstErrorIs
<1>5. QED
  BY <1>3, <1>4 DEF PairError, None

(* The pairs of a diff that the encoder has written can be sent. *)
LEMMA UpdatedIsSendable ==
  ASSUME NEW s, ValidSchema(s), NEW lim,
         NEW bs, IsEntities(bs), SortedById(bs), NEW cs, IsEntities(cs), SortedById(cs),
         DiffError(s, lim, bs, cs) = None, WrittenValuesError(s, Updated(s, bs, cs)) = None
  PROVE  Sendable(s, lim, Updated(s, bs, cs))
<1> DEFINE pairs == Updated(s, bs, cs)
<1>1. InTurn(s, pairs)
  BY UpdatedCovers
<1>2. DOMAIN pairs \subseteq Nat
  BY <1>1 DEF InTurn, IsList
<1>3. ASSUME NEW n \in DOMAIN pairs
      PROVE  \E id \in Common(bs, cs) : pairs[n].base = EntityOf(bs, id) /\ pairs[n].curr = EntityOf(cs, id)
  BY UpdatedAre
<1> HIDE DEF pairs
<1> SUFFICES ASSUME NEW n \in DOMAIN pairs,
                    NEW k \in ChangedPlaces(s, pairs[n].base, pairs[n].curr)
             PROVE  /\ ~(Len(s[k].fields) > lim.fields)
                    /\ \A i \in ChangedFields(s[k], pairs[n].base.components[s[k].id],
                                    pairs[n].curr.components[s[k].id]) :
                         ValueError(s[k].fields[i], pairs[n].curr.components[s[k].id][i]) = None
  BY DEF Sendable, pairs
<1>4. PICK id \in Common(bs, cs) : pairs[n].base = EntityOf(bs, id) /\ pairs[n].curr = EntityOf(cs, id)
  BY <1>3
<1>5. EntityDiffError(s, lim, pairs[n].base, pairs[n].curr) = None
  BY <1>4, ComparedIs
<1>6. k \in Shared(s, pairs[n].base, pairs[n].curr)
  BY DEF ChangedPlaces
<1>7. ~(Len(s[k].fields) > lim.fields)
  BY <1>5, <1>6, ComparedHasRoom
<1>8. WrittenValuesError(s, pairs) = None
  BY DEF pairs
<1>9. QED
  BY <1>2, <1>7, <1>8, WrittenInRange

-----------------------------------------------------------------------------
(* What the decoders check: a list of numbers in order, the entities that  *)
(* are created, the masks.                                                 *)

(* A check that finds no error passes. *)
LEMMA NoError ==
  ASSUME NEW v
  PROVE  Checked(None, v).ok /\ Checked(None, v).val = v
BY DEF Checked, Ok

(* Destroyed entities are listed in order. *)
LEMMA DestroysDecode ==
  ASSUME NEW lim, NEW ids, IsFiniteSet(ids), ids \subseteq Int,
         NEW body, body = Listed(ids),
         ~(Len(body) > lim.section), ~(Len(body) > lim.destroy)
  PROVE  DecodeDestroySection(lim, body).ok
<1> DEFINE errors == [i \in DOMAIN body |->
                        IF i > 1 /\ body[i] <= body[i - 1] THEN "InvalidEntityOrder" ELSE None]
<1>1. /\ DOMAIN body = 1 .. Cardinality(ids) /\ Cardinality(ids) \in Nat
      /\ \A n \in DOMAIN body : body[n] \in Int
      /\ \A m, n \in DOMAIN body : m < n => body[m] < body[n]
  BY ListedIs
<1>2. ASSUME NEW i \in DOMAIN body
      PROVE  errors[i] = None
  <2>1. i > 1 => i - 1 \in DOMAIN body /\ i - 1 < i
    BY <1>1
  <2>2. i > 1 => body[i - 1] < body[i] /\ body[i - 1] \in Int /\ body[i] \in Int
    BY <1>1, <2>1
  <2>3. ~(i > 1 /\ body[i] <= body[i - 1])
    BY <2>2
  <2>4. QED
    BY <2>3
<1>3. SortedError(body) = None
  <2>1. DOMAIN errors \subseteq Nat /\ \A i \in DOMAIN errors : errors[i] = None
    BY <1>1, <1>2
  <2>2. SortedError(body) = FirstError(errors)
    BY DEF SortedError
  <2> HIDE DEF errors
  <2>3. QED
    BY <2>1, <2>2, FirstErrorIs
<1>4. DecodeDestroySection(lim, body) = Checked(None, body)
  BY <1>3 DEF DecodeDestroySection, SectionTooLong, Then
<1>5. QED
  BY <1>4, NoError

(* Created entities are in order, and their components as they should be. *)
LEMMA CreatesDecode ==
  ASSUME NEW s, ValidSchema(s), NEW lim, NEW created, IsEntities(created), SortedById(created),
         \A i \in DOMAIN created : ComponentsError(s, lim, created[i]) = None,
         ~(Len(Body(s, created)) > lim.section), ~(Len(created) > lim.create)
  PROVE  DecodeDeltaCreateSection(s, lim, Body(s, created)).ok
<1> DEFINE body == Body(s, created)
           errors == [i \in DOMAIN body |-> Then(OrderError(body, i), WireEntityError(s, lim, body[i]))]
           read == [i \in DOMAIN body |-> ReadEntity(s, body[i])]
<1>1. /\ DOMAIN created = 1 .. Len(created) /\ Len(created) \in Nat
      /\ \A i \in DOMAIN created : IsEntity(created[i]) /\ created[i].id \in Nat
  BY DEF IsEntities
<1>2. /\ DOMAIN body = DOMAIN created /\ body = [i \in DOMAIN body |-> body[i]]
      /\ \A i \in DOMAIN created : body[i] = WireEntity(s, created[i])
  BY DEF Body
<1> HIDE DEF body
<1>3. Len(body) = Len(created)
  BY <1>1, <1>2, ListsAre
<1>4. ASSUME NEW i \in DOMAIN created
      PROVE  OrderError(body, i) = None
  <2>1. \A j \in DOMAIN created : body[j].id = created[j].id
    BY <1>2 DEF WireEntity
  <2>2. i > 1 => i - 1 \in DOMAIN created /\ i - 1 < i
    BY <1>1
  <2>3. i > 1 => /\ created[i - 1].id < created[i].id
                 /\ created[i - 1].id \in Nat /\ created[i].id \in Nat
    BY <1>1, <2>2 DEF SortedById
  <2>4. i > 1 => ~(body[i].id <= body[i - 1].id)
    BY <2>1, <2>2, <2>3
  <2>5. QED
    BY <2>4 DEF OrderError, OutOfOrder
<1>5. \A i \in DOMAIN created : WireEntityError(s, lim, body[i]) = None
  BY <1>1, <1>2, EntityDecodes
<1>6. FirstError(errors) = None
  <2>1. DOMAIN errors \subseteq Nat /\ \A i \in DOMAIN errors : errors[i] = None
    BY <1>1, <1>2, <1>4, <1>5 DEF Then
  <2> HIDE DEF errors
  <2>2. QED
    BY <2>1, FirstErrorIs
<1>7. SectionTooLong(lim, body) = None /\ ~(Len(body) > lim.create)
  BY <1>3 DEF SectionTooLong, body
<1>8. DecodeDeltaCreateSection(s, lim, body) =
        Checked(Then(SectionTooLong(lim, body),
                     IF Len(body) > lim.create THEN "LimitsExceeded" ELSE FirstError(errors)), read)
  BY DEF DecodeDeltaCreateSection
<1> HIDE DEF errors, read
<1>9. DecodeDeltaCreateSection(s, lim, body) = Checked(None, read)
  BY <1>6, <1>7, <1>8 DEF Then
<1>10. QED
  BY <1>9, NoError DEF body

(* A component that changed is found where its mask says, with the values  *)
(* of the fields that changed.                                             *)
LEMMA MaskedComponentDecodes ==
  ASSUME NEW s, ValidSchema(s), NEW lim, NEW base, NEW curr,
         NEW k \in ChangedPlaces(s, base, curr), ~(Len(s[k].fields) > lim.fields),
         \A i \in ChangedFields(s[k], base.components[s[k].id], curr.components[s[k].id]) :
           ValueError(s[k].fields[i], curr.components[s[k].id][i]) = None,
         NEW entry, entry = MaskedEntry(s, base, curr)
  PROVE  UpdateComponentError(s[k], lim, entry.components[Rank(entry.mask, k)]) = None
<1> DEFINE places == ChangedPlaces(s, base, curr)
           order == Listed(places)
           changed == ChangedComponents(s, base, curr)
           n == Rank(entry.mask, k)
           mask(c) == FieldMask(c, base.components[c.id], curr.components[c.id])
           values(c) == curr.components[c.id]
           wire == entry.components[n]
<1>1. /\ places \subseteq DOMAIN s
      /\ DOMAIN changed = DOMAIN order
      /\ \A j \in DOMAIN order : changed[j] = s[order[j]]
  BY ChangedComponentsAre
<1>2. Marked(entry.mask) = places
  BY MaskedPlacesAre
<1>3. /\ DOMAIN entry.mask = DOMAIN s
      /\ entry.components = [j \in DOMAIN changed |->
           [mask |-> mask(changed[j]),
            values |-> ElementsAt(values(changed[j]), Marked(mask(changed[j])))]]
  BY DEF MaskedEntry
<1>4. DOMAIN s = 1 .. Len(s) /\ IsFiniteSet(DOMAIN s) /\ DOMAIN s \subseteq Nat
  <2>1. DOMAIN s = 1 .. Len(s) /\ Len(s) \in Nat
    BY DEF ValidSchema
  <2>2. QED
    BY <2>1, FS_Interval
<1>5. n \in DOMAIN order /\ order[n] = k
  BY <1>2, <1>3, <1>4, MarkedIs
<1>6. wire = [mask |-> mask(s[k]), values |-> ElementsAt(values(s[k]), Marked(mask(s[k])))]
  <2> HIDE DEF mask, values, changed, order, n
  <2>1. QED
    BY <1>1, <1>3, <1>5
<1>7. k \in DOMAIN s
  BY <1>1
<1> DEFINE bits == mask(s[k])
           set == Marked(bits)
<1>8. set = ChangedFields(s[k], base.components[s[k].id], curr.components[s[k].id]) /\ set # {}
  BY DEF ChangedFields, ChangedPlaces
<1>9. DOMAIN bits = DOMAIN s[k].fields /\ IsFiniteSet(DOMAIN bits) /\ DOMAIN bits \subseteq Nat
  <2>1. DOMAIN s[k].fields = 1 .. Len(s[k].fields) /\ Len(s[k].fields) \in Nat
    BY <1>7, ComponentOfIs
  <2>2. DOMAIN bits = DOMAIN s[k].fields
    BY DEF FieldMask
  <2>3. QED
    BY <2>1, <2>2, FS_Interval
<1>10. wire.mask = bits /\ wire.values = ElementsAt(values(s[k]), set)
  BY <1>6
<1> HIDE DEF wire, bits
<1>11. ASSUME NEW i \in set
       PROVE  ValueError(s[k].fields[i], wire.values[Rank(bits, i)]) = None
  <2>1. Rank(bits, i) \in DOMAIN Listed(set) /\ Listed(set)[Rank(bits, i)] = i
    BY <1>9, MarkedIs
  <2>2. wire.values[Rank(bits, i)] = curr.components[s[k].id][i]
    <3>1. ElementsAt(values(s[k]), set) = [m \in DOMAIN Listed(set) |-> values(s[k])[Listed(set)[m]]]
      BY DEF ElementsAt
    <3> HIDE DEF set
    <3>2. QED
      BY <1>10, <2>1, <3>1
  <2>3. QED
    BY <1>8, <2>2
<1>12. \E i \in DOMAIN wire.mask : wire.mask[i]
  BY <1>8, <1>10 DEF Marked
<1> DEFINE errors == [i \in set |-> ValueError(s[k].fields[i], wire.values[Rank(bits, i)])]
<1>13. FirstError(errors) = None
  <2>1. DOMAIN errors \subseteq Nat /\ \A i \in DOMAIN errors : errors[i] = None
    BY <1>9, <1>11 DEF Marked
  <2> HIDE DEF errors
  <2>2. QED
    BY <2>1, FirstErrorIs
<1>14. UpdateComponentError(s[k], lim, wire) = FirstError(errors)
  BY <1>10, <1>12 DEF UpdateComponentError
<1>15. QED
  BY <1>13, <1>14 DEF wire

(* The entries of a masked section. *)
LEMMA MaskedDecodes ==
  ASSUME NEW s, ValidSchema(s), NEW lim, NEW pairs, InTurn(s, pairs), Sendable(s, lim, pairs),
         NEW body, body = [i \in DOMAIN pairs |-> MaskedEntry(s, pairs[i].base, pairs[i].curr)],
         ~(Len(body) > lim.section), ~(Len(pairs) > lim.update)
  PROVE  DecodeMasked(s, lim, body).ok
<1> DEFINE component(i) == [k \in Marked(body[i].mask) |->
                              UpdateComponentError(s[k], lim, body[i].components[Rank(body[i].mask, k)])]
           errors == [i \in DOMAIN body |-> Then(OrderError(body, i), FirstError(component(i)))]
<1>1. /\ DOMAIN pairs = 1 .. Len(pairs) /\ Len(pairs) \in Nat
      /\ \A n \in DOMAIN pairs : pairs[n].curr.id \in Nat
      /\ \A m, n \in DOMAIN pairs : m < n => pairs[m].curr.id < pairs[n].curr.id
  BY DEF InTurn, IsList
<1>2. /\ DOMAIN body = DOMAIN pairs /\ body = [i \in DOMAIN body |-> body[i]]
      /\ \A i \in DOMAIN pairs : body[i] = MaskedEntry(s, pairs[i].base, pairs[i].curr)
  OBVIOUS
<1>3. Len(body) = Len(pairs)
  BY <1>1, <1>2, ListsAre
<1>4. ASSUME NEW i \in DOMAIN pairs
      PROVE  OrderError(body, i) = None
  <2>1. \A j \in DOMAIN pairs : body[j].id = pairs[j].curr.id
    BY <1>2 DEF MaskedEntry
  <2>2. i > 1 => i - 1 \in DOMAIN pairs /\ i - 1 < i
    BY <1>1
  <2>3. i > 1 => /\ pairs[i - 1].curr.id < pairs[i].curr.id
                 /\ pairs[i - 1].curr.id \in Nat /\ pairs[i].curr.id \in Nat
    BY <1>1, <2>2
  <2>4. i > 1 => ~(body[i].id <= body[i - 1].id)
    BY <2>1, <2>2, <2>3
  <2>5. QED
    BY <2>4 DEF OrderError, OutOfOrder
<1>5. ASSUME NEW i \in DOMAIN pairs
      PROVE  FirstError(component(i)) = None
  <2>1. Marked(body[i].mask) = ChangedPlaces(s, pairs[i].base, pairs[i].curr)
    BY <1>2, MaskedPlacesAre
  <2>2. ASSUME NEW k \in Marked(body[i].mask)
        PROVE  UpdateComponentError(s[k], lim, body[i].components[Rank(body[i].mask, k)]) = None
    <3>1. /\ k \in ChangedPlaces(s, pairs[i].base, pairs[i].curr)
          /\ ~(Len(s[k].fields) > lim.fields)
          /\ \A j \in ChangedFields(s[k], pairs[i].base.components[s[k].id],
                                          pairs[i].curr.components[s[k].id]) :
               ValueError(s[k].fields[j], pairs[i].curr.components[s[k].id][j]) = None
      BY <2>1 DEF Sendable
    <3>2. body[i] = MaskedEntry(s, pairs[i].base, pairs[i].curr)
      BY <1>2
    <3>3. QED
      BY ONLY ValidSchema(s), <3>1, <3>2, MaskedComponentDecodes
  <2>3. ChangedPlaces(s, pairs[i].base, pairs[i].curr) \subseteq Nat
    <3>1. ChangedPlaces(s, pairs[i].base, pairs[i].curr) \subseteq DOMAIN s
      BY DEF ChangedPlaces, Shared
    <3>2. DOMAIN s \subseteq Nat
      BY DEF ValidSchema
    <3>3. QED
      BY ONLY <3>1, <3>2
  <2> DEFINE mine == component(i)
  <2>4. DOMAIN mine \subseteq Nat /\ \A k \in DOMAIN mine : mine[k] = None
    BY <2>1, <2>2, <2>3
  <2> HIDE DEF mine
  <2>5. FirstError(mine) = None
    BY <2>4, FirstErrorIs
  <2>6. QED
    BY <2>5 DEF mine
<1> HIDE DEF component
<1>6. FirstError(errors) = None
  <2>1. DOMAIN errors \subseteq Nat /\ \A i \in DOMAIN errors : errors[i] = None
    BY <1>1, <1>2, <1>4, <1>5 DEF Then
  <2> HIDE DEF errors
  <2>2. QED
    BY <2>1, FirstErrorIs
<1>7. SectionTooLong(lim, body) = None /\ ~(Len(body) > lim.update)
  BY <1>3 DEF SectionTooLong
<1> DEFINE read == [i \in DOMAIN body |-> MaskedRead(s, body[i])]
<1>8. DecodeMasked(s, lim, body) =
        Checked(Then(SectionTooLong(lim, body),
                     IF Len(body) > lim.update THEN "LimitsExceeded" ELSE FirstError(errors)), read)
  BY DEF DecodeMasked, MaskedRead, component
<1> HIDE DEF errors, read
<1>9. DecodeMasked(s, lim, body) = Checked(None, read)
  BY <1>6, <1>7, <1>8 DEF Then
<1>10. QED
  BY <1>9, NoError

(* The sparse decoder's checks on an entry but for its order. *)
EntryError(s, lim, e) ==
  IF e.component \notin ComponentIds(s) \/ e.fields = <<>> THEN "InvalidMask"
  ELSE IF Len(e.fields) > lim.fields THEN "LimitsExceeded"
  ELSE IF Len(e.fields) > Len(ComponentOf(s, e.component).fields) THEN "InvalidMask"
  ELSE FirstError([n \in DOMAIN e.fields |->
         IF \/ e.fields[n][1] \notin DOMAIN ComponentOf(s, e.component).fields
            \/ n > 1 /\ e.fields[n][1] <= e.fields[n - 1][1]
         THEN "InvalidMask"
         ELSE ValueError(ComponentOf(s, e.component).fields[e.fields[n][1]], e.fields[n][2])])

(* The fields of an entry are in order, and no more than the component has. *)
LEMMA EntryDecodes ==
  ASSUME NEW s, ValidSchema(s), NEW lim, lim.fields \in Nat, NEW base, NEW curr,
         NEW k \in ChangedPlaces(s, base, curr), ~(Len(s[k].fields) > lim.fields),
         \A i \in ChangedFields(s[k], base.components[s[k].id], curr.components[s[k].id]) :
           ValueError(s[k].fields[i], curr.components[s[k].id][i]) = None
  PROVE  EntryError(s, lim, EntryOf(s[k], base, curr)) = None
<1> DEFINE e == EntryOf(s[k], base, curr)
           set == ChangedFields(s[k], base.components[s[k].id], curr.components[s[k].id])
           order == Listed(set)
           v == curr.components[s[k].id]
           ErrorOf(n) == IF \/ e.fields[n][1] \notin DOMAIN s[k].fields
                            \/ n > 1 /\ e.fields[n][1] <= e.fields[n - 1][1]
                         THEN "InvalidMask"
                         ELSE ValueError(s[k].fields[e.fields[n][1]], e.fields[n][2])
           errors == [n \in DOMAIN e.fields |-> ErrorOf(n)]
<1>1. k \in DOMAIN s /\ set # {}
  BY DEF ChangedPlaces, Shared
<1>2. /\ s[k].id \in ComponentIds(s) /\ ComponentOf(s, s[k].id) = s[k]
      /\ DOMAIN s[k].fields = 1 .. Len(s[k].fields) /\ Len(s[k].fields) \in Nat
  BY <1>1, ComponentOfIs DEF ComponentIds
<1>3. set \subseteq DOMAIN s[k].fields /\ IsFiniteSet(set) /\ set \subseteq Int
  BY <1>1, ChangedFieldsAre
<1>4. e.component = s[k].id /\ e.fields = [n \in DOMAIN order |-> <<order[n], v[order[n]]>>]
  BY DEF EntryOf
<1>5. \A i \in set : ValueError(s[k].fields[i], v[i]) = None
  OBVIOUS
<1> HIDE DEF set, e, v
<1>6. /\ Cardinality(set) \in Nat /\ DOMAIN order = 1 .. Cardinality(set)
      /\ \A n \in DOMAIN order : order[n] \in set
      /\ \A m, n \in DOMAIN order : m < n => order[m] < order[n]
  BY <1>3, ListedIs
<1>7. Cardinality(set) <= Len(s[k].fields) /\ Cardinality(set) # 0
  <2>1. IsFiniteSet(1 .. Len(s[k].fields)) /\ Cardinality(1 .. Len(s[k].fields)) = Len(s[k].fields)
    BY <1>2, FS_Interval
  <2>2. Cardinality(set) <= Cardinality(1 .. Len(s[k].fields))
    BY <1>2, <1>3, <2>1, FS_Subset
  <2>3. Cardinality(set) # 0
    BY <1>1, <1>3, FS_EmptySet
  <2>4. QED
    BY <2>1, <2>2, <2>3
<1> HIDE DEF order
<1>8. /\ DOMAIN e.fields = 1 .. Cardinality(set) /\ e.fields = [n \in DOMAIN e.fields |-> e.fields[n]]
      /\ \A n \in 1 .. Cardinality(set) : e.fields[n][1] = order[n] /\ e.fields[n][2] = v[order[n]]
  BY <1>4, <1>6
<1>9. Len(e.fields) = Cardinality(set)
  BY <1>6, <1>8, ListsAre
<1>10. e.fields # <<>>
  <2>1. 1 \in DOMAIN e.fields
    BY <1>6, <1>7, <1>8
  <2>2. QED
    BY <2>1
<1>11. ~(Len(e.fields) > lim.fields) /\ ~(Len(e.fields) > Len(s[k].fields))
  BY <1>2, <1>6, <1>7, <1>9
<1>12. ASSUME NEW n \in 1 .. Cardinality(set)
       PROVE  ErrorOf(n) = None
  <2>1. order[n] \in set /\ e.fields[n][1] \in DOMAIN s[k].fields
    BY <1>3, <1>6, <1>8
  <2>2. ~(n > 1 /\ e.fields[n][1] <= e.fields[n - 1][1])
    <3>1. n > 1 => n - 1 \in 1 .. Cardinality(set) /\ n - 1 < n
      BY <1>6
    <3>2. n > 1 => order[n - 1] < order[n] /\ order[n - 1] \in Int /\ order[n] \in Int
      BY <1>3, <1>6, <3>1
    <3>3. QED
      BY <1>8, <3>1, <3>2
  <2>3. ValueError(s[k].fields[e.fields[n][1]], e.fields[n][2]) = None
    BY <1>5, <1>8, <2>1
  <2>4. QED
    BY <2>1, <2>2, <2>3
<1> HIDE DEF ErrorOf
<1>13. FirstError(errors) = None
  <2>1. DOMAIN errors \subseteq Nat /\ \A n \in DOMAIN errors : errors[n] = None
    BY <1>6, <1>8, <1>12
  <2> HIDE DEF errors
  <2>2. QED
    BY <2>1, FirstErrorIs
<1>14. EntryError(s, lim, e) = FirstError(errors)
  BY <1>2, <1>4, <1>10, <1>11 DEF EntryError, ErrorOf
<1>15. QED
  BY <1>13, <1>14 DEF e

(* An entry is of one of the components that changed, in their order. *)
LEMMA EntryAt ==
  ASSUME NEW s, ValidSchema(s), NEW base, NEW curr, NEW j \in 1 .. Len(Entries(s, base, curr))
  PROVE  LET k == Listed(ChangedPlaces(s, base, curr))[j] IN
         /\ k \in ChangedPlaces(s, base, curr) /\ j \in DOMAIN Listed(ChangedPlaces(s, base, curr))
         /\ Entries(s, base, curr)[j] = EntryOf(s[k], base, curr)
<1> DEFINE places == ChangedPlaces(s, base, curr)
           order == Listed(places)
           changed == ChangedComponents(s, base, curr)
           entries == Entries(s, base, curr)
<1>1. /\ DOMAIN changed = DOMAIN order
      /\ \A i \in DOMAIN order : order[i] \in places /\ changed[i] = s[order[i]]
  BY ChangedComponentsAre
<1>2. entries = [i \in DOMAIN changed |-> EntryOf(changed[i], base, curr)]
  BY DEF Entries
<1>3. j \in DOMAIN entries
  BY EntriesAre DEF IsList
<1> HIDE DEF entries, changed, order, places
<1>4. j \in DOMAIN order /\ entries[j] = EntryOf(s[order[j]], base, curr)
  BY <1>1, <1>2, <1>3
<1>5. QED
  BY <1>1, <1>4 DEF entries, order, places

(* Components registered by ascending id. *)
AscendingIds(s) == \A j, k \in DOMAIN s : j < k => s[j].id < s[k].id

(* The entries of a sparse section: those of each entity together, in the  *)
(* order of the schema.                                                    *)
LEMMA SparseDecodes ==
  ASSUME NEW s, ValidSchema(s), AscendingIds(s), NEW lim, lim.fields \in Nat,
         NEW pairs, InTurn(s, pairs), Sendable(s, lim, pairs),
         NEW body, body = FlattenSeq(EntriesOf(s, pairs)),
         ~(Len(body) > lim.section), ~(Len(body) > EntryLimit(lim)), ~(Len(pairs) > lim.update)
  PROVE  DecodeSparse(s, lim, body).ok
<1> DEFINE ss == EntriesOf(s, pairs)
           ids == Listed({body[i].entity : i \in DOMAIN body})
           OrderOf(i) == /\ i > 1
                         /\ \/ body[i].entity < body[i - 1].entity
                            \/ /\ body[i].entity = body[i - 1].entity
                               /\ body[i].component <= body[i - 1].component
           errors == [i \in DOMAIN body |-> SparseEntryError(s, lim, body, i)]
<1>1. /\ DOMAIN body = 1 .. Len(body) /\ Len(body) \in Nat
      /\ \E p, q : /\ Holds(EntriesOf(s, pairs), Len(pairs), body, p, q)
                   /\ \A i \in DOMAIN body : /\ p[i] \in DOMAIN pairs
                                             /\ body[i].entity = pairs[p[i]].curr.id
  BY ONLY ValidSchema(s), InTurn(s, pairs), body = FlattenSeq(EntriesOf(s, pairs)), BodyInTurn
<1>2. PICK p, q : /\ Holds(ss, Len(pairs), body, p, q)
                  /\ \A i \in DOMAIN body : p[i] \in DOMAIN pairs /\ body[i].entity = pairs[p[i]].curr.id
  BY <1>1
<1>3. /\ DOMAIN pairs = 1 .. Len(pairs) /\ Len(pairs) \in Nat
      /\ \A n \in DOMAIN pairs : pairs[n].curr.id \in Nat
      /\ \A m, n \in DOMAIN pairs : m < n => pairs[m].curr.id < pairs[n].curr.id
  BY DEF InTurn, IsList
<1> DEFINE places(i) == ChangedPlaces(s, pairs[p[i]].base, pairs[p[i]].curr)
           k(i) == Listed(places(i))[q[i]]
<1>4. ASSUME NEW i \in DOMAIN body
      PROVE  /\ q[i] \in DOMAIN Listed(places(i)) /\ k(i) \in places(i)
             /\ body[i] = EntryOf(s[k(i)], pairs[p[i]].base, pairs[p[i]].curr)
             /\ body[i].component = s[k(i)].id
  <2>1. q[i] \in 1 .. Len(ss[p[i]]) /\ body[i] = ss[p[i]][q[i]]
    BY <1>2 DEF Holds
  <2>2. ss[p[i]] = Entries(s, pairs[p[i]].base, pairs[p[i]].curr)
    BY <1>2 DEF EntriesOf
  <2>3. /\ k(i) \in places(i) /\ q[i] \in DOMAIN Listed(places(i))
        /\ body[i] = EntryOf(s[k(i)], pairs[p[i]].base, pairs[p[i]].curr)
    BY <2>1, <2>2, EntryAt
  <2>4. EntryOf(s[k(i)], pairs[p[i]].base, pairs[p[i]].curr).component = s[k(i)].id
    BY DEF EntryOf
  <2> HIDE DEF k, places
  <2>5. QED
    BY <2>3, <2>4
<1>5. ASSUME NEW i \in DOMAIN body
      PROVE  EntryError(s, lim, body[i]) = None
  <2>1. /\ k(i) \in places(i)
        /\ body[i] = EntryOf(s[k(i)], pairs[p[i]].base, pairs[p[i]].curr)
    BY <1>4
  <2>2. /\ ~(Len(s[k(i)].fields) > lim.fields)
        /\ \A j \in ChangedFields(s[k(i)], pairs[p[i]].base.components[s[k(i)].id],
                                           pairs[p[i]].curr.components[s[k(i)].id]) :
             ValueError(s[k(i)].fields[j], pairs[p[i]].curr.components[s[k(i)].id][j]) = None
    BY <1>2, <2>1 DEF Sendable
  <2> HIDE DEF k
  <2>3. QED
    BY <2>1, <2>2, EntryDecodes
<1>6. ASSUME NEW i \in DOMAIN body
      PROVE  ~OrderOf(i)
  <2> SUFFICES ASSUME i > 1
               PROVE  /\ ~(body[i].entity < body[i - 1].entity)
                      /\ body[i].entity = body[i - 1].entity => body[i - 1].component < body[i].component
                      /\ body[i].component \in Nat /\ body[i - 1].component \in Nat
    <3> HIDE DEF k, places
    <3>1. QED
      OBVIOUS
  <2>1. i - 1 \in DOMAIN body /\ i - 1 < i
    BY <1>1
  <2>2. p[i - 1] < p[i] \/ (p[i - 1] = p[i] /\ q[i - 1] < q[i])
    BY <1>2, <2>1 DEF Holds
  <2>3. /\ p[i] \in DOMAIN pairs /\ body[i].entity = pairs[p[i]].curr.id
        /\ p[i - 1] \in DOMAIN pairs /\ body[i - 1].entity = pairs[p[i - 1]].curr.id
        /\ pairs[p[i]].curr.id \in Nat /\ pairs[p[i - 1]].curr.id \in Nat
    BY <1>2, <1>3, <2>1
  <2>4. /\ q[i] \in DOMAIN Listed(places(i)) /\ k(i) \in places(i) /\ body[i].component = s[k(i)].id
        /\ q[i - 1] \in DOMAIN Listed(places(i - 1)) /\ k(i - 1) \in places(i - 1)
        /\ body[i - 1].component = s[k(i - 1)].id
    BY <1>4, <2>1
  <2>5. k(i) \in DOMAIN s /\ k(i - 1) \in DOMAIN s
    BY <2>4 DEF ChangedPlaces, Shared
  <2>6. s[k(i)].id \in Nat /\ s[k(i - 1)].id \in Nat
    BY <2>5, ComponentOfIs
  <2>7. CASE p[i - 1] < p[i]
    <3>1. pairs[p[i - 1]].curr.id < pairs[p[i]].curr.id
      BY <1>3, <2>3, <2>7
    <3> HIDE DEF k, places
    <3>2. QED
      BY <2>3, <2>4, <2>6, <3>1
  <2>8. CASE p[i - 1] = p[i] /\ q[i - 1] < q[i]
    <3> DEFINE order == Listed(places(i))
    <3>1. k(i) = order[q[i]] /\ k(i - 1) = order[q[i - 1]]
          /\ q[i] \in DOMAIN order /\ q[i - 1] \in DOMAIN order
      BY <2>4, <2>8
    <3>2. \A m, n \in DOMAIN order : m < n => order[m] < order[n]
      BY ChangedComponentsAre
    <3> HIDE DEF order, k, places
    <3>3. k(i - 1) < k(i)
      BY <2>8, <3>1, <3>2
    <3>4. s[k(i - 1)].id < s[k(i)].id
      BY <2>5, <3>3 DEF AscendingIds
    <3>5. QED
      BY <2>3, <2>4, <2>6, <2>8, <3>4
  <2>9. QED
    BY <2>2, <2>7, <2>8
<1> HIDE DEF OrderOf
<1>7. ASSUME NEW i \in DOMAIN body
      PROVE  SparseEntryError(s, lim, body, i) = None
  <2>1. SparseEntryError(s, lim, body, i) =
          IF OrderOf(i) THEN "InvalidEntityOrder" ELSE EntryError(s, lim, body[i])
    BY DEF SparseEntryError, EntryError, OrderOf
  <2>2. QED
    BY <1>5, <1>6, <2>1
<1>8. FirstError(errors) = None
  <2>1. DOMAIN errors \subseteq Nat /\ \A i \in DOMAIN errors : errors[i] = None
    BY <1>1, <1>7
  <2> HIDE DEF errors
  <2>2. QED
    BY <2>1, FirstErrorIs
<1>9. ~(Len(ids) > lim.update)
  <2>1. DOMAIN ids = DOMAIN pairs
    BY ONLY ValidSchema(s), InTurn(s, pairs), body = FlattenSeq(EntriesOf(s, pairs)), NamedInTurn
  <2>2. ids = [n \in DOMAIN ids |-> ids[n]]
    BY ListedIsAList
  <2> HIDE DEF ids
  <2>3. Len(ids) = Len(pairs)
    BY <1>3, <2>1, <2>2, ListsAre
  <2>4. QED
    BY <2>3
<1> DEFINE of(id) == ElementsAt(body, {i \in DOMAIN body : body[i].entity = id})
           read == [n \in DOMAIN ids |-> Regrouped(ids[n], of(ids[n]))]
<1>10. DecodeSparse(s, lim, body) =
         Checked(Then(SectionTooLong(lim, body),
                 Then(IF Len(body) > EntryLimit(lim) THEN "LimitsExceeded" ELSE None,
                 Then(FirstError(errors),
                      IF Len(ids) > lim.update THEN "LimitsExceeded" ELSE None))), read)
  BY DEF DecodeSparse, Regrouped
<1> HIDE DEF errors, read, ids
<1>11. DecodeSparse(s, lim, body) = Checked(None, read)
  BY <1>8, <1>9, <1>10 DEF Then, SectionTooLong
<1>12. QED
  BY <1>11, NoError

(* The update section, in any of the encodings. *)
LEMMA UpdateDecodes ==
  ASSUME NEW s, ValidSchema(s), Indexed(s), NEW lim, lim.fields \in Nat,
         NEW bs, IsEntities(bs), SortedById(bs), NEW cs, IsEntities(cs), SortedById(cs),
         DiffError(s, lim, bs, cs) = None, ~(Len(Updated(s, bs, cs)) > lim.update),
         NEW tag \in UpdateTags, tag = "Update" \/ AscendingIds(s),
         NEW body, body = UpdateBody(s, lim, tag, Updated(s, bs, cs)), body.ok,
         ~(Len(body.val) > lim.section)
  PROVE  DecodeSection(s, lim, Section(tag, body.val)).ok
<1> DEFINE pairs == Updated(s, bs, cs)
<1>1. InTurn(s, pairs)
  BY UpdatedCovers
<1>2. WrittenValuesError(s, pairs) = None => Sendable(s, lim, pairs)
  BY UpdatedIsSendable
<1> HIDE DEF pairs
<1>3. CASE tag = "Update"
  <2>1. body = EncodeMasked(s, lim, pairs)
    BY <1>3 DEF UpdateBody, pairs
  <2> DEFINE entries == [i \in DOMAIN pairs |-> MaskedEntry(s, pairs[i].base, pairs[i].curr)]
  <2>2. body = Checked(IF Len(pairs) > lim.update THEN "LimitsExceeded"
                       ELSE WrittenValuesError(s, pairs), entries)
    BY <2>1 DEF EncodeMasked
  <2> HIDE DEF entries
  <2>3. body.val = entries /\ WrittenValuesError(s, pairs) = None
    BY <2>2, CheckedIs DEF pairs
  <2>4. ~(Len(body.val) > lim.section) /\ ~(Len(pairs) > lim.update)
    BY DEF pairs
  <2>5. DecodeMasked(s, lim, body.val).ok
    BY ONLY ValidSchema(s), <1>1, <1>2, <2>3, <2>4, MaskedDecodes DEF entries
  <2>6. DecodeSection(s, lim, Section(tag, body.val)) = DecodeMasked(s, lim, body.val)
    BY <1>3 DEF DecodeSection, Section
  <2>7. QED
    BY <2>5, <2>6
<1>4. CASE tag # "Update"
  <2>1. body = EncodeSparseVarint(s, lim, pairs)
    BY <1>4, PackedIsVarint DEF UpdateBody, UpdateTags, pairs
  <2> DEFINE ss == [i \in DOMAIN pairs |-> SparseEntries(s, pairs[i], VarintIndex)]
             entries == FlattenSeq(ss)
  <2>2. ss = EntriesOf(s, pairs)
    BY VarintEntriesAre DEF EntriesOf
  <2>3. body = Checked(IF Len(pairs) > lim.update \/ Len(entries) > EntryLimit(lim)
                       THEN "LimitsExceeded" ELSE WrittenValuesError(s, pairs), entries)
    BY <2>1 DEF EncodeSparseVarint, SparseBody
  <2> HIDE DEF ss
  <2>4. entries = FlattenSeq(EntriesOf(s, pairs))
    BY <2>2
  <2> HIDE DEF entries
  <2>5. /\ body.val = entries /\ WrittenValuesError(s, pairs) = None
        /\ ~(Len(entries) > EntryLimit(lim))
    BY <2>3, CheckedIs DEF None
  <2>6. ~(Len(body.val) > lim.section) /\ ~(Len(pairs) > lim.update)
    BY DEF pairs
  <2>7. /\ AscendingIds(s) /\ lim.fields \in Nat
        /\ ~(Len(body.val) > EntryLimit(lim)) /\ body.val = FlattenSeq(EntriesOf(s, pairs))
    BY <1>4, <2>4, <2>5
  <2>8. DecodeSparse(s, lim, body.val).ok
    BY ONLY ValidSchema(s), <1>1, <1>2, <2>5, <2>6, <2>7, SparseDecodes
  <2>9. DecodeSection(s, lim, Section(tag, body.val)) = DecodeSparse(s, lim, body.val)
    BY <1>4 DEF DecodeSection, Section, UpdateTags, DecodeSparseVarint, DecodeSparsePacked
  <2>10. QED
    BY <2>8, <2>9
<1>5. QED
  BY <1>3, <1>4

(* Sections that all decode, each for a slot of its own. *)
LEMMA SectionsGather ==
  ASSUME NEW sections, DOMAIN sections = 1 .. Len(sections), Len(sections) \in Nat,
         \A i, j \in DOMAIN sections : i < j => Slot(sections[i].tag) # Slot(sections[j].tag),
         ~({"Update", "UpdateSparse"} \subseteq {Slot(sections[i].tag) : i \in DOMAIN sections}),
         NEW decoded, \A i \in DOMAIN sections : decoded[i].ok
  PROVE  GatherSections(sections, decoded).ok
<1> DEFINE slot(i) == Slot(sections[i].tag)
           ErrorOf(i) ==
             IF \E j \in 1 .. i - 1 : slot(j) = slot(i) THEN "DuplicateSection"
             ELSE IF decoded[i].ok THEN None ELSE decoded[i].error
           errors == [i \in DOMAIN sections |-> ErrorOf(i)]
           both == {"Update", "UpdateSparse"} \subseteq {slot(i) : i \in DOMAIN sections}
           said == [destroys |-> FoundIn(sections, decoded, "Destroy"),
                    creates |-> FoundIn(sections, decoded, "Create"),
                    updates |-> Appended(FoundIn(sections, decoded, "Update"),
                                         FoundIn(sections, decoded, "UpdateSparse"))]
<1>1. GatherSections(sections, decoded) =
        Checked(Then(FirstError(errors), IF both THEN "DuplicateUpdateEncoding" ELSE None), said)
  BY Zenon DEF GatherSections, FoundIn, Appended
<1>2. ASSUME NEW i \in DOMAIN sections
      PROVE  errors[i] = None
  <2>1. \A j \in 1 .. i - 1 : j \in DOMAIN sections /\ j < i
    OBVIOUS
  <2>2. ~(\E j \in 1 .. i - 1 : slot(j) = slot(i))
    BY <2>1
  <2>3. QED
    BY <2>2
<1>3. DOMAIN errors \subseteq Nat /\ ~both
  OBVIOUS
<1> HIDE DEF errors, both, said
<1>4. FirstError(errors) = None
  <2>1. \A i \in DOMAIN errors : errors[i] = None
    BY <1>2 DEF errors
  <2>2. QED
    BY <1>3, <2>1, FirstErrorIs
<1>5. GatherSections(sections, decoded) = Checked(None, said)
  BY <1>1, <1>3, <1>4 DEF Then
<1>6. QED
  BY <1>5, NoError

(* The sections of a delta, each of which decodes. *)
LEMMA DeltaSectionsDecode ==
  ASSUME NEW s, NEW lim, NEW destroyed, NEW created, NEW updated,
         NEW destroy, NEW create, NEW tag \in UpdateTags, NEW update,
         NEW sections,
         sections = Joined(OneFor(destroyed, "Destroy", destroy),
                           OneFor(created, "Create", create),
                           OneFor(updated, tag, update)),
         destroyed # <<>> => DecodeDestroySection(lim, destroy).ok,
         created # <<>> => DecodeDeltaCreateSection(s, lim, create).ok,
         updated # <<>> => DecodeSection(s, lim, Section(tag, update)).ok
  PROVE  DecodeDeltaSections(s, lim, sections).ok
<1> DEFINE d == Section("Destroy", destroy)
           c == Section("Create", create)
           u == Section(tag, update)
           decoded == [i \in DOMAIN sections |-> DecodeSection(s, lim, sections[i])]
<1>1. /\ DOMAIN sections = 1 .. Len(sections) /\ Len(sections) \in Nat
      /\ Range(sections) = (IF destroyed = <<>> THEN {} ELSE {d})
                             \cup (IF created = <<>> THEN {} ELSE {c})
                             \cup (IF updated = <<>> THEN {} ELSE {u})
      /\ \A i, j \in DOMAIN sections : i < j => Slot(sections[i].tag) # Slot(sections[j].tag)
  <2>1. /\ tag \in UpdateTags
        /\ sections = Joined(OneFor(destroyed, "Destroy", destroy),
                             OneFor(created, "Create", create),
                             OneFor(updated, tag, update))
    OBVIOUS
  <2>2. QED
    BY ONLY <2>1, SectionsAre
<1>2. d.tag = "Destroy" /\ c.tag = "Create" /\ u.tag = tag
  BY DEF Section
<1>3. /\ DecodeSection(s, lim, d) = DecodeDestroySection(lim, destroy)
      /\ DecodeSection(s, lim, c) = DecodeDeltaCreateSection(s, lim, create)
  BY DEF DecodeSection, Section
<1> HIDE DEF d, c, u
<1>4. \A x \in Range(sections) : DecodeSection(s, lim, x).ok
  BY <1>1, <1>3 DEF u
<1>5. \A i \in DOMAIN sections : decoded[i].ok
  BY <1>4 DEF Range
<1>6. ~({"Update", "UpdateSparse"} \subseteq {Slot(sections[i].tag) : i \in DOMAIN sections})
  <2>1. \A x \in Range(sections) : Slot(x.tag) \in {"Destroy", "Create", Slot(tag)}
    BY <1>1, <1>2 DEF Slot
  <2>2. {Slot(sections[i].tag) : i \in DOMAIN sections} \subseteq {"Destroy", "Create", Slot(tag)}
    BY <2>1 DEF Range
  <2>3. QED
    BY <2>2
<1> HIDE DEF decoded
<1>7. GatherSections(sections, decoded).ok
  BY <1>1, <1>5, <1>6, SectionsGather
<1>8. QED
  BY <1>7 DEF DecodeDeltaSections, decoded

(* What the encoder has written decodes. *)
LEMMA EncodedDecodes ==
  ASSUME NEW s, ValidSchema(s), Indexed(s), NEW lim, lim.fields \in Nat,
         NEW encoding \in Encodings, encoding = "Masked" \/ AscendingIds(s),
         NEW baseline_tick, NEW base, IsEntities(base.entities), SortedById(base.entities),
         NEW current, IsEntities(current.entities), SortedById(current.entities),
         NEW packet, packet = EncodeDelta(s, lim, encoding, baseline_tick, base, current), packet.ok
  PROVE  /\ packet.val = DeltaRecord(s, current.tick, baseline_tick, packet.val.sections)
         /\ DecodeDeltaSections(s, lim, packet.val.sections).ok
<1> DEFINE bs == base.entities
           cs == current.entities
           destroyed == Destroyed(bs, cs)
           created == Created(bs, cs)
           pairs == Updated(s, bs, cs)
           diff == EncodeDiff(s, lim, encoding, destroyed, created, pairs)
<1>1. /\ diff.ok /\ packet.val = DeltaRecord(s, current.tick, baseline_tick, diff.val)
      /\ DiffError(s, lim, bs, cs) = None
  BY EncodedDelta
<1>2. packet.val.sections = diff.val
  BY <1>1 DEF DeltaRecord
<1>3. IsEntities(created) /\ SortedById(created) /\ DOMAIN created \subseteq Nat
  <2>1. IsEntities(bs) /\ IsEntities(cs) /\ SortedById(cs)
    OBVIOUS
  <2>2. IsEntities(created) /\ SortedById(created)
    BY ONLY <2>1, CreatedIs
  <2>3. QED
    BY <2>2 DEF IsEntities
<1>4. encoding \in Encodings \cup {"Auto"}
  OBVIOUS
<1> HIDE DEF destroyed, created, pairs
<1>5. /\ ~(Len(created) > lim.create) /\ ~(Len(pairs) > lim.update) /\ ~(Len(destroyed) > lim.destroy)
      /\ destroyed # <<>> => ~(Len(destroyed) > lim.section)
      /\ created # <<>> => /\ ~(Len(Body(s, created)) > lim.section)
                           /\ \A i \in DOMAIN created : ComponentsError(s, lim, created[i]) = None
  BY ONLY <1>1, <1>3, <1>4, DiffIs
<1>6. PICK tag \in UpdateTags :
        /\ encoding = "Masked" => tag = "Update"
        /\ pairs # <<>> => /\ UpdateBody(s, lim, tag, pairs).ok
                           /\ ~(Len(UpdateBody(s, lim, tag, pairs).val) > lim.section)
        /\ diff.val = Joined(OneFor(destroyed, "Destroy", destroyed),
                             OneFor(created, "Create", Body(s, created)),
                             OneFor(pairs, tag, UpdateBody(s, lim, tag, pairs).val))
  <2>1. \E tag \in UpdateTags : IsDiff(s, lim, encoding, destroyed, created, pairs, tag, diff.val)
    BY ONLY <1>1, <1>3, <1>4, DiffIs
  <2>2. QED
    BY ONLY <2>1 DEF IsDiff
<1> HIDE DEF diff
<1>7. destroyed # <<>> => DecodeDestroySection(lim, destroyed).ok
  <2> DEFINE gone == Ids(bs) \ Ids(cs)
  <2>1. IsFiniteSet(gone) /\ gone \subseteq Int
    <3>1. IsFiniteSet(Ids(bs)) /\ Ids(bs) \subseteq Nat /\ gone \subseteq Ids(bs)
      BY IdsAreFinite
    <3> HIDE DEF gone
    <3>2. gone \subseteq Int
      BY <3>1
    <3>3. QED
      BY <3>1, <3>2, FS_Subset
  <2>2. destroyed = Listed(gone)
    BY DEF destroyed, Destroyed
  <2> HIDE DEF gone
  <2>3. QED
    BY <1>5, <2>1, <2>2, DestroysDecode
<1>8. created # <<>> => DecodeDeltaCreateSection(s, lim, Body(s, created)).ok
  BY <1>3, <1>5, CreatesDecode
<1>9. ASSUME pairs # <<>>
      PROVE  DecodeSection(s, lim, Section(tag, UpdateBody(s, lim, tag, pairs).val)).ok
  <2> DEFINE body == UpdateBody(s, lim, tag, pairs)
  <2>1. /\ body = UpdateBody(s, lim, tag, Updated(s, bs, cs)) /\ body.ok
        /\ ~(Len(body.val) > lim.section) /\ ~(Len(Updated(s, bs, cs)) > lim.update)
    BY <1>5, <1>6, <1>9 DEF pairs
  <2>2. tag = "Update" \/ AscendingIds(s)
    BY <1>6
  <2>3. /\ ValidSchema(s) /\ Indexed(s) /\ lim.fields \in Nat
        /\ IsEntities(bs) /\ SortedById(bs) /\ IsEntities(cs) /\ SortedById(cs)
    OBVIOUS
  <2> HIDE DEF body, bs, cs
  <2>4. DecodeSection(s, lim, Section(tag, body.val)).ok
    BY ONLY <1>1, <2>1, <2>2, <2>3, tag \in UpdateTags, UpdateDecodes
  <2>5. QED
    BY <2>4 DEF body
<1>10. DecodeDeltaSections(s, lim, diff.val).ok
  BY <1>6, <1>7, <1>8, <1>9, DeltaSectionsDecode
<1>11. QED
  BY <1>1, <1>2, <1>10

-----------------------------------------------------------------------------
(* What was said can be applied. *)

(* A list without duplicates is as long as it has ids. *)
LEMMA LengthIs ==
  ASSUME NEW es, IsEntities(es), SortedById(es)
  PROVE  Len(es) = Cardinality(Ids(es))
<1> DEFINE f == [i \in DOMAIN es |-> es[i].id]
<1>1. DOMAIN es = 1 .. Len(es) /\ Len(es) \in Nat /\ \A i \in DOMAIN es : es[i].id \in Nat
  BY DEF IsEntities
<1>2. f \in [DOMAIN es -> Ids(es)] /\ \A i \in DOMAIN es : f[i] = es[i].id
  BY DEF Ids
<1>3. \A i, j \in DOMAIN es : f[i] = f[j] => i = j
  <2> SUFFICES ASSUME NEW i \in DOMAIN es, NEW j \in DOMAIN es, es[i].id = es[j].id
               PROVE  i = j
    OBVIOUS
  <2>1. i \in Int /\ j \in Int /\ es[i].id \in Nat /\ es[j].id \in Nat
    BY <1>1
  <2>2. ~(i < j) /\ ~(j < i)
    BY <2>1 DEF SortedById
  <2>3. QED
    BY <2>1, <2>2
<1>4. \A id \in Ids(es) : \E i \in DOMAIN es : f[i] = id
  BY DEF Ids
<1> HIDE DEF f
<1>5. f \in Bijection(DOMAIN es, Ids(es))
  BY <1>2, <1>3, <1>4, Fun_IsBij
<1>6. IsFiniteSet(DOMAIN es) /\ Cardinality(DOMAIN es) = Len(es)
  BY <1>1, FS_Interval
<1>7. ExistsBijection(DOMAIN es, Ids(es))
  BY <1>5 DEF ExistsBijection
<1>8. QED
  BY <1>6, <1>7, FS_Bijection

(* The components and fields of a change are those of the entity that the  *)
(* receiver has.                                                           *)
LEMMA ChangeFits ==
  ASSUME NEW s, ValidSchema(s), NEW e, Fits(s, e), NEW f, NEW n, NEW r, Near(s, r, e, n),
         NEW all, f.id \in Ids(all), EntityOf(all, f.id) = r
  PROVE  UpdateError(all, Regrouped(f.id, Entries(s, e, f))) = None
<1> DEFINE entries == Entries(s, e, f)
           update == Regrouped(f.id, entries)
           ErrorOf(u) == IF u.id \notin DOMAIN r.components THEN "ComponentNotFound"
                         ELSE IF \E m \in DOMAIN u.fields : u.fields[m][1] \notin DOMAIN r.components[u.id]
                         THEN "InvalidMask" ELSE None
           errors == [j \in DOMAIN update.components |-> ErrorOf(update.components[j])]
<1>1. /\ update.id = f.id
      /\ DOMAIN update.components = DOMAIN entries
      /\ \A j \in DOMAIN entries : update.components[j] =
           [id |-> entries[j].component, fields |-> entries[j].fields]
  BY DEF Regrouped
<1>2. DOMAIN entries = 1 .. Len(entries) /\ Len(entries) \in Nat
  BY EntriesAre DEF IsList
<1>3. UpdateError(all, update) = FirstError(errors)
  BY <1>1 DEF UpdateError
<1> HIDE DEF update
<1>4. ASSUME NEW j \in DOMAIN entries
      PROVE  errors[j] = None
  <2>1. PICK k : k \in ChangedPlaces(s, e, f) /\ entries[j] = EntryOf(s[k], e, f)
    <3>1. j \in 1 .. Len(Entries(s, e, f))
      BY <1>2
    <3>2. QED
      BY <3>1, EntryAt
  <2> DEFINE changed == ChangedFields(s[k], e.components[s[k].id], f.components[s[k].id])
             order == Listed(changed)
             u == update.components[j]
  <2> HIDE DEF ErrorOf, errors, entries
  <2>2. k \in DOMAIN s /\ s[k].id \in DOMAIN e.components
    BY <2>1 DEF ChangedPlaces, Shared, Both
  <2>3. u.id = s[k].id /\ u.fields = EntryOf(s[k], e, f).fields
    <3>1. u = [id |-> entries[j].component, fields |-> entries[j].fields]
      BY <1>1
    <3>2. EntryOf(s[k], e, f).component = s[k].id
      BY DEF EntryOf
    <3> HIDE DEF u
    <3>3. QED
      BY <2>1, <3>1, <3>2
  <2>4. changed \subseteq DOMAIN s[k].fields /\ IsFiniteSet(changed) /\ changed \subseteq Int
    BY <2>2, ChangedFieldsAre
  <2>5. /\ DOMAIN u.fields = DOMAIN order
        /\ \A m \in DOMAIN order : u.fields[m][1] = order[m]
    <3> DEFINE fields == EntryOf(s[k], e, f).fields
    <3>1. fields = [m \in DOMAIN order |-> <<order[m], f.components[s[k].id][order[m]]>>]
      BY DEF EntryOf
    <3> HIDE DEF order, u
    <3>2. DOMAIN fields = DOMAIN order /\ \A m \in DOMAIN order : fields[m][1] = order[m]
      BY <3>1
    <3>3. QED
      BY <2>3, <3>2
  <2> HIDE DEF changed, u
  <2>6. \A m \in DOMAIN order : order[m] \in changed
    BY <2>4, ListedIs
  <2> HIDE DEF order
  <2>7. DOMAIN r.components[s[k].id] = DOMAIN s[k].fields /\ s[k].id \in DOMAIN r.components
    <3>1. DOMAIN r.components[s[k].id] = DOMAIN Values[s[k].id] /\ s[k].id \in DOMAIN r.components
      BY <2>2 DEF Near
    <3>2. DOMAIN Values[s[k].id] = DOMAIN ComponentOf(s, s[k].id).fields
      BY <2>2 DEF Fits
    <3>3. ComponentOf(s, s[k].id) = s[k]
      BY <2>2, ComponentOfIs
    <3>4. QED
      BY <3>1, <3>2, <3>3
  <2>8. \A m \in DOMAIN u.fields : u.fields[m][1] \in DOMAIN r.components[u.id]
    BY <2>3, <2>4, <2>5, <2>6, <2>7
  <2>9. ErrorOf(u) = None
    BY <2>3, <2>7, <2>8 DEF ErrorOf
  <2>10. QED
    BY <1>1, <2>9 DEF u, errors
<1>5. DOMAIN errors = DOMAIN entries
  BY <1>1
<1> HIDE DEF errors
<1>6. FirstError(errors) = None
  BY <1>2, <1>4, <1>5, FirstErrorIs
<1>7. QED
  BY <1>3, <1>6 DEF update

(* A receiver that is near the baseline can apply the changes to it, as    *)
(* long as it has room for the entities.                                   *)
LEMMA SaidApplies ==
  ASSUME NEW s, ValidSchema(s), NEW lim, NEW n, NEW es, NEW bs, Copied(s, es, bs, n),
         NEW cs, IsEntities(cs), SortedById(cs),
         ~(Cardinality(Ids(cs)) > lim.total),
         NEW delta, SaysDelta(s, lim, bs, cs, delta)
  PROVE  ApplyDecoded(lim, es, delta).ok
<1> DEFINE destroys == delta.destroys
           creates == delta.creates
           updates == delta.updates
           kept == ApplyDestroys(es, destroys)
           all == ApplyCreates(kept.val, creates)
           applied == ApplyUpdates(all.val, updates)
           pairs == Updated(s, bs, cs)
<1>1. /\ IsEntities(es) /\ SortedById(es) /\ IsEntities(bs) /\ SortedById(bs)
      /\ Ids(es) = Ids(bs)
  BY DEF Copied
<1>2. /\ IsEntities(creates) /\ SortedById(creates)
      /\ Ids(creates) = Ids(cs) \ Ids(bs)
  BY <1>1, CreatedIs DEF SaysDelta
<1>3. Range(destroys) = Ids(bs) \ Ids(cs)
  BY <1>1, DestroyedIs DEF SaysDelta
<1>4. updates = [i \in DOMAIN pairs |-> Change(s, pairs[i])]
  BY DEF SaysDelta, Changes
<1> HIDE DEF destroys, creates, updates, pairs
<1>5. kept.ok
  <2> DEFINE places == {i \in DOMAIN es : \A m \in DOMAIN destroys : destroys[m] # es[i].id}
  <2>1. ~(\E m \in DOMAIN destroys : destroys[m] \notin Ids(es))
    BY <1>1, <1>3 DEF Range
  <2>2. kept = Checked(None, ElementsAt(es, places))
    BY <2>1 DEF ApplyDestroys
  <2> HIDE DEF kept, places
  <2>3. QED
    BY <2>2, NoError
<1>6. /\ IsEntities(kept.val) /\ Range(kept.val) \subseteq Range(es)
      /\ Ids(kept.val) = Ids(bs) \cap Ids(cs)
  <2> DEFINE places == {i \in DOMAIN es : \A m \in DOMAIN destroys : destroys[m] # es[i].id}
  <2>1. IsEntities(kept.val) /\ Range(kept.val) = {es[i] : i \in places}
    BY <1>1, <1>5, DestroysApplied
  <2> HIDE DEF kept
  <2>2. Ids(kept.val) = {e.id : e \in {es[i] : i \in places}}
    BY <2>1, IdsAreFinite
  <2>3. {e.id : e \in {es[i] : i \in places}} = Ids(es) \ Range(destroys)
    BY DEF Ids, Range
  <2>4. Range(kept.val) \subseteq Range(es)
    BY <2>1 DEF Range
  <2>5. QED
    BY <1>1, <1>3, <2>1, <2>2, <2>3, <2>4
<1> HIDE DEF kept
<1>7. all.ok
  <2>1. Ids(kept.val) \cap Ids(creates) = {}
    BY <1>2, <1>6
  <2>2. all = Checked(None, InOrder(Range(kept.val) \cup Range(creates)))
    BY <2>1 DEF ApplyCreates
  <2> HIDE DEF all
  <2>3. QED
    BY <2>2, NoError
<1>8. /\ IsEntities(all.val) /\ SortedById(all.val) /\ Ids(all.val) = Ids(cs)
      /\ \A m \in DOMAIN all.val : all.val[m] \in Range(kept.val) \cup Range(creates)
  <2>1. /\ IsEntities(all.val) /\ SortedById(all.val)
        /\ Ids(all.val) = Ids(kept.val) \cup Ids(creates)
        /\ \A m \in DOMAIN all.val : all.val[m] \in Range(kept.val) \cup Range(creates)
    BY <1>2, <1>6, <1>7, CreatesApplied
  <2> HIDE DEF all
  <2>2. QED
    BY <1>2, <1>6, <2>1
<1> HIDE DEF all
<1>9. ~(Len(all.val) > lim.total)
  BY <1>8, LengthIs
<1>10. \A id \in Common(bs, cs) : EntityOf(all.val, id) = EntityOf(es, id)
  <2> TAKE id \in Common(bs, cs)
  <2>1. id \in Ids(all.val) /\ id \notin Ids(creates)
    BY <1>2, <1>8 DEF Common
  <2>2. EntityOf(all.val, id) \in Range(all.val) /\ EntityOf(all.val, id).id = id
    BY <1>8, <2>1, EntityOfIs
  <2>3. EntityOf(all.val, id) \in Range(kept.val) \cup Range(creates)
    BY <1>8, <2>2 DEF Range
  <2>4. EntityOf(all.val, id) \notin Range(creates)
    BY <1>2, <2>1, <2>2, IdsAreFinite
  <2>5. EntityOf(all.val, id) \in Range(es)
    BY <1>6, <2>3, <2>4
  <2>6. QED
    BY <1>1, <2>2, <2>5, EntityOfIs
<1>11. ASSUME NEW i \in DOMAIN pairs
       PROVE  UpdateError(all.val, updates[i]) = None
  <2>1. PICK id \in Common(bs, cs) : /\ pairs[i].base = EntityOf(bs, id)
                                     /\ pairs[i].curr = EntityOf(cs, id)
    BY <1>1, UpdatedAre DEF pairs
  <2> DEFINE e == EntityOf(bs, id)
             f == EntityOf(cs, id)
             r == EntityOf(es, id)
  <2>2. Fits(s, e) /\ Near(s, r, e, n) /\ f.id = id
    BY <2>1, EntityOfIs DEF Copied, Common
  <2>3. id \in Ids(all.val) /\ EntityOf(all.val, id) = r
    BY <1>8, <1>10 DEF Common
  <2>4. updates[i] = Regrouped(f.id, Entries(s, e, f))
    BY <1>4, <2>1 DEF Change
  <2> HIDE DEF e, f, r
  <2>5. UpdateError(all.val, Regrouped(f.id, Entries(s, e, f))) = None
    BY ONLY ValidSchema(s), <2>2, <2>3, ChangeFits
  <2>6. QED
    BY <2>4, <2>5
<1>12. applied.ok
  <2> DEFINE errors == [m \in DOMAIN updates |-> UpdateError(all.val, updates[m])]
             written == [i \in DOMAIN all.val |->
                           LET mine == {m \in DOMAIN updates : updates[m].id = all.val[i].id} IN
                           IF mine = {} THEN all.val[i] ELSE UpdatedEntity(all.val[i], updates[Min(mine)])]
  <2>1. applied = Checked(FirstError(errors), written)
    BY DEF ApplyUpdates
  <2>2. DOMAIN errors = DOMAIN pairs /\ \A m \in DOMAIN pairs : errors[m] = None
    BY <1>4, <1>11
  <2>3. DOMAIN pairs \subseteq Nat
    BY <1>1, UpdatedCovers DEF InTurn, IsList, pairs
  <2> HIDE DEF errors, written, applied
  <2>4. FirstError(errors) = None
    BY <2>2, <2>3, FirstErrorIs
  <2>5. QED
    BY <2>1, <2>4, NoError
<1> DEFINE error == Then(EntitiesSortedError(es), EntitiesSortedError(creates))
<1>13. ApplyDecoded(lim, es, delta) =
         IF error = None
         THEN IF kept.ok
              THEN IF all.ok
                   THEN IF Len(all.val) > lim.total THEN Err("LimitsExceeded") ELSE applied
                   ELSE all
              ELSE kept
         ELSE Err(error)
  BY DEF ApplyDecoded, AndThen, Checked, Ok, Err, destroys, creates, updates, kept, all
<1>14. error = None
  <2>1. EntitiesSortedError(es) = None /\ EntitiesSortedError(creates) = None
    BY <1>1, <1>2, SortedErrorIs
  <2>2. QED
    BY <2>1 DEF Then
<1> HIDE DEF error, applied
<1>15. QED
  BY <1>5, <1>7, <1>9, <1>12, <1>13, <1>14

(* The header of a delta is what the receiver expects. *)
LEMMA DeltaApplies ==
  ASSUME NEW s, NEW lim, NEW had, NEW packet,
         packet = DeltaRecord(s, packet.tick, had.tick, packet.sections), had.tick # 0,
         DecodeDeltaSections(s, lim, packet.sections).ok,
         ApplyDecoded(lim, had.entities, DecodeDeltaSections(s, lim, packet.sections).val).ok
  PROVE  ApplyDelta(s, lim, had, packet).ok
<1> DEFINE said == DecodeDeltaSections(s, lim, packet.sections)
           applied == ApplyDecoded(lim, had.entities, said.val)
           error == Then(DeltaHeaderError(packet),
                    Then(IF packet.baseline_tick # had.tick THEN "BaselineTickMismatch" ELSE None,
                         SchemaMismatch(s, packet)))
<1>1. ApplyDelta(s, lim, had, packet) =
        IF error = None
        THEN IF said.ok
             THEN IF applied.ok THEN Ok([tick |-> packet.tick, entities |-> applied.val])
                  ELSE applied
             ELSE said
        ELSE Err(error)
  BY DEF ApplyDelta, AndThen, Checked, Ok, Err
<1>2. packet.flags = "delta" /\ packet.schema_hash = s /\ packet.baseline_tick = had.tick
  BY DEF DeltaRecord
<1>3. error = None
  BY <1>2 DEF Then, DeltaHeaderError, SchemaMismatch
<1>4. said.ok /\ applied.ok
  OBVIOUS
<1> HIDE DEF error, said, applied
<1>5. ApplyDelta(s, lim, had, packet) = Ok([tick |-> packet.tick, entities |-> applied.val])
  BY <1>1, <1>3, <1>4
<1>6. QED
  BY <1>5 DEF Ok

LEMMA FollowIsEncodedIsDecodable ==
  ASSUME Typed, Follow
  PROVE  EncodedIsDecodable
<1>1. /\ ValidSchema(schema) /\ Indexed(schema)
      /\ Copied(schema, replica.entities, sent.entities, age)
      /\ IsEntities(sent.entities) /\ SortedById(sent.entities)
      /\ IsEntities(Current.entities) /\ SortedById(Current.entities)
      /\ replica.tick = sent.tick
  BY SchemaIsValid, CurrentIsTaken DEF Follow, Copied, Taken
<1>2. limits.fields \in Nat
  BY StreamAssumption DEF Typed
<1>3. Ids(Current.entities) = DOMAIN world
  BY CurrentIs DEF Typed
<1>4. Ascending => AscendingIds(schema)
  <2> SUFFICES ASSUME Ascending
               PROVE  AscendingIds(schema)
    OBVIOUS
  <2> DEFINE id == [k \in DOMAIN schema |-> schema[k].id]
  <2>1. /\ DOMAIN schema = 1 .. Len(schema) /\ Len(schema) \in Nat
        /\ \A k \in DOMAIN schema : schema[k].id \in Nat
    <3>1. schema \in Seq([id : Nat, fields : Seq([max : Nat, threshold : Nat])])
      BY <1>1 DEF ValidSchema
    <3>2. DOMAIN schema = 1 .. Len(schema) /\ Len(schema) \in Nat
      BY <3>1
    <3>3. \A k \in DOMAIN schema : schema[k].id \in Nat
      BY <1>1, ComponentOfIs
    <3>4. QED
      BY <3>2, <3>3
  <2>2. \A k \in 1 .. Len(schema) : id[k] = schema[k].id /\ id[k] \in Int
    BY <2>1
  <2>3. ASSUME NEW k \in 1 .. Len(schema), k > 1
        PROVE  id[k - 1] < id[k]
    <3>1. k \in DOMAIN schema \ {1} /\ k - 1 \in 1 .. Len(schema)
      BY <2>1, <2>3
    <3> HIDE DEF id
    <3>2. QED
      BY <2>2, <3>1 DEF Ascending
  <2> HIDE DEF id
  <2>4. \A j, k \in 1 .. Len(schema) : j < k => id[j] < id[k]
    BY <2>1, <2>2, <2>3, StepwiseAscending
  <2>5. QED
    BY <2>1, <2>2, <2>4 DEF AscendingIds
<1> SUFFICES ASSUME sent.tick > 0, NEW encoding \in Encodings,
                    NEW packet, packet = EncodeDelta(schema, limits, encoding, sent.tick, sent, Current),
                    packet.ok,
                    Ascending \/ encoding = "Masked",
                    ~(Cardinality(DOMAIN world) > limits.total)
             PROVE  ApplyDelta(schema, limits, replica, packet.val).ok
  BY DEF EncodedIsDecodable, Encodings
<1>5. /\ packet.val = DeltaRecord(schema, Current.tick, sent.tick, packet.val.sections)
      /\ DecodeDeltaSections(schema, limits, packet.val.sections).ok
  <2>1. encoding = "Masked" \/ AscendingIds(schema)
    BY <1>4
  <2>2. packet = EncodeDelta(schema, limits, encoding, sent.tick, sent, Current) /\ packet.ok
    OBVIOUS
  <2>3. QED
    BY ONLY <1>1, <1>2, <2>1, <2>2, encoding \in Encodings, EncodedDecodes
<1>6. SaysDelta(schema, limits, sent.entities, Current.entities,
                DecodeDeltaSections(schema, limits, packet.val.sections).val)
  <2>1. encoding \in Encodings \cup {"Auto"} /\ packet.ok
        /\ packet = EncodeDelta(schema, limits, encoding, sent.tick, sent, Current)
    OBVIOUS
  <2>2. QED
    BY ONLY <1>1, <1>5, <2>1, DeltaSays
<1>7. ApplyDecoded(limits, replica.entities,
                   DecodeDeltaSections(schema, limits, packet.val.sections).val).ok
  <2>1. ~(Cardinality(Ids(Current.entities)) > limits.total)
    BY <1>3
  <2>2. QED
    BY ONLY <1>1, <1>6, <2>1, SaidApplies
<1>8. packet.val = DeltaRecord(schema, packet.val.tick, replica.tick, packet.val.sections)
      /\ replica.tick # 0
  <2>1. packet.val.tick = Current.tick
    BY <1>5 DEF DeltaRecord
  <2>2. sent.tick \in Nat
    BY StreamAssumption DEF Typed
  <2>3. QED
    BY <1>1, <1>5, <2>1, <2>2
<1>9. QED
  BY <1>5, <1>7, <1>8, DeltaApplies

(* A delta that the sender encodes, in any of the encodings and for any    *)
(* schema, limits and values, is accepted and applied by the receiver:     *)
(* every check of the decoders (delta.rs, decode_delta_sections) and of    *)
(* apply_delta_snapshot_from_packet passes, but for the order of the       *)
(* components in the sparse encodings, which holds if the schema lists     *)
(* them by ascending id, and the limit on the entities after applying.     *)
THEOREM EncodedIsDecodableCorrect == Spec => []EncodedIsDecodable
<1>1. Init => Follow
  BY InitiallyFollows
<1>2. Typed /\ Follow /\ [Next]_vars => Follow'
  BY StaysFollowing
<1>3. Typed /\ Follow => EncodedIsDecodable
  BY FollowIsEncodedIsDecodable
<1>4. QED
  BY <1>1, <1>2, <1>3, TypedAlways, PTL DEF Spec
=============================================================================
