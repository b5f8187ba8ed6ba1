------------------------ MODULE SnapshotStream_proofs ------------------------
(***************************************************************************)
(* The types of the snapshot stream, and that a full snapshot decodes to   *)
(* the world it was taken of.                                              *)
(***************************************************************************)
EXTENDS SnapshotStream, NaturalsOrder, FunctionTheorems

-----------------------------------------------------------------------------
(* Numbers in order. *)

UpTo(S, x) == {y \in S : y <= x}

(* The number of elements up to x counts x in and those above it out.      *)
LEMMA RankGrows ==
  ASSUME NEW S, IsFiniteSet(S), S \subseteq Int, NEW x \in S
  PROVE  /\ Cardinality(UpTo(S, x)) \in 1 .. Cardinality(S)
         /\ \A y \in S : x < y => Cardinality(UpTo(S, x)) < Cardinality(UpTo(S, y))
<1>1. \A y \in S : IsFiniteSet(UpTo(S, y)) /\ Cardinality(UpTo(S, y)) \in Nat
  <2>1. \A y \in S : UpTo(S, y) \in SUBSET S
    BY DEF UpTo
  <2>2. \A y \in S : IsFiniteSet(UpTo(S, y))
    BY <2>1, FS_Subset
  <2>3. QED
    BY <2>2, FS_CardinalityType
<1>2. Cardinality(UpTo(S, x)) # 0
  <2>1. x \in UpTo(S, x)
    BY DEF UpTo
  <2>2. QED
    BY <2>1, <1>1, FS_EmptySet
<1>3. Cardinality(UpTo(S, x)) <= Cardinality(S) /\ Cardinality(S) \in Nat
  <2>1. UpTo(S, x) \in SUBSET S
    BY DEF UpTo
  <2>2. Cardinality(UpTo(S, x)) <= Cardinality(S)
    BY <2>1, FS_Subset
  <2>3. QED
    BY <2>2, FS_CardinalityType
<1>4. ASSUME NEW y \in S, x < y
      PROVE  Cardinality(UpTo(S, x)) < Cardinality(UpTo(S, y))
  <2>1. UpTo(S, x) \in SUBSET UpTo(S, y)
    <3>1. \A z \in S : z <= x => z <= y
      BY <1>4
    <3>2. QED
      BY <3>1 DEF UpTo
  <2>2. UpTo(S, x) # UpTo(S, y)
    <3>1. y \in UpTo(S, y) /\ y \notin UpTo(S, x)
      BY <1>4 DEF UpTo
    <3>2. QED
      BY <3>1
  <2>3. Cardinality(UpTo(S, x)) <= Cardinality(UpTo(S, y))
    BY <1>1, <2>1, FS_Subset
  <2>4. Cardinality(UpTo(S, x)) # Cardinality(UpTo(S, y))
    BY <1>1, <2>1, <2>2, FS_Subset
  <2>5. QED
    BY <1>1, <2>3, <2>4
<1>5. QED
  BY <1>1, <1>2, <1>3, <1>4

(* Listed gives every number once, in ascending order: the place of x is   *)
(* how many there are up to x.                                             *)
LEMMA ListedIs ==
  ASSUME NEW S, IsFiniteSet(S), S \subseteq Int
  PROVE  /\ Cardinality(S) \in Nat
         /\ DOMAIN Listed(S) = 1 .. Cardinality(S)
         /\ \A n \in DOMAIN Listed(S) : Listed(S)[n] \in S
         /\ \A x \in S : /\ Cardinality(UpTo(S, x)) \in DOMAIN Listed(S)
                         /\ Listed(S)[Cardinality(UpTo(S, x))] = x
         /\ \A m, n \in DOMAIN Listed(S) : m < n => Listed(S)[m] < Listed(S)[n]
<1> DEFINE N == Cardinality(S)
           place(x) == Cardinality(UpTo(S, x))
           f == [x \in S |-> place(x)]
<1>1. N \in Nat
  BY FS_CardinalityType
<1>2. DOMAIN Listed(S) = 1 .. N
  BY DEF Listed
<1>3. \A x, y \in S : x < y => place(x) < place(y)
  BY RankGrows
<1>4. \A x \in S : place(x) \in 1 .. N
  BY RankGrows
<1>5. f \in [S -> 1 .. N]
  BY <1>4
<1>6. ASSUME NEW x \in S, NEW y \in S, place(x) = place(y)
      PROVE  x = y
  <2>1. place(x) \in Int /\ place(y) \in Int
    BY <1>4, <1>1
  <2>2. ~(x < y) /\ ~(y < x)
    BY <2>1, <1>3, <1>6
  <2>3. QED
    BY <2>2
<1>7. f \in Injection(S, 1 .. N)
  <2>1. \A x, y \in S : f[x] = f[y] => x = y
    BY <1>6
  <2> HIDE DEF f, place
  <2>2. QED
    BY <2>1, <1>5, Fun_IsInj
<1>8. f \in Surjection(S, 1 .. N)
  <2>1. IsFiniteSet(1 .. N) /\ Cardinality(1 .. N) = N
    BY <1>1, FS_Interval
  <2> HIDE DEF f, place
  <2>2. QED
    BY <2>1, <1>7, FS_Injection
<1>9. \A n \in 1 .. N : \E x \in S : place(x) = n
  <2>1. \A n \in 1 .. N : \E x \in S : f[x] = n
    <3> HIDE DEF f, place
    <3>1. QED
      BY <1>8, Fun_IsSurj DEF Surjection
  <2>2. QED
    BY <2>1
<1>10. \A n \in 1 .. N : Listed(S)[n] \in S /\ place(Listed(S)[n]) = n
  <2> TAKE n \in 1 .. N
  <2>1. Listed(S)[n] = CHOOSE x \in S : place(x) = n
    BY DEF Listed, UpTo
  <2>2. \E x \in S : place(x) = n
    BY <1>9
  <2> HIDE DEF place
  <2>3. QED
    BY <2>1, <2>2
<1>11. \A x \in S : Listed(S)[place(x)] = x
  <2> TAKE x \in S
  <2>1. Listed(S)[place(x)] \in S /\ place(Listed(S)[place(x)]) = place(x)
    BY <1>4, <1>10
  <2> HIDE DEF place
  <2>2. QED
    BY <2>1, <1>6
<1>12. ASSUME NEW m \in 1 .. N, NEW n \in 1 .. N, m < n
       PROVE  Listed(S)[m] < Listed(S)[n]
  <2>1. ~(Listed(S)[m] = Listed(S)[n]) /\ ~(Listed(S)[n] < Listed(S)[m])
    <3> DEFINE x == Listed(S)[m]
               y == Listed(S)[n]
    <3>1. x \in S /\ y \in S /\ place(x) = m /\ place(y) = n
      BY <1>10
    <3>2. ~(y < x)
      <4>1. y < x => place(y) < place(x)
        BY <3>1, <1>3
      <4> HIDE DEF place, x, y
      <4>2. QED
        BY <4>1, <3>1, <1>12
    <3>3. x # y
      <4> HIDE DEF x, y
      <4>1. QED
        BY <3>1, <1>12
    <3>4. QED
      BY <3>2, <3>3
  <2>2. Listed(S)[m] \in Int /\ Listed(S)[n] \in Int
    BY <1>10
  <2>3. QED
    BY <2>1, <2>2
<1>13. QED
  BY <1>1, <1>2, <1>4, <1>10, <1>11, <1>12

-----------------------------------------------------------------------------
(* Results. *)

(* A loop that stops at the first error finds none when there is none.     *)
LEMMA FirstErrorIs ==
  ASSUME NEW errors, DOMAIN errors \subseteq Nat
  PROVE  (FirstError(errors) = None) <=> (\A i \in DOMAIN errors : errors[i] = None)
<1> DEFINE bad == {i \in DOMAIN errors : errors[i] # None}
<1>1. CASE bad = {}
  BY <1>1 DEF FirstError
<1>2. CASE bad # {}
  <2>1. \E m \in bad : \A n \in bad : m <= n
    BY <1>2, LeastNatural
  <2>2. Min(bad) \in bad
    BY <2>1 DEF Min
  <2>3. FirstError(errors) = errors[Min(bad)]
    BY <1>2 DEF FirstError
  <2>4. QED
    BY <2>2, <2>3
<1>3. QED
  BY <1>1, <1>2

(* The rank of a marked place is where Listed has it. *)
LEMMA MarkedIs ==
  ASSUME NEW mask, IsFiniteSet(DOMAIN mask), DOMAIN mask \subseteq Nat
  PROVE  /\ IsFiniteSet(Marked(mask)) /\ Marked(mask) \subseteq Nat
         /\ \A k \in Marked(mask) :
              /\ Rank(mask, k) \in DOMAIN Listed(Marked(mask))
              /\ Listed(Marked(mask))[Rank(mask, k)] = k
<1>1. Marked(mask) \in SUBSET DOMAIN mask
  BY DEF Marked
<1>2. IsFiniteSet(Marked(mask))
  BY <1>1, FS_Subset
<1>3. Marked(mask) \subseteq Int
  BY <1>1
<1>4. \A k \in Marked(mask) : Rank(mask, k) = Cardinality(UpTo(Marked(mask), k))
  BY DEF Rank, UpTo
<1>5. QED
  BY <1>1, <1>2, <1>3, <1>4, ListedIs

-----------------------------------------------------------------------------
(* The full snapshot. *)

ValidSchema(s) ==
  /\ s \in Seq([id : Nat, fields : Seq([max : Nat, threshold : Nat])])
  /\ \A j, k \in DOMAIN s : s[j].id = s[k].id => j = k

IsEntity(e) ==
  /\ e = [id |-> e.id, components |-> e.components]
  /\ e.components = [c \in DOMAIN e.components |-> e.components[c]]

(* What is written for an entity whose components are all of the schema    *)
(* reads back as the entity.                                               *)
LEMMA EntityReadsBack ==
  ASSUME NEW s, ValidSchema(s), NEW e, IsEntity(e), DOMAIN e.components \subseteq ComponentIds(s)
  PROVE  /\ ReadEntity(s, WireEntity(s, e)) = e
         /\ \A k \in Marked(ComponentMask(s, e)) :
              WireEntity(s, e).components[Rank(ComponentMask(s, e), k)] =
                [mask |-> [i \in DOMAIN e.components[s[k].id] |-> TRUE],
                 values |-> e.components[s[k].id]]
<1> DEFINE mask == ComponentMask(s, e)
           w == WireEntity(s, e)
<1>1. w.id = e.id /\ w.mask = mask
  BY DEF WireEntity
<1>2. DOMAIN mask = DOMAIN s /\ DOMAIN s \subseteq Nat /\ IsFiniteSet(DOMAIN s)
  <2>1. DOMAIN s = 1 .. Len(s) /\ Len(s) \in Nat
    BY DEF ValidSchema
  <2>2. IsFiniteSet(1 .. Len(s))
    BY <2>1, FS_Interval
  <2>3. QED
    BY <2>1, <2>2 DEF ComponentMask
<1>3. \A k \in Marked(mask) :
        w.components[Rank(mask, k)] =
          [mask |-> [i \in DOMAIN e.components[s[k].id] |-> TRUE],
           values |-> e.components[s[k].id]]
  <2> TAKE k \in Marked(mask)
  <2> DEFINE present == Listed(Marked(mask))
  <2>1. Rank(mask, k) \in DOMAIN present /\ present[Rank(mask, k)] = k
    BY <1>2, MarkedIs
  <2>2. w.components = [n \in DOMAIN present |->
           [mask |-> [i \in DOMAIN e.components[s[present[n]].id] |-> TRUE],
            values |-> e.components[s[present[n]].id]]]
    BY DEF WireEntity
  <2> HIDE DEF present, w, mask
  <2>3. QED
    BY <2>1, <2>2
<1>4. {s[k].id : k \in Marked(mask)} = DOMAIN e.components
  BY DEF Marked, ComponentMask, ComponentIds
<1>5. ASSUME NEW c \in DOMAIN e.components
      PROVE  LET k == CHOOSE k \in DOMAIN s : s[k].id = c IN
             k \in Marked(mask) /\ s[k].id = c
  <2>1. \E k \in DOMAIN s : s[k].id = c
    BY DEF ComponentIds
  <2>2. QED
    BY <2>1, <1>5 DEF Marked, ComponentMask
<1>6. ReadEntity(s, w).components = e.components
  <2>1. ReadEntity(s, w).components =
          [c \in DOMAIN e.components |->
             LET k == CHOOSE k \in DOMAIN s : s[k].id = c IN
             w.components[Rank(mask, k)].values]
    <3> HIDE DEF w, mask
    <3>1. QED
      BY <1>1, <1>4 DEF ReadEntity
  <2>2. ASSUME NEW c \in DOMAIN e.components
        PROVE  LET k == CHOOSE k \in DOMAIN s : s[k].id = c IN
               w.components[Rank(mask, k)].values = e.components[c]
    <3> DEFINE k == CHOOSE k \in DOMAIN s : s[k].id = c
    <3>1. k \in Marked(mask) /\ s[k].id = c
      BY <1>5
    <3> HIDE DEF k, w, mask
    <3>2. w.components[Rank(mask, k)] =
            [mask |-> [i \in DOMAIN e.components[s[k].id] |-> TRUE],
             values |-> e.components[s[k].id]]
      BY <3>1, <1>3
    <3>3. w.components[Rank(mask, k)].values = e.components[s[k].id]
      BY <3>2
    <3>4. w.components[Rank(mask, k)].values = e.components[c]
      BY <3>1, <3>3
    <3>5. QED
      BY <3>4 DEF k
  <2> HIDE DEF w, mask
  <2>3. QED
    BY <2>1, <2>2 DEF IsEntity
<1>7. ReadEntity(s, w) = [id |-> e.id, components |-> e.components]
  <2>1. ReadEntity(s, w) = [id |-> w.id, components |-> ReadEntity(s, w).components]
    BY DEF ReadEntity
  <2> HIDE DEF w
  <2>2. QED
    BY <2>1, <1>1, <1>6
<1>8. QED
  BY <1>3, <1>7 DEF IsEntity

Body(s, es) == [i \in DOMAIN es |-> WireEntity(s, es[i])]

FullPacket(s, tick, es) ==
  [flags |-> "full", schema_hash |-> s, tick |-> tick, baseline_tick |-> 0,
   sections |-> IF es = <<>> THEN <<>> ELSE << [tag |-> "Create", body |-> Body(s, es)] >>]

(* What the checks of the encoder have found, and what it has written. *)
LEMMA FullEncoded ==
  ASSUME NEW s, ValidSchema(s), NEW lim, NEW tick,
         NEW es, DOMAIN es = 1 .. Len(es), Len(es) \in Nat,
         EncodeFullSnapshot(s, lim, tick, es).ok
  PROVE  /\ ~(Len(es) > lim.create)
         /\ EncodeFullSnapshot(s, lim, tick, es).val = FullPacket(s, tick, es)
         /\ es # <<>> =>
              /\ ~(Len(Body(s, es)) > lim.section)
              /\ ~(Len(s) > lim.components)
              /\ \A i \in DOMAIN es :
                   /\ OrderError(es, i) = None
                   /\ ComponentsError(s, lim, es[i]) = None
<1> DEFINE body == [i \in DOMAIN es |-> WireEntity(s, es[i])]
           ErrorOf(i) == Then(OrderError(es, i),
                         Then(IF Cardinality(DOMAIN es[i].components) > lim.components
                              THEN "LimitsExceeded" ELSE None,
                              ComponentsError(s, lim, es[i])))
           errors == [i \in DOMAIN es |-> ErrorOf(i)]
           written == EncodeCreateBody(s, lim, es)
           section == WriteSection("Create", lim, written)
           packet(sections) == [flags |-> "full", schema_hash |-> s, tick |-> tick,
                                baseline_tick |-> 0, sections |-> sections]
<1>1. ~(Len(es) > lim.create)
  BY DEF EncodeFullSnapshot, AndThen, Err
<1>2. CASE es = <<>>
  BY <1>1, <1>2 DEF EncodeFullSnapshot, AndThen, Ok, FullPacket
<1>3. CASE es # <<>>
  <2>1. EncodeFullSnapshot(s, lim, tick, es) =
          IF section.ok THEN Ok(packet(section.val)) ELSE section
    BY <1>1, <1>3 DEF EncodeFullSnapshot, AndThen
  <2>2. section.ok /\ EncodeFullSnapshot(s, lim, tick, es).val = packet(section.val)
    <3> HIDE DEF section, packet
    <3>1. section.ok
      BY <2>1
    <3>2. QED
      BY <2>1, <3>1 DEF Ok
  <2>3. section =
          IF written.ok
          THEN Checked(IF Len(written.val) > lim.section THEN "LimitsExceeded" ELSE None,
                       << [tag |-> "Create", body |-> written.val] >>)
          ELSE written
    BY DEF WriteSection, AndThen
  <2>4. /\ written.ok
        /\ ~(Len(written.val) > lim.section)
        /\ section.val = << [tag |-> "Create", body |-> written.val] >>
    <3> HIDE DEF section, written
    <3>1. written.ok
      BY <2>2, <2>3
    <3>2. QED
      BY <3>1, <2>2, <2>3 DEF Checked, Ok, Err, None
  <2>5. written = Checked(IF Len(s) > lim.components THEN "LimitsExceeded" ELSE FirstError(errors),
                          body)
    BY DEF EncodeCreateBody
  <2>6. ~(Len(s) > lim.components) /\ FirstError(errors) = None /\ written.val = body
    <3> HIDE DEF written, errors, body
    <3>1. QED
      BY <2>4, <2>5 DEF Checked, Ok, Err, None
  <2>7. \A i \in DOMAIN es : ErrorOf(i) = None
    <3>1. DOMAIN errors = DOMAIN es /\ DOMAIN errors \subseteq Nat
      OBVIOUS
    <3>2. \A i \in DOMAIN errors : errors[i] = None
      <4> HIDE DEF errors
      <4>1. QED
        BY <2>6, <3>1, FirstErrorIs
    <3>3. QED
      BY <3>1, <3>2
  <2>8. \A i \in DOMAIN es : OrderError(es, i) = None /\ ComponentsError(s, lim, es[i]) = None
    BY <2>7 DEF Then, None
  <2> HIDE DEF written, section, errors, ErrorOf, body
  <2>9. section.val = << [tag |-> "Create", body |-> body] >> /\ ~(Len(body) > lim.section)
    BY <2>4, <2>6
  <2>10. EncodeFullSnapshot(s, lim, tick, es).val =
           packet(IF es = <<>> THEN <<>> ELSE << [tag |-> "Create", body |-> body] >>)
    BY <2>2, <2>9, <1>3
  <2>11. QED
    BY <1>1, <2>6, <2>8, <2>9, <2>10 DEF body, FullPacket, Body
<1>4. QED
  BY <1>2, <1>3

(* What the components of an entity are found to be. *)
LEMMA ComponentsAre ==
  ASSUME NEW s, ValidSchema(s), NEW lim, NEW e, ComponentsError(s, lim, e) = None
  PROVE  /\ DOMAIN e.components \subseteq ComponentIds(s)
         /\ \A k \in Marked(ComponentMask(s, e)) :
              ComponentFieldsError(s[k], lim, e.components[s[k].id]) = None
<1> DEFINE errors == [k \in Marked(ComponentMask(s, e)) |->
                        ComponentFieldsError(s[k], lim, e.components[s[k].id])]
<1>1. UnknownComponent(s, e) = None /\ FirstError(errors) = None
  BY DEF ComponentsError, Then
<1>2. DOMAIN errors \subseteq Nat
  BY DEF Marked, ComponentMask, ValidSchema
<1>3. \A k \in DOMAIN errors : errors[k] = None
  <2> HIDE DEF errors
  <2>1. QED
    BY <1>1, <1>2, FirstErrorIs
<1>4. QED
  BY <1>1, <1>3 DEF UnknownComponent, None

(* A component of an entity that the encoder has passed reads back without *)
(* an error.                                                               *)
LEMMA EntityDecodes ==
  ASSUME NEW s, ValidSchema(s), NEW lim, NEW e, IsEntity(e), ComponentsError(s, lim, e) = None
  PROVE  WireEntityError(s, lim, WireEntity(s, e)) = None
<1> DEFINE w == WireEntity(s, e)
           errors == [k \in Marked(w.mask) |->
                        FullComponentError(s[k], lim, w.components[Rank(w.mask, k)])]
<1>1. w.mask = ComponentMask(s, e)
  BY DEF WireEntity
<1>2. /\ DOMAIN e.components \subseteq ComponentIds(s)
      /\ \A k \in Marked(ComponentMask(s, e)) :
           ComponentFieldsError(s[k], lim, e.components[s[k].id]) = None
  BY ComponentsAre
<1>3. \A k \in Marked(ComponentMask(s, e)) :
        WireEntity(s, e).components[Rank(ComponentMask(s, e), k)] =
          [mask |-> [i \in DOMAIN e.components[s[k].id] |-> TRUE],
           values |-> e.components[s[k].id]]
  BY <1>2, EntityReadsBack
<1>4. \A k \in Marked(w.mask) :
        FullComponentError(s[k], lim, w.components[Rank(w.mask, k)]) = None
  <2> HIDE DEF w
  <2> SUFFICES ASSUME NEW k \in Marked(w.mask)
               PROVE  FullComponentError(s[k], lim, w.components[Rank(w.mask, k)]) = None
    OBVIOUS
  <2> DEFINE c == w.components[Rank(w.mask, k)]
             v == e.components[s[k].id]
  <2>1. c = [mask |-> [n \in DOMAIN v |-> TRUE], values |-> v]
    BY <1>1, <1>3 DEF w
  <2>2. c.values = v /\ ~(\E n \in DOMAIN c.mask : ~c.mask[n])
    <3> HIDE DEF c, v
    <3>1. QED
      BY <2>1
  <2>3. ComponentFieldsError(s[k], lim, v) = None
    BY <1>1, <1>2
  <2> HIDE DEF c, v
  <2>4. FullComponentError(s[k], lim, c) = None
    BY <2>2, <2>3 DEF ComponentFieldsError, FullComponentError, None
  <2>5. QED
    BY <2>4 DEF c
<1>5. DOMAIN errors \subseteq Nat
  BY <1>1 DEF Marked, ComponentMask, ValidSchema
<1>6. WireEntityError(s, lim, w) = FirstError(errors)
  BY DEF WireEntityError
<1>7. \A k \in DOMAIN errors : errors[k] = None
  BY <1>4
<1> HIDE DEF errors
<1>8. QED
  BY <1>5, <1>6, <1>7, FirstErrorIs DEF w

(* A full snapshot decodes to what was encoded. *)
LEMMA FullRoundTrip ==
  ASSUME NEW s, ValidSchema(s), NEW lim, NEW tick,
         NEW es, es \in Seq({es[i] : i \in DOMAIN es}), \A i \in DOMAIN es : IsEntity(es[i]),
         EncodeFullSnapshot(s, lim, tick, es).ok
  PROVE  DecodeFullSnapshot(s, lim, EncodeFullSnapshot(s, lim, tick, es).val)
           = Ok([tick |-> tick, entities |-> es])
<1> DEFINE body == [i \in DOMAIN es |-> WireEntity(s, es[i])]
           sections == IF es = <<>> THEN <<>> ELSE << [tag |-> "Create", body |-> body] >>
           packet == [flags |-> "full", schema_hash |-> s, tick |-> tick, baseline_tick |-> 0,
                      sections |-> sections]
<1>1. /\ DOMAIN es = 1 .. Len(es) /\ Len(es) \in Nat
      /\ es = [i \in DOMAIN es |-> es[i]]
  OBVIOUS
<1>2. /\ ~(Len(es) > lim.create)
      /\ EncodeFullSnapshot(s, lim, tick, es).val = packet
      /\ es # <<>> =>
           /\ ~(Len(body) > lim.section)
           /\ ~(Len(s) > lim.components)
           /\ \A i \in DOMAIN es :
                /\ OrderError(es, i) = None
                /\ ComponentsError(s, lim, es[i]) = None
  <2>1. /\ ~(Len(es) > lim.create)
        /\ EncodeFullSnapshot(s, lim, tick, es).val = FullPacket(s, tick, es)
        /\ es # <<>> =>
             /\ ~(Len(Body(s, es)) > lim.section)
             /\ ~(Len(s) > lim.components)
             /\ \A i \in DOMAIN es :
                  /\ OrderError(es, i) = None
                  /\ ComponentsError(s, lim, es[i]) = None
    BY <1>1, FullEncoded
  <2>2. QED
    BY <2>1 DEF FullPacket, Body
<1>3. Len(body) = Len(es)
  BY <1>1
<1>4. ASSUME NEW i \in DOMAIN es, es # <<>>
      PROVE  /\ OrderError(body, i) = None
             /\ WireEntityError(s, lim, body[i]) = None
             /\ ReadEntity(s, body[i]) = es[i]
  <2>1. body[i] = WireEntity(s, es[i])
    OBVIOUS
  <2>2. DOMAIN es[i].components \subseteq ComponentIds(s)
    BY <1>2, <1>4, ComponentsAre
  <2>3. ReadEntity(s, WireEntity(s, es[i])) = es[i]
    BY <2>2, EntityReadsBack
  <2>4. OrderError(body, i) = None
    <3>1. \A j \in DOMAIN es : body[j].id = es[j].id
      BY DEF WireEntity
    <3>2. i > 1 => i - 1 \in DOMAIN es
      BY <1>1
    <3>3. OrderError(body, i) = OrderError(es, i)
      <4> HIDE DEF body
      <4>1. QED
        BY <3>1, <3>2 DEF OrderError, OutOfOrder
    <3>4. QED
      BY <3>3, <1>2, <1>4
  <2>5. WireEntityError(s, lim, WireEntity(s, es[i])) = None
    BY <1>2, <1>4, EntityDecodes
  <2> HIDE DEF body
  <2>6. QED
    BY <2>1, <2>3, <2>4, <2>5
<1>5. DecodeFullSnapshot(s, lim, packet) =
        LET decoded == DecodeFullSections(s, lim, sections) IN
        IF decoded.ok THEN Ok([tick |-> tick, entities |-> decoded.val]) ELSE decoded
  BY DEF DecodeFullSnapshot, AndThen, Checked, SchemaMismatch, Ok, None
<1>6. CASE es = <<>>
  <2>1. DecodeFullSections(s, lim, sections) = Ok(<<>>)
    BY <1>6 DEF DecodeFullSections
  <2> HIDE DEF packet, sections
  <2>2. QED
    BY <2>1, <1>2, <1>5, <1>6 DEF Ok
<1>7. CASE es # <<>>
  <2>1. DecodeCreateSection(s, lim, body) = Ok(es)
    <3> DEFINE errors == [i \in DOMAIN body |->
                            Then(OrderError(body, i), WireEntityError(s, lim, body[i]))]
    <3>1. SectionTooLong(lim, body) = None /\ ~(Len(body) > lim.create)
      BY <1>2, <1>3, <1>7 DEF SectionTooLong
    <3>2. \A i \in DOMAIN errors : errors[i] = None
      BY <1>4, <1>7 DEF Then
    <3>3. DOMAIN errors \subseteq Nat
      BY <1>1
    <3>4. FirstError(errors) = None
      <4> HIDE DEF errors
      <4>1. QED
        BY <3>2, <3>3, FirstErrorIs
    <3>5. [i \in DOMAIN body |-> ReadEntity(s, body[i])] = es
      <4>1. [i \in DOMAIN body |-> ReadEntity(s, body[i])] = [i \in DOMAIN es |-> es[i]]
        BY <1>4, <1>7
      <4>2. QED
        BY <4>1, <1>1
    <3>6. DecodeCreateSection(s, lim, body) =
            Checked(Then(SectionTooLong(lim, body),
                         IF Len(body) > lim.create \/ Len(s) > lim.components
                         THEN "LimitsExceeded" ELSE FirstError(errors)),
                    [i \in DOMAIN body |-> ReadEntity(s, body[i])])
      BY DEF DecodeCreateSection
    <3> HIDE DEF errors, body
    <3>7. QED
      BY <3>1, <3>4, <3>5, <3>6, <1>2, <1>7 DEF Checked, Then
  <2>2. DecodeFullSections(s, lim, sections) = Ok(es)
    <3> HIDE DEF body
    <3>1. sections = << [tag |-> "Create", body |-> body] >>
      BY <1>7
    <3> HIDE DEF sections
    <3>2. sections # <<>> /\ sections[1].tag = "Create" /\ sections[1].body = body
          /\ Len(sections) = 1
      BY <3>1
    <3>3. QED
      BY <2>1, <3>2 DEF DecodeFullSections, AndThen, Checked, Ok
  <2> HIDE DEF packet, sections
  <2>3. QED
    BY <2>2, <1>2, <1>5 DEF Ok
<1>8. QED
  BY <1>6, <1>7

-----------------------------------------------------------------------------
(* Sequences. *)

LEMMA RangeOfConcat ==
  ASSUME NEW T, NEW x \in Seq(T), NEW y \in Seq(T)
  PROVE  /\ x \o y \in Seq(T)
         /\ Range(x \o y) = Range(x) \cup Range(y)
<1> DEFINE z == x \o y
<1>1. /\ z \in Seq(T)
      /\ Len(z) = Len(x) + Len(y)
      /\ \A i \in 1 .. Len(x) : z[i] = x[i]
      /\ \A i \in 1 .. Len(y) : z[i + Len(x)] = y[i]
      /\ \A i \in (Len(x) + 1) .. (Len(x) + Len(y)) : z[i] = y[i - Len(x)]
  OBVIOUS
<1>2. /\ DOMAIN x = 1 .. Len(x) /\ DOMAIN y = 1 .. Len(y) /\ DOMAIN z = 1 .. Len(z)
      /\ Len(x) \in Nat /\ Len(y) \in Nat
  BY <1>1
<1> HIDE DEF z
<1>3. ASSUME NEW i \in DOMAIN z
      PROVE  z[i] \in Range(x) \cup Range(y)
  <2>1. CASE i <= Len(x)
    BY <2>1, <1>1, <1>2 DEF Range
  <2>2. CASE i > Len(x)
    <3>1. i - Len(x) \in DOMAIN y /\ z[i] = y[i - Len(x)]
      BY <2>2, <1>1, <1>2
    <3>2. QED
      BY <3>1 DEF Range
  <2>3. QED
    BY <2>1, <2>2, <1>1, <1>2
<1>4. \A i \in DOMAIN x : x[i] \in Range(z)
  BY <1>1, <1>2 DEF Range
<1>5. ASSUME NEW i \in DOMAIN y
      PROVE  y[i] \in Range(z)
  <2>1. i + Len(x) \in DOMAIN z /\ z[i + Len(x)] = y[i]
    BY <1>1, <1>2
  <2>2. QED
    BY <2>1 DEF Range
<1>6. Range(z) \subseteq Range(x) \cup Range(y)
  BY <1>3 DEF Range
<1>7. Range(x) \cup Range(y) \subseteq Range(z)
  BY <1>4, <1>5 DEF Range
<1>8. QED
  BY <1>1, <1>6, <1>7 DEF z

-----------------------------------------------------------------------------
(* The sections of a delta. *)

Section(tag, body) == [tag |-> tag, body |-> body]

(* A section, unless there is nothing to say. *)
OneFor(said, tag, body) == IF said = <<>> THEN <<>> ELSE << Section(tag, body) >>

UpdateTags == {"Update", "UpdateSparse", "UpdateSparsePacked"}

LEMMA WrittenSection ==
  ASSUME NEW tag, NEW lim, NEW body, WriteSection(tag, lim, body).ok
  PROVE  /\ body.ok /\ ~(Len(body.val) > lim.section)
         /\ WriteSection(tag, lim, body).val = << Section(tag, body.val) >>
<1> DEFINE section == WriteSection(tag, lim, body)
<1>1. section =
        IF body.ok
        THEN Checked(IF Len(body.val) > lim.section THEN "LimitsExceeded" ELSE None,
                     << [tag |-> tag, body |-> body.val] >>)
        ELSE body
  BY DEF WriteSection, AndThen
<1>2. body.ok
  <2> HIDE DEF section
  <2>1. QED
    BY <1>1 DEF section
<1>3. QED
  BY <1>1, <1>2 DEF Checked, Ok, Err, None, Section

Joined(d, c, u) == d \o c \o u

LEMMA PayloadIs ==
  ASSUME NEW d, NEW c, NEW u, Payload(d, c, u).ok
  PROVE  d.ok /\ c.ok /\ u.ok /\ Payload(d, c, u).val = Joined(d.val, c.val, u.val)
<1>1. Payload(d, c, u) =
        IF d.ok THEN IF c.ok THEN IF u.ok THEN Ok(Joined(d.val, c.val, u.val)) ELSE u ELSE c ELSE d
  BY Zenon DEF Payload, AndThen, Joined
<1>2. d.ok
  <2>1. ~d.ok => Payload(d, c, u) = d
    BY <1>1
  <2>2. QED
    BY <2>1
<1>3. c.ok
  <2>1. ~c.ok => Payload(d, c, u) = c
    BY <1>1, <1>2
  <2>2. QED
    BY <2>1
<1>4. u.ok
  <2>1. ~u.ok => Payload(d, c, u) = u
    BY <1>1, <1>2, <1>3
  <2>2. QED
    BY <2>1
<1>5. Payload(d, c, u) = Ok(Joined(d.val, c.val, u.val))
  BY <1>1, <1>2, <1>3, <1>4
<1>6. Payload(d, c, u).val = Joined(d.val, c.val, u.val)
  BY <1>5 DEF Ok
<1>7. QED
  BY <1>2, <1>3, <1>4, <1>6

(* The two sections in front, and what their writers have checked. *)
LEMMA DestroyAndCreateAre ==
  ASSUME NEW s, NEW lim, NEW destroyed, NEW update,
         NEW created, DOMAIN created \subseteq Nat,
         DestroyAndCreateSections(s, lim, destroyed, created, update).ok
  PROVE  /\ update.ok
         /\ DestroyAndCreateSections(s, lim, destroyed, created, update).val =
              Joined(OneFor(destroyed, "Destroy", destroyed),
                     OneFor(created, "Create", Body(s, created)), update.val)
         /\ destroyed # <<>> => ~(Len(destroyed) > lim.section)
         /\ created # <<>> => /\ ~(Len(Body(s, created)) > lim.section)
                              /\ \A i \in DOMAIN created : ComponentsError(s, lim, created[i]) = None
<1> DEFINE d == EncodeDestroyBody(lim, destroyed)
           c == EncodeDeltaCreateBody(s, lim, created)
           D == Unless(destroyed = <<>>, WriteSection("Destroy", lim, d))
           C == Unless(created = <<>>, WriteSection("Create", lim, c))
           errors == [i \in DOMAIN created |-> ComponentsError(s, lim, created[i])]
<1>1. DestroyAndCreateSections(s, lim, destroyed, created, update) = Payload(D, C, update)
  BY DEF DestroyAndCreateSections
<1>2. D.ok /\ C.ok /\ update.ok /\ Payload(D, C, update).val = Joined(D.val, C.val, update.val)
  <2>1. Payload(D, C, update).ok
    BY <1>1
  <2> HIDE DEF D, C
  <2>2. D.ok /\ C.ok /\ update.ok
    BY <2>1, PayloadIs
  <2>3. Payload(D, C, update).val = Joined(D.val, C.val, update.val)
    BY <2>1, PayloadIs
  <2>4. QED
    BY <2>2, <2>3
<1>3. /\ D.val = OneFor(destroyed, "Destroy", destroyed)
      /\ destroyed # <<>> => ~(Len(destroyed) > lim.section)
  <2>1. CASE destroyed = <<>>
    BY <2>1 DEF Unless, OneFor, Ok
  <2>2. CASE destroyed # <<>>
    <3> HIDE DEF d
    <3>1. d.ok /\ D.val = << Section("Destroy", d.val) >> /\ ~(Len(d.val) > lim.section)
      BY <1>2, <2>2, WrittenSection DEF Unless
    <3>2. d.val = destroyed
      BY <3>1 DEF d, EncodeDestroyBody, Checked, Ok, Err
    <3>3. QED
      BY <3>1, <3>2, <2>2 DEF OneFor
  <2>3. QED
    BY <2>1, <2>2
<1>4. CASE created = <<>>
  <2>1. C.val = OneFor(created, "Create", Body(s, created))
    BY <1>4 DEF Unless, OneFor, Ok
  <2>2. QED
    BY <1>1, <1>2, <1>3, <1>4, <2>1
<1>5. CASE created # <<>>
  <2>1. c.ok /\ C.val = << Section("Create", c.val) >> /\ ~(Len(c.val) > lim.section)
    <3> HIDE DEF c
    <3>1. QED
      BY <1>2, <1>5, WrittenSection DEF Unless
  <2>2. c = Checked(IF Len(created) > lim.create THEN "LimitsExceeded" ELSE FirstError(errors),
                    Body(s, created))
    BY DEF EncodeDeltaCreateBody, Body
  <2>3. FirstError(errors) = None /\ c.val = Body(s, created)
    <3> HIDE DEF c, errors
    <3>1. QED
      BY <2>1, <2>2 DEF Checked, Ok, Err, None
  <2>4. \A i \in DOMAIN created : errors[i] = None
    <3>1. DOMAIN errors = DOMAIN created
      OBVIOUS
    <3> HIDE DEF errors
    <3>2. QED
      BY <2>3, <3>1, FirstErrorIs
  <2>5. \A i \in DOMAIN created : ComponentsError(s, lim, created[i]) = None
    BY <2>4
  <2> HIDE DEF c, C, errors
  <2>6. C.val = OneFor(created, "Create", Body(s, created))
    BY <2>1, <2>3, <1>5 DEF OneFor
  <2>7. QED
    BY <1>1, <1>2, <1>3, <1>5, <2>1, <2>3, <2>5, <2>6
<1>6. QED
  BY <1>4, <1>5

Appended(x, y) == x \o y

FoundIn(sections, decoded, name) ==
  IF \E i \in DOMAIN sections : Slot(sections[i].tag) = name
  THEN decoded[CHOOSE i \in DOMAIN sections : Slot(sections[i].tag) = name].val ELSE <<>>

(* A result that is not ok has an error. *)
Proper(result) == ~result.ok => result.error # None

LEMMA GatheredIs ==
  ASSUME NEW sections, DOMAIN sections \subseteq Nat,
         NEW decoded, \A i \in DOMAIN sections : Proper(decoded[i]),
         GatherSections(sections, decoded).ok
  PROVE  /\ \A i \in DOMAIN sections : decoded[i].ok
         /\ GatherSections(sections, decoded).val =
              [destroys |-> FoundIn(sections, decoded, "Destroy"),
               creates |-> FoundIn(sections, decoded, "Create"),
               updates |-> Appended(FoundIn(sections, decoded, "Update"),
                                    FoundIn(sections, decoded, "UpdateSparse"))]
<1> DEFINE slot(i) == Slot(sections[i].tag)
           ErrorOf(i) ==
             IF \E j \in 1 .. i - 1 : slot(j) = slot(i) THEN "DuplicateSection"
             ELSE IF decoded[i].ok THEN None ELSE decoded[i].error
           errors == [i \in DOMAIN sections |-> ErrorOf(i)]
           both == {"Update", "UpdateSparse"} \subseteq {slot(i) : i \in DOMAIN sections}
           said == [destroys |-> FoundIn(sections, decoded, "Destroy"),
                    creates |-> FoundIn(sections, decoded, "Create"),
                    updates |-> Appended(FoundIn(sections, decoded, "Update"),
                                         FoundIn(sections, decoded, "UpdateSparse"))]
<1>1. GatherSections(sections, decoded) =
        Checked(Then(FirstError(errors), IF both THEN "DuplicateUpdateEncoding" ELSE None), said)
  BY Zenon DEF GatherSections, FoundIn, Appended
<1>2. FirstError(errors) = None /\ GatherSections(sections, decoded).val = said
  <2> HIDE DEF errors, both, said
  <2>1. QED
    BY <1>1 DEF Checked, Then, Ok, Err, None
<1>3. \A i \in DOMAIN sections : errors[i] = None
  <2>1. DOMAIN errors = DOMAIN sections
    OBVIOUS
  <2> HIDE DEF errors
  <2>2. QED
    BY <1>2, <2>1, FirstErrorIs
<1>4. ASSUME NEW i \in DOMAIN sections
      PROVE  decoded[i].ok
  <2>1. ErrorOf(i) = None
    BY <1>3
  <2>2. QED
    BY <2>1 DEF None, Proper
<1>5. QED
  BY <1>2, <1>4

LEMMA CheckedIsProper ==
  ASSUME NEW error, NEW v
  PROVE  Proper(Checked(error, v))
BY DEF Proper, Checked, Ok, Err

LEMMA DecodedSectionIsProper ==
  ASSUME NEW s, NEW lim, NEW section
  PROVE  Proper(DecodeSection(s, lim, section))
<1>1. \A b : Proper(DecodeDestroySection(lim, b))
  BY CheckedIsProper DEF DecodeDestroySection
<1>2. \A b : Proper(DecodeDeltaCreateSection(s, lim, b))
  BY CheckedIsProper DEF DecodeDeltaCreateSection
<1>3. \A b : Proper(DecodeMasked(s, lim, b))
  BY CheckedIsProper DEF DecodeMasked
<1>4. \A b : Proper(DecodeSparse(s, lim, b))
  BY CheckedIsProper DEF DecodeSparse
<1>5. Proper(Err("UnexpectedSection"))
  BY DEF Proper, Err, None
<1>6. QED
  BY <1>1, <1>2, <1>3, <1>4, <1>5 DEF DecodeSection, DecodeSparseVarint, DecodeSparsePacked

LEMMA OneIs ==
  ASSUME NEW said, NEW tag, NEW body, NEW T, Section(tag, body) \in T
  PROVE  /\ OneFor(said, tag, body) \in Seq(T)
         /\ Range(OneFor(said, tag, body)) = IF said = <<>> THEN {} ELSE {Section(tag, body)}
<1> DEFINE x == Section(tag, body)
<1> HIDE DEF x
<1>1. <<>> \in Seq(T) /\ Range(<<>>) = {}
  BY DEF Range
<1>2. << x >> \in Seq(T) /\ Range(<< x >>) = {x}
  BY DEF Range, x
<1>3. QED
  BY <1>1, <1>2 DEF OneFor, x

(* Elements whose ranks ascend. *)
Ranked(x, rank) == \A i, j \in DOMAIN x : i < j => rank[x[i]] < rank[x[j]]

LEMMA RankedConcat ==
  ASSUME NEW T, NEW x \in Seq(T), NEW y \in Seq(T), NEW rank \in [T -> Int],
         Ranked(x, rank), Ranked(y, rank),
         \A a \in Range(x), b \in Range(y) : rank[a] < rank[b]
  PROVE  Ranked(x \o y, rank)
<1> DEFINE z == x \o y
<1>1. /\ z \in Seq(T)
      /\ Len(z) = Len(x) + Len(y)
      /\ \A i \in 1 .. Len(x) : z[i] = x[i]
      /\ \A i \in (Len(x) + 1) .. (Len(x) + Len(y)) : z[i] = y[i - Len(x)]
  OBVIOUS
<1>2. /\ DOMAIN x = 1 .. Len(x) /\ DOMAIN y = 1 .. Len(y) /\ DOMAIN z = 1 .. Len(z)
      /\ Len(x) \in Nat /\ Len(y) \in Nat
  BY <1>1
<1> HIDE DEF z
<1> SUFFICES ASSUME NEW i \in DOMAIN z, NEW j \in DOMAIN z, i < j
             PROVE  rank[z[i]] < rank[z[j]]
  BY DEF Ranked, z
<1>3. /\ i \in 1 .. (Len(x) + Len(y)) /\ j \in 1 .. (Len(x) + Len(y))
      /\ i \in Int /\ j \in Int
  BY <1>1, <1>2
<1>4. CASE j <= Len(x)
  <2>1. i \in DOMAIN x /\ j \in DOMAIN x /\ z[i] = x[i] /\ z[j] = x[j]
    BY <1>1, <1>2, <1>3, <1>4
  <2>2. QED
    BY <2>1 DEF Ranked
<1>5. CASE i <= Len(x) /\ Len(x) < j
  <2>1. i \in DOMAIN x /\ j \in (Len(x) + 1) .. (Len(x) + Len(y))
    BY <1>2, <1>3, <1>5
  <2>2. z[i] = x[i] /\ z[j] = y[j - Len(x)]
    BY <1>1, <1>2, <2>1
  <2>3. j - Len(x) \in DOMAIN y
    BY <1>2, <2>1
  <2>4. z[i] \in Range(x) /\ z[j] \in Range(y)
    BY <2>1, <2>2, <2>3 DEF Range
  <2>5. QED
    BY <2>4
<1>6. CASE Len(x) < i
  <2>1. i \in (Len(x) + 1) .. (Len(x) + Len(y)) /\ j \in (Len(x) + 1) .. (Len(x) + Len(y))
    BY <1>2, <1>3, <1>6
  <2>2. z[i] = y[i - Len(x)] /\ z[j] = y[j - Len(x)]
    BY <1>1, <2>1
  <2>3. /\ i - Len(x) \in DOMAIN y /\ j - Len(x) \in DOMAIN y
        /\ i - Len(x) < j - Len(x)
    BY <1>2, <2>1
  <2>4. QED
    BY <2>2, <2>3 DEF Ranked
<1>7. QED
  BY <1>2, <1>3, <1>4, <1>5, <1>6

LEMMA SectionsAre ==
  ASSUME NEW destroyed, NEW created, NEW updated,
         NEW destroy, NEW create, NEW tag \in UpdateTags, NEW update,
         NEW sections,
         sections = Joined(OneFor(destroyed, "Destroy", destroy),
                           OneFor(created, "Create", create),
                           OneFor(updated, tag, update))
  PROVE  /\ DOMAIN sections = 1 .. Len(sections) /\ Len(sections) \in Nat
         /\ Range(sections) =
              (IF destroyed = <<>> THEN {} ELSE {Section("Destroy", destroy)})
                \cup (IF created = <<>> THEN {} ELSE {Section("Create", create)})
                \cup (IF updated = <<>> THEN {} ELSE {Section(tag, update)})
         /\ \A i, j \in DOMAIN sections : i < j => Slot(sections[i].tag) # Slot(sections[j].tag)
<1> DEFINE d == Section("Destroy", destroy)
           c == Section("Create", create)
           u == Section(tag, update)
           X == OneFor(destroyed, "Destroy", destroy)
           Y == OneFor(created, "Create", create)
           Z == OneFor(updated, tag, update)
           T == {d, c, u}
           XY == X \o Y
           rank == [x \in T |-> IF x.tag = "Destroy" THEN 1 ELSE IF x.tag = "Create" THEN 2 ELSE 3]
           noDestroy == destroyed = <<>>
           noCreate == created = <<>>
           noUpdate == updated = <<>>
<1>1. /\ d.tag = "Destroy" /\ c.tag = "Create" /\ u.tag = tag
      /\ d \in T /\ c \in T /\ u \in T
  BY DEF Section
<1>2. rank \in [T -> Int]
  OBVIOUS
<1>3. rank[d] = 1 /\ rank[c] = 2 /\ rank[u] = 3
  BY <1>1 DEF UpdateTags
<1>4. \A a, b \in T : Slot(a.tag) = Slot(b.tag) => rank[a] = rank[b]
  BY <1>1, <1>3 DEF Slot, UpdateTags
<1>5. X \in Seq(T) /\ Range(X) = IF noDestroy THEN {} ELSE {d}
  BY OneIs
<1>6. Y \in Seq(T) /\ Range(Y) = IF noCreate THEN {} ELSE {c}
  BY OneIs
<1>7. Z \in Seq(T) /\ Range(Z) = IF noUpdate THEN {} ELSE {u}
  BY OneIs
<1>8. \A said, name, body : \A i, j \in DOMAIN OneFor(said, name, body) : ~(i < j)
  BY DEF OneFor
<1>9. Ranked(X, rank) /\ Ranked(Y, rank) /\ Ranked(Z, rank)
  BY <1>8 DEF Ranked
<1> HIDE DEF X, Y, Z, T, d, c, u, rank, noDestroy, noCreate, noUpdate
<1>10. \A a \in Range(X), b \in Range(Y) : rank[a] < rank[b]
  BY <1>3, <1>5, <1>6
<1>11. XY \in Seq(T) /\ Range(XY) = Range(X) \cup Range(Y) /\ Ranked(XY, rank)
  <2>1. X \in Seq(T) /\ Y \in Seq(T)
    BY <1>5, <1>6
  <2>2. X \o Y \in Seq(T) /\ Range(X \o Y) = Range(X) \cup Range(Y)
    BY ONLY <2>1, RangeOfConcat
  <2>3. Ranked(X \o Y, rank)
    BY ONLY <2>1, <1>2, <1>9, <1>10, RankedConcat
  <2>4. QED
    BY ONLY <2>2, <2>3 DEF XY
<1>12. \A a \in Range(XY), b \in Range(Z) : rank[a] < rank[b]
  BY <1>3, <1>5, <1>6, <1>7, <1>11
<1> HIDE DEF XY
<1>13. XY \o Z \in Seq(T) /\ Range(XY \o Z) = Range(XY) \cup Range(Z) /\ Ranked(XY \o Z, rank)
  <2>1. XY \in Seq(T) /\ Z \in Seq(T)
    BY <1>7, <1>11
  <2>2. XY \o Z \in Seq(T) /\ Range(XY \o Z) = Range(XY) \cup Range(Z)
    BY ONLY <2>1, RangeOfConcat
  <2>3. Ranked(XY \o Z, rank)
    BY ONLY <2>1, <1>2, <1>9, <1>11, <1>12, RankedConcat
  <2>4. QED
    BY ONLY <2>2, <2>3
<1>14. sections = XY \o Z
  BY Zenon DEF Joined, X, Y, Z, XY
<1>15. sections \in Seq(T) /\ Ranked(sections, rank)
  BY <1>13, <1>14
<1>16. /\ DOMAIN sections = 1 .. Len(sections) /\ Len(sections) \in Nat
       /\ \A i \in DOMAIN sections : sections[i] \in T
  BY <1>15
<1>17. ASSUME NEW i \in DOMAIN sections, NEW j \in DOMAIN sections, i < j
       PROVE  Slot(sections[i].tag) # Slot(sections[j].tag)
  <2>1. sections[i] \in T /\ sections[j] \in T
    BY <1>16
  <2>2. rank[sections[i]] \in Int /\ rank[sections[j]] \in Int
    BY <1>2, <2>1
  <2>3. rank[sections[i]] < rank[sections[j]]
    BY <1>15, <1>17 DEF Ranked
  <2>4. rank[sections[i]] # rank[sections[j]]
    BY <2>2, <2>3
  <2>5. QED
    BY <1>4, <2>1, <2>4
<1>18. Range(sections) = (IF noDestroy THEN {} ELSE {d}) \cup (IF noCreate THEN {} ELSE {c})
                           \cup (IF noUpdate THEN {} ELSE {u})
  BY <1>5, <1>6, <1>7, <1>11, <1>13, <1>14
<1>19. QED
  BY <1>16, <1>17, <1>18 DEF d, c, u, noDestroy, noCreate, noUpdate

(* What the decoder makes of the sections that the encoder has written. *)
LEMMA DeltaDecoded ==
  ASSUME NEW s, NEW lim, NEW destroyed, NEW created, NEW updated,
         NEW destroy, NEW create, NEW tag \in UpdateTags, NEW update,
         NEW sections,
         sections = Joined(OneFor(destroyed, "Destroy", destroy),
                           OneFor(created, "Create", create),
                           OneFor(updated, tag, update)),
         DecodeDeltaSections(s, lim, sections).ok
  PROVE  LET delta == DecodeDeltaSections(s, lim, sections).val
             D == DecodeDestroySection(lim, destroy)
             C == DecodeDeltaCreateSection(s, lim, create)
             U == DecodeSection(s, lim, Section(tag, update))
         IN /\ destroyed # <<>> => D.ok
            /\ delta.destroys = IF destroyed = <<>> THEN <<>> ELSE D.val
            /\ created # <<>> => C.ok
            /\ delta.creates = IF created = <<>> THEN <<>> ELSE C.val
            /\ updated # <<>> => U.ok
            /\ delta.updates = IF updated = <<>> THEN Appended(<<>>, <<>>)
                               ELSE IF tag = "Update" THEN Appended(U.val, <<>>)
                               ELSE Appended(<<>>, U.val)
<1> DEFINE d == Section("Destroy", destroy)
           c == Section("Create", create)
           u == Section(tag, update)
           decoded == [i \in DOMAIN sections |-> DecodeSection(s, lim, sections[i])]
           gathered == GatherSections(sections, decoded)
           noDestroy == destroyed = <<>>
           noCreate == created = <<>>
           noUpdate == updated = <<>>
<1>1. /\ DOMAIN sections \subseteq Nat
      /\ Range(sections) = (IF noDestroy THEN {} ELSE {d}) \cup (IF noCreate THEN {} ELSE {c})
                              \cup (IF noUpdate THEN {} ELSE {u})
  <2>1. /\ tag \in UpdateTags
        /\ sections = Joined(OneFor(destroyed, "Destroy", destroy),
                             OneFor(created, "Create", create),
                             OneFor(updated, tag, update))
    OBVIOUS
  <2>2. /\ DOMAIN sections = 1 .. Len(sections) /\ Len(sections) \in Nat
        /\ Range(sections) = (IF destroyed = <<>> THEN {} ELSE {d})
                               \cup (IF created = <<>> THEN {} ELSE {c})
                               \cup (IF updated = <<>> THEN {} ELSE {u})
    BY ONLY <2>1, SectionsAre
  <2>3. QED
    BY <2>2
<1>2. DecodeDeltaSections(s, lim, sections) = gathered
  BY DEF DecodeDeltaSections
<1>3. /\ \A i \in DOMAIN sections : decoded[i].ok
      /\ gathered.val = [destroys |-> FoundIn(sections, decoded, "Destroy"),
                         creates |-> FoundIn(sections, decoded, "Create"),
                         updates |-> Appended(FoundIn(sections, decoded, "Update"),
                                              FoundIn(sections, decoded, "UpdateSparse"))]
  <2>1. \A i \in DOMAIN sections : Proper(decoded[i])
    BY DecodedSectionIsProper
  <2>2. gathered.ok
    BY <1>2
  <2> HIDE DEF decoded
  <2>3. QED
    BY <1>1, <2>1, <2>2, GatheredIs
<1>4. ASSUME NEW name, NEW section,
             \A other \in Range(sections) : Slot(other.tag) = name => other = section
      PROVE  /\ (section \in Range(sections) /\ Slot(section.tag) = name) =>
                  /\ DecodeSection(s, lim, section).ok
                  /\ FoundIn(sections, decoded, name) = DecodeSection(s, lim, section).val
             /\ (\A other \in Range(sections) : Slot(other.tag) # name) =>
                  FoundIn(sections, decoded, name) = <<>>
  <2>1. ASSUME section \in Range(sections), Slot(section.tag) = name
        PROVE  /\ DecodeSection(s, lim, section).ok
               /\ FoundIn(sections, decoded, name) = DecodeSection(s, lim, section).val
    <3> DEFINE i == CHOOSE i \in DOMAIN sections : Slot(sections[i].tag) = name
    <3>1. \E k \in DOMAIN sections : Slot(sections[k].tag) = name
      BY <2>1 DEF Range
    <3>2. i \in DOMAIN sections /\ Slot(sections[i].tag) = name
      BY <3>1
    <3>3. FoundIn(sections, decoded, name) = decoded[i].val
      BY <3>1 DEF FoundIn
    <3> HIDE DEF i
    <3>4. sections[i] = section
      BY <3>2, <1>4 DEF Range
    <3>5. decoded[i] = DecodeSection(s, lim, section)
      BY <3>2, <3>4
    <3>6. QED
      BY <3>2, <3>3, <3>5, <1>3
  <2>2. ASSUME \A other \in Range(sections) : Slot(other.tag) # name
        PROVE  FoundIn(sections, decoded, name) = <<>>
    BY <2>2 DEF FoundIn, Range
  <2>3. QED
    BY <2>1, <2>2
<1>5. /\ d.tag = "Destroy" /\ d.body = destroy
      /\ c.tag = "Create" /\ c.body = create
      /\ u.tag = tag /\ u.body = update
  BY DEF Section
<1>6. /\ Slot("Destroy") = "Destroy" /\ Slot("Create") = "Create" /\ Slot("Update") = "Update"
      /\ tag # "Update" => Slot(tag) = "UpdateSparse"
  BY DEF Slot, UpdateTags
<1>7. /\ DecodeSection(s, lim, d) = DecodeDestroySection(lim, destroy)
      /\ DecodeSection(s, lim, c) = DecodeDeltaCreateSection(s, lim, create)
  BY DEF DecodeSection, Section
<1> HIDE DEF d, c, u, decoded, gathered, noDestroy, noCreate, noUpdate
<1>8. /\ ~noDestroy => DecodeDestroySection(lim, destroy).ok
      /\ FoundIn(sections, decoded, "Destroy") =
           IF noDestroy THEN <<>> ELSE DecodeDestroySection(lim, destroy).val
  <2>1. \A other \in Range(sections) : Slot(other.tag) = "Destroy" => other = d
    BY <1>1, <1>5, <1>6 DEF UpdateTags
  <2>2. CASE noDestroy
    <3>1. \A other \in Range(sections) : Slot(other.tag) # "Destroy"
      BY <1>1, <1>5, <1>6, <2>2 DEF UpdateTags
    <3>2. QED
      BY <3>1, <2>1, <2>2, <1>4
  <2>3. CASE ~noDestroy
    <3>1. d \in Range(sections) /\ Slot(d.tag) = "Destroy"
      BY <1>1, <1>5, <1>6, <2>3
    <3>2. QED
      BY <3>1, <2>1, <2>3, <1>4, <1>7
  <2>4. QED
    BY <2>2, <2>3
<1>9. /\ ~noCreate => DecodeDeltaCreateSection(s, lim, create).ok
      /\ FoundIn(sections, decoded, "Create") =
           IF noCreate THEN <<>> ELSE DecodeDeltaCreateSection(s, lim, create).val
  <2>1. \A other \in Range(sections) : Slot(other.tag) = "Create" => other = c
    BY <1>1, <1>5, <1>6 DEF UpdateTags
  <2>2. CASE noCreate
    <3>1. \A other \in Range(sections) : Slot(other.tag) # "Create"
      BY <1>1, <1>5, <1>6, <2>2 DEF UpdateTags
    <3>2. QED
      BY <3>1, <2>1, <2>2, <1>4
  <2>3. CASE ~noCreate
    <3>1. c \in Range(sections) /\ Slot(c.tag) = "Create"
      BY <1>1, <1>5, <1>6, <2>3
    <3>2. QED
      BY <3>1, <2>1, <2>3, <1>4, <1>7
  <2>4. QED
    BY <2>2, <2>3
<1>10. ASSUME NEW name \in {"Update", "UpdateSparse"}
       PROVE  /\ (~noUpdate /\ Slot(tag) = name) =>
                   /\ DecodeSection(s, lim, u).ok
                   /\ FoundIn(sections, decoded, name) = DecodeSection(s, lim, u).val
              /\ (noUpdate \/ Slot(tag) # name) => FoundIn(sections, decoded, name) = <<>>
  <2>1. \A other \in Range(sections) : Slot(other.tag) = name => other = u
    BY <1>1, <1>5, <1>6
  <2>2. ASSUME ~noUpdate, Slot(tag) = name
        PROVE  /\ DecodeSection(s, lim, u).ok
               /\ FoundIn(sections, decoded, name) = DecodeSection(s, lim, u).val
    <3>1. u \in Range(sections) /\ Slot(u.tag) = name
      BY <1>1, <1>5, <2>2
    <3>2. QED
      BY <3>1, <2>1, <1>4
  <2>3. ASSUME noUpdate \/ Slot(tag) # name
        PROVE  FoundIn(sections, decoded, name) = <<>>
    <3>1. \A other \in Range(sections) : Slot(other.tag) # name
      BY <1>1, <1>5, <1>6, <2>3
    <3>2. QED
      BY <3>1, <2>1, <1>4
  <2>4. QED
    BY <2>2, <2>3
<1>11. /\ ~noUpdate => DecodeSection(s, lim, u).ok
       /\ Appended(FoundIn(sections, decoded, "Update"), FoundIn(sections, decoded, "UpdateSparse")) =
            IF noUpdate THEN Appended(<<>>, <<>>)
            ELSE IF tag = "Update" THEN Appended(DecodeSection(s, lim, u).val, <<>>)
            ELSE Appended(<<>>, DecodeSection(s, lim, u).val)
  BY <1>6, <1>10
<1>12. QED
  BY <1>2, <1>3, <1>8, <1>9, <1>11 DEF u, noDestroy, noCreate, noUpdate

(* Created and destroyed entities are read as they were written. *)
LEMMA DestroysReadBack ==
  ASSUME NEW lim, NEW destroyed, DecodeDestroySection(lim, destroyed).ok
  PROVE  DecodeDestroySection(lim, destroyed).val = destroyed
BY DEF DecodeDestroySection, Checked, Ok, Err

IsEntities(es) ==
  /\ Len(es) \in Nat /\ DOMAIN es = 1 .. Len(es)
  /\ es = [i \in DOMAIN es |-> es[i]]
  /\ \A i \in DOMAIN es : IsEntity(es[i]) /\ es[i].id \in Nat

LEMMA CreatesReadBack ==
  ASSUME NEW s, ValidSchema(s), NEW lim, NEW created, IsEntities(created),
         \A i \in DOMAIN created : DOMAIN created[i].components \subseteq ComponentIds(s),
         DecodeDeltaCreateSection(s, lim, Body(s, created)).ok
  PROVE  DecodeDeltaCreateSection(s, lim, Body(s, created)).val = created
<1> DEFINE body == Body(s, created)
           read == [i \in DOMAIN body |-> ReadEntity(s, body[i])]
           error == Then(SectionTooLong(lim, body),
                      IF Len(body) > lim.create THEN "LimitsExceeded"
                      ELSE FirstError([i \in DOMAIN body |->
                             Then(OrderError(body, i), WireEntityError(s, lim, body[i]))]))
<1>1. DecodeDeltaCreateSection(s, lim, body) = Checked(error, read)
  BY DEF DecodeDeltaCreateSection
<1>2. Checked(error, read).ok => Checked(error, read).val = read
  BY DEF Checked, Ok, Err
<1>3. \A i \in DOMAIN created : ReadEntity(s, body[i]) = created[i]
  BY EntityReadsBack DEF Body, IsEntities
<1>4. DOMAIN body = DOMAIN created
  BY DEF Body
<1>5. read = [i \in DOMAIN created |-> created[i]]
  BY <1>3, <1>4
<1> HIDE DEF read, error, body
<1>6. QED
  BY <1>1, <1>2, <1>5 DEF body, IsEntities

-----------------------------------------------------------------------------
(* The packets of the sender. *)

DeltaRecord(s, tick, baseline_tick, sections) ==
  [flags |-> "delta", schema_hash |-> s, tick |-> tick, baseline_tick |-> baseline_tick,
   sections |-> sections]

LEMMA DeltaPacketIs ==
  ASSUME NEW s, NEW tick, NEW baseline_tick, NEW payload,
         DeltaPacket(s, tick, baseline_tick, payload).ok
  PROVE  /\ payload.ok
         /\ DeltaPacket(s, tick, baseline_tick, payload).val =
              DeltaRecord(s, tick, baseline_tick, payload.val)
<1>1. DeltaPacket(s, tick, baseline_tick, payload) =
        IF payload.ok THEN Ok(DeltaRecord(s, tick, baseline_tick, payload.val)) ELSE payload
  BY DEF DeltaPacket, AndThen, DeltaRecord
<1>2. payload.ok
  <2>1. ~payload.ok => DeltaPacket(s, tick, baseline_tick, payload) = payload
    BY <1>1
  <2>2. QED
    BY <2>1
<1>3. QED
  BY <1>1, <1>2 DEF Ok

(* What the sections of a diff are. *)
UpdateBody(s, lim, tag, pairs) ==
  CASE tag = "Update" -> EncodeMasked(s, lim, pairs)
    [] tag = "UpdateSparse" -> EncodeSparseVarint(s, lim, pairs)
    [] tag = "UpdateSparsePacked" -> EncodeSparsePacked(s, lim, pairs)

Encodings == {"Masked", "SparseVarint", "SparsePacked"}

LEMMA UpdateSectionIs ==
  ASSUME NEW s, NEW lim, NEW encoding \in Encodings, NEW pairs,
         UpdateSection(s, lim, encoding, pairs).ok
  PROVE  \E tag \in UpdateTags :
           /\ encoding = "Masked" => tag = "Update"
           /\ UpdateBody(s, lim, tag, pairs).ok
           /\ ~(Len(UpdateBody(s, lim, tag, pairs).val) > lim.section)
           /\ UpdateSection(s, lim, encoding, pairs).val =
                << Section(tag, UpdateBody(s, lim, tag, pairs).val) >>
<1>1. PICK tag \in UpdateTags :
        /\ encoding = "Masked" => tag = "Update"
        /\ UpdateSection(s, lim, encoding, pairs) = WriteSection(tag, lim, UpdateBody(s, lim, tag, pairs))
  <2>1. CASE encoding = "Masked"
    <3>1. UpdateSection(s, lim, encoding, pairs) =
            WriteSection("Update", lim, UpdateBody(s, lim, "Update", pairs))
      BY <2>1 DEF UpdateSection, UpdateBody
    <3>2. QED
      BY <2>1, <3>1 DEF UpdateTags
  <2>2. CASE encoding = "SparseVarint"
    <3>1. UpdateSection(s, lim, encoding, pairs) =
            WriteSection("UpdateSparse", lim, UpdateBody(s, lim, "UpdateSparse", pairs))
      BY <2>2 DEF UpdateSection, UpdateBody
    <3>2. QED
      BY <2>2, <3>1 DEF UpdateTags
  <2>3. CASE encoding = "SparsePacked"
    <3>1. UpdateSection(s, lim, encoding, pairs) =
            WriteSection("UpdateSparsePacked", lim, UpdateBody(s, lim, "UpdateSparsePacked", pairs))
      BY <2>3 DEF UpdateSection, UpdateBody
    <3>2. QED
      BY <2>3, <3>1 DEF UpdateTags
  <2>4. QED
    BY <2>1, <2>2, <2>3 DEF Encodings
<1>2. QED
  BY <1>1, WrittenSection

IsDiff(s, lim, encoding, destroyed, created, pairs, tag, sections) ==
  /\ encoding = "Masked" => tag = "Update"
  /\ pairs # <<>> => /\ UpdateBody(s, lim, tag, pairs).ok
                     /\ ~(Len(UpdateBody(s, lim, tag, pairs).val) > lim.section)
  /\ sections = Joined(OneFor(destroyed, "Destroy", destroyed),
                       OneFor(created, "Create", Body(s, created)),
                       OneFor(pairs, tag, UpdateBody(s, lim, tag, pairs).val))

LEMMA DiffIs ==
  ASSUME NEW s, NEW lim, NEW encoding \in Encodings \cup {"Auto"},
         NEW destroyed, NEW created, DOMAIN created \subseteq Nat, NEW pairs,
         EncodeDiff(s, lim, encoding, destroyed, created, pairs).ok
  PROVE  /\ ~(Len(created) > lim.create) /\ ~(Len(pairs) > lim.update)
         /\ ~(Len(destroyed) > lim.destroy)
         /\ destroyed # <<>> => ~(Len(destroyed) > lim.section)
         /\ created # <<>> => /\ ~(Len(Body(s, created)) > lim.section)
                              /\ \A i \in DOMAIN created : ComponentsError(s, lim, created[i]) = None
         /\ \E tag \in UpdateTags :
              IsDiff(s, lim, encoding, destroyed, created, pairs, tag,
                     EncodeDiff(s, lim, encoding, destroyed, created, pairs).val)
<1> USE DEF IsDiff
<1> DEFINE chosen == IF encoding = "Auto" THEN SelectUpdateEncoding(s, pairs) ELSE encoding
           update == Unless(pairs = <<>>, UpdateSection(s, lim, chosen, pairs))
           all == DestroyAndCreateSections(s, lim, destroyed, created, update)
<1>1. /\ EncodeDiff(s, lim, encoding, destroyed, created, pairs) = all
      /\ ~(Len(created) > lim.create) /\ ~(Len(pairs) > lim.update)
      /\ ~(Len(destroyed) > lim.destroy)
  BY DEF EncodeDiff, Err
<1>2. /\ update.ok
      /\ all.val = Joined(OneFor(destroyed, "Destroy", destroyed),
                          OneFor(created, "Create", Body(s, created)), update.val)
      /\ destroyed # <<>> => ~(Len(destroyed) > lim.section)
      /\ created # <<>> => /\ ~(Len(Body(s, created)) > lim.section)
                           /\ \A i \in DOMAIN created : ComponentsError(s, lim, created[i]) = None
  <2>1. all.ok
    BY <1>1
  <2> HIDE DEF update
  <2>2. QED
    BY <2>1, DestroyAndCreateAre
<1>3. chosen \in Encodings /\ (encoding = "Masked" => chosen = "Masked")
  BY DEF SelectUpdateEncoding, Encodings
<1>4. \E tag \in UpdateTags :
        /\ encoding = "Masked" => tag = "Update"
        /\ pairs # <<>> => /\ UpdateBody(s, lim, tag, pairs).ok
                           /\ ~(Len(UpdateBody(s, lim, tag, pairs).val) > lim.section)
        /\ update.val = OneFor(pairs, tag, UpdateBody(s, lim, tag, pairs).val)
  <2>1. CASE pairs = <<>>
    <3>1. update.val = <<>>
      BY <2>1 DEF Unless, Ok
    <3>2. OneFor(pairs, "Update", UpdateBody(s, lim, "Update", pairs).val) = <<>>
      BY <2>1 DEF OneFor
    <3>3. QED
      BY <2>1, <3>1, <3>2 DEF UpdateTags
  <2>2. CASE pairs # <<>>
    <3>1. update = UpdateSection(s, lim, chosen, pairs)
      BY <2>2 DEF Unless
    <3>2. PICK tag \in UpdateTags :
            /\ chosen = "Masked" => tag = "Update"
            /\ ~(Len(UpdateBody(s, lim, tag, pairs).val) > lim.section)
            /\ UpdateBody(s, lim, tag, pairs).ok
            /\ update.val = << Section(tag, UpdateBody(s, lim, tag, pairs).val) >>
      <4> HIDE DEF chosen, update
      <4>1. QED
        BY <1>2, <1>3, <3>1, UpdateSectionIs
    <3>3. update.val = OneFor(pairs, tag, UpdateBody(s, lim, tag, pairs).val)
      BY <2>2, <3>2 DEF OneFor
    <3> HIDE DEF chosen, update
    <3>4. QED
      BY <1>3, <3>2, <3>3
  <2>3. QED
    BY <2>1, <2>2
<1> HIDE DEF update, all
<1>5. QED
  BY <1>1, <1>2, <1>4

(* A delta is encoded from what was sent and what there is. *)
LEMMA EncodedDelta ==
  ASSUME NEW s, NEW lim, NEW encoding, NEW baseline_tick, NEW base, NEW current,
         EncodeDelta(s, lim, encoding, baseline_tick, base, current).ok
  PROVE  LET diff == EncodeDiff(s, lim, encoding, Destroyed(base.entities, current.entities),
                                Created(base.entities, current.entities),
                                Updated(s, base.entities, current.entities))
         IN /\ EntitiesSortedError(base.entities) = None
            /\ EntitiesSortedError(current.entities) = None
            /\ DiffError(s, lim, base.entities, current.entities) = None
            /\ diff.ok
            /\ EncodeDelta(s, lim, encoding, baseline_tick, base, current).val =
                 DeltaRecord(s, current.tick, baseline_tick, diff.val)
<1> DEFINE diff == EncodeDiff(s, lim, encoding, Destroyed(base.entities, current.entities),
                              Created(base.entities, current.entities),
                              Updated(s, base.entities, current.entities))
           snapshots == [base |-> base.entities, curr |-> current.entities]
           order == Then(EntitiesSortedError(base.entities),
                    Then(EntitiesSortedError(current.entities),
                         DiffError(s, lim, base.entities, current.entities)))
           error == IF base.tick # baseline_tick THEN "BaselineTickMismatch" ELSE order
           packet == DeltaPacket(s, current.tick, baseline_tick, diff)
<1>1. EncodeDelta(s, lim, encoding, baseline_tick, base, current) =
        IF error = None THEN packet ELSE Err(error)
  BY DEF EncodeDelta, AndThen, Checked, Ok, Err
<1>2. error = None /\ packet.ok /\ EncodeDelta(s, lim, encoding, baseline_tick, base, current) = packet
  <2> HIDE DEF error, packet
  <2>1. error = None
    BY <1>1 DEF Err
  <2>2. QED
    BY <1>1, <2>1
<1>3. order = None
  <2> HIDE DEF order
  <2>1. QED
    BY <1>2 DEF None
<1>4. /\ EntitiesSortedError(base.entities) = None
      /\ EntitiesSortedError(current.entities) = None
      /\ DiffError(s, lim, base.entities, current.entities) = None
  BY <1>3 DEF Then
<1>5. diff.ok /\ packet.val = DeltaRecord(s, current.tick, baseline_tick, diff.val)
  <2> HIDE DEF diff
  <2>1. QED
    BY <1>2, DeltaPacketIs
<1> HIDE DEF packet
<1>6. QED
  BY <1>2, <1>4, <1>5

(* A delta from a list of updates, and nothing else. *)
LEMMA EncodedUpdates ==
  ASSUME NEW s, NEW lim, NEW tick, NEW baseline_tick, NEW updates,
         EncodeFromUpdates(s, lim, tick, baseline_tick, <<>>, <<>>, updates).ok
  PROVE  /\ UpdateListError(s, lim, updates) = None
         /\ updates # <<>> => EncodeUpdateList(s, lim, updates).ok
         /\ EncodeFromUpdates(s, lim, tick, baseline_tick, <<>>, <<>>, updates).val =
              DeltaRecord(s, tick, baseline_tick,
                Joined(OneFor(<<>>, "Destroy", <<>>), OneFor(<<>>, "Create", Body(s, <<>>)),
                       OneFor(updates, "UpdateSparsePacked",
                                 EncodeUpdateList(s, lim, updates).val)))
<1> DEFINE section == WriteSection("UpdateSparsePacked", lim, EncodeUpdateList(s, lim, updates))
           update == Unless(updates = <<>>, section)
           payload == DestroyAndCreateSections(s, lim, <<>>, <<>>, update)
           packet == DeltaPacket(s, tick, baseline_tick, payload)
           list == UpdateListError(s, lim, updates)
           tooMany == \/ Len(<<>>) > lim.destroy
                      \/ Len(<<>>) > lim.create
                      \/ Len(updates) > lim.update
           error == IF tooMany THEN "LimitsExceeded"
                    ELSE Then(SortedError(<<>>), Then(EntitiesSortedError(<<>>), list))
<1>1. EncodeFromUpdates(s, lim, tick, baseline_tick, <<>>, <<>>, updates) =
        IF error = None THEN packet ELSE Err(error)
  BY DEF EncodeFromUpdates, AndThen, Checked, Ok, Err
<1>2. /\ error = None /\ packet.ok
      /\ EncodeFromUpdates(s, lim, tick, baseline_tick, <<>>, <<>>, updates) = packet
  <2> HIDE DEF error, packet
  <2>1. error = None
    BY <1>1 DEF Err
  <2>2. QED
    BY <1>1, <2>1
<1>3. list = None
  <2> HIDE DEF list, tooMany
  <2>1. QED
    BY <1>2 DEF None, Then
<1>4. payload.ok /\ packet.val = DeltaRecord(s, tick, baseline_tick, payload.val)
  <2> HIDE DEF payload
  <2>1. QED
    BY <1>2, DeltaPacketIs
<1>5. /\ update.ok
      /\ payload.val = Joined(OneFor(<<>>, "Destroy", <<>>),
                              OneFor(<<>>, "Create", Body(s, <<>>)), update.val)
  <2> DEFINE empty == <<>>
  <2>1. DOMAIN empty \subseteq Nat
    OBVIOUS
  <2>2. DestroyAndCreateSections(s, lim, empty, empty, update).ok
    BY <1>4
  <2> HIDE DEF update, empty
  <2>3. /\ update.ok
        /\ DestroyAndCreateSections(s, lim, empty, empty, update).val =
             Joined(OneFor(empty, "Destroy", empty),
                    OneFor(empty, "Create", Body(s, empty)), update.val)
    BY <2>1, <2>2, DestroyAndCreateAre
  <2>4. QED
    BY <2>3 DEF empty
<1>6. /\ updates # <<>> => EncodeUpdateList(s, lim, updates).ok
      /\ update.val = OneFor(updates, "UpdateSparsePacked",
                                EncodeUpdateList(s, lim, updates).val)
  <2>1. CASE updates = <<>>
    BY <2>1 DEF Unless, OneFor, Ok
  <2>2. CASE updates # <<>>
    <3>1. update = section
      BY <2>2 DEF Unless
    <3>2. section.ok
      BY <3>1, <1>5
    <3>3. /\ EncodeUpdateList(s, lim, updates).ok
          /\ section.val = << Section("UpdateSparsePacked", EncodeUpdateList(s, lim, updates).val) >>
      BY <3>2, WrittenSection
    <3> HIDE DEF section, update
    <3>4. QED
      BY <2>2, <3>1, <3>3 DEF OneFor
  <2>3. QED
    BY <2>1, <2>2
<1>7. (<<>> = <<>>) = TRUE
  OBVIOUS
<1> HIDE DEF packet, payload, update
<1>8. QED
  BY <1>2, <1>3, <1>4, <1>5, <1>6, <1>7

(* What the receiver has done with a delta that it accepts. *)
LEMMA AppliedDelta ==
  ASSUME NEW s, NEW lim, NEW base, NEW packet, ApplyDelta(s, lim, base, packet).ok
  PROVE  LET said == DecodeDeltaSections(s, lim, packet.sections)
             applied == ApplyDecoded(lim, base.entities, said.val)
         IN /\ said.ok /\ applied.ok
            /\ ApplyDelta(s, lim, base, packet).val = [tick |-> packet.tick, entities |-> applied.val]
<1> DEFINE said == DecodeDeltaSections(s, lim, packet.sections)
           applied == ApplyDecoded(lim, base.entities, said.val)
           error == Then(DeltaHeaderError(packet),
                    Then(IF packet.baseline_tick # base.tick THEN "BaselineTickMismatch" ELSE None,
                         SchemaMismatch(s, packet)))
<1>1. ApplyDelta(s, lim, base, packet) =
        IF error = None
        THEN IF said.ok
             THEN IF applied.ok THEN Ok([tick |-> packet.tick, entities |-> applied.val])
                  ELSE applied
             ELSE said
        ELSE Err(error)
  BY DEF ApplyDelta, AndThen, Checked, Ok, Err
<1> HIDE DEF error, applied, said
<1>2. error = None
  BY <1>1 DEF Err
<1>3. said.ok
  BY <1>1, <1>2
<1>4. applied.ok
  BY <1>1, <1>2, <1>3
<1>5. ApplyDelta(s, lim, base, packet).val = [tick |-> packet.tick, entities |-> applied.val]
  BY <1>1, <1>2, <1>3, <1>4 DEF Ok
<1>6. QED
  BY <1>3, <1>4, <1>5 DEF said, applied

LEMMA AppliedDecoded ==
  ASSUME NEW lim, NEW base, NEW delta, ApplyDecoded(lim, base, delta).ok
  PROVE  LET kept == ApplyDestroys(base, delta.destroys)
             all == ApplyCreates(kept.val, delta.creates)
             applied == ApplyUpdates(all.val, delta.updates)
         IN /\ kept.ok /\ all.ok /\ applied.ok
            /\ ApplyDecoded(lim, base, delta) = applied
<1> DEFINE kept == ApplyDestroys(base, delta.destroys)
           all == ApplyCreates(kept.val, delta.creates)
           applied == ApplyUpdates(all.val, delta.updates)
           error == Then(EntitiesSortedError(base), EntitiesSortedError(delta.creates))
<1>1. ApplyDecoded(lim, base, delta) =
        IF error = None
        THEN IF kept.ok
             THEN IF all.ok
                  THEN IF Len(all.val) > lim.total THEN Err("LimitsExceeded") ELSE applied
                  ELSE all
             ELSE kept
        ELSE Err(error)
  BY DEF ApplyDecoded, AndThen, Checked, Ok, Err
<1> HIDE DEF error, applied, kept, all
<1>2. error = None
  BY <1>1 DEF Err
<1>3. kept.ok
  BY <1>1, <1>2
<1>4. all.ok
  BY <1>1, <1>2, <1>3
<1>5. ~(Len(all.val) > lim.total)
  BY <1>1, <1>2, <1>3, <1>4 DEF Err
<1>6. ApplyDecoded(lim, base, delta) = applied
  BY <1>1, <1>2, <1>3, <1>4, <1>5
<1>7. QED
  BY <1>3, <1>4, <1>6 DEF kept, all, applied

-----------------------------------------------------------------------------
(* Lists of entities. *)

SortedById(es) == \A i, j \in DOMAIN es : i < j => es[i].id < es[j].id

(* A list that ascends from each element to the next ascends. *)
LEMMA StepwiseAscending ==
  ASSUME NEW n \in Nat, NEW f, \A i \in 1 .. n : f[i] \in Int,
         \A i \in 1 .. n : i > 1 => f[i - 1] < f[i]
  PROVE  \A i, j \in 1 .. n : i < j => f[i] < f[j]
<1> DEFINE bad == {j \in 1 .. n : \E i \in 1 .. n : i < j /\ ~(f[i] < f[j])}
<1>1. ASSUME bad # {}
      PROVE  FALSE
  <2>1. bad \subseteq Nat
    OBVIOUS
  <2>2. PICK j \in bad : \A k \in bad : j <= k
    <3> HIDE DEF bad
    <3>1. QED
      BY <1>1, <2>1, LeastNatural
  <2>3. PICK i \in 1 .. n : i < j /\ ~(f[i] < f[j])
    BY <2>2
  <2>4. j \in 1 .. n /\ j > 1 /\ j - 1 \in 1 .. n /\ f[j - 1] < f[j]
    BY <2>2, <2>3
  <2>5. j - 1 \notin bad
    BY <2>2, <2>4
  <2>6. i < j - 1 => f[i] < f[j - 1]
    BY <2>3, <2>4, <2>5
  <2>7. CASE i = j - 1
    BY <2>3, <2>4, <2>7
  <2>8. CASE i < j - 1
    <3>1. f[i] \in Int /\ f[j - 1] \in Int /\ f[j] \in Int
      BY <2>3, <2>4
    <3>2. QED
      BY <2>3, <2>4, <2>6, <2>8, <3>1
  <2>9. QED
    BY <2>3, <2>4, <2>7, <2>8
<1>2. bad = {}
  BY <1>1
<1>3. QED
  BY <1>2

LEMMA SortedErrorIs ==
  ASSUME NEW es, IsEntities(es)
  PROVE  (EntitiesSortedError(es) = None) <=> SortedById(es)
<1> DEFINE f == [i \in DOMAIN es |-> es[i].id]
           errors == [i \in DOMAIN f |->
                        IF i > 1 /\ f[i] <= f[i - 1] THEN "InvalidEntityOrder" ELSE None]
<1>1. /\ DOMAIN es = 1 .. Len(es) /\ Len(es) \in Nat
      /\ \A i \in DOMAIN es : f[i] = es[i].id /\ f[i] \in Int
  BY DEF IsEntities
<1>2. EntitiesSortedError(es) = FirstError(errors)
  BY DEF EntitiesSortedError, SortedError
<1>3. FirstError(errors) = None <=> \A i \in DOMAIN es : errors[i] = None
  <2>1. DOMAIN errors = DOMAIN es /\ DOMAIN errors \subseteq Nat
    BY <1>1
  <2> HIDE DEF errors
  <2>2. QED
    BY <2>1, FirstErrorIs
<1>4. \A i \in DOMAIN es : errors[i] = None <=> ~(i > 1 /\ f[i] <= f[i - 1])
  BY DEF None
<1>5. ASSUME NEW i \in DOMAIN es
      PROVE  errors[i] = None <=> (i > 1 => f[i - 1] < f[i])
  <2>1. i > 1 => i - 1 \in DOMAIN es
    BY <1>1
  <2>2. i > 1 => f[i - 1] \in Int /\ f[i] \in Int
    BY <1>1, <2>1
  <2> HIDE DEF f, errors
  <2>3. QED
    BY <1>4, <2>2
<1> HIDE DEF errors, f
<1>6. ASSUME \A i \in DOMAIN es : i > 1 => f[i - 1] < f[i]
      PROVE  SortedById(es)
  <2>1. \A i, j \in 1 .. Len(es) : i < j => f[i] < f[j]
    BY <1>1, <1>6, StepwiseAscending
  <2>2. QED
    BY <2>1, <1>1 DEF SortedById
<1>7. ASSUME SortedById(es), NEW i \in DOMAIN es, i > 1
      PROVE  f[i - 1] < f[i]
  <2>1. i - 1 \in DOMAIN es /\ i - 1 < i
    BY <1>1, <1>7
  <2>2. QED
    BY <2>1, <1>1, <1>7 DEF SortedById
<1>8. QED
  BY <1>2, <1>3, <1>5, <1>6, <1>7

(* Entities of a set that are put in order. *)
LEMMA InOrderIs ==
  ASSUME NEW E, IsFiniteSet({e.id : e \in E}),
         \A e \in E : IsEntity(e) /\ e.id \in Nat
  PROVE  /\ IsEntities(InOrder(E)) /\ SortedById(InOrder(E))
         /\ Ids(InOrder(E)) = {e.id : e \in E}
         /\ \A n \in DOMAIN InOrder(E) : InOrder(E)[n] \in E
<1> DEFINE ids == {e.id : e \in E}
           order == Listed(ids)
           es == InOrder(E)
<1>1. ids \subseteq Int
  OBVIOUS
<1>2. /\ Cardinality(ids) \in Nat
      /\ DOMAIN order = 1 .. Cardinality(ids)
      /\ \A n \in DOMAIN order : order[n] \in ids
      /\ \A x \in ids : Cardinality(UpTo(ids, x)) \in DOMAIN order
                       /\ order[Cardinality(UpTo(ids, x))] = x
      /\ \A m, n \in DOMAIN order : m < n => order[m] < order[n]
  <2> HIDE DEF ids
  <2>1. QED
    BY <1>1, ListedIs DEF ids
<1>3. es = [n \in DOMAIN order |-> CHOOSE e \in E : e.id = order[n]]
  BY DEF InOrder
<1>4. ASSUME NEW n \in DOMAIN order
      PROVE  es[n] \in E /\ es[n].id = order[n]
  <2>1. \E e \in E : e.id = order[n]
    <3>1. order[n] \in ids
      BY <1>2
    <3> HIDE DEF order
    <3>2. QED
      BY <3>1
  <2>2. es[n] = CHOOSE e \in E : e.id = order[n]
    BY <1>3
  <2> HIDE DEF order
  <2>3. QED
    BY <2>1, <2>2
<1>5. DOMAIN es = 1 .. Cardinality(ids) /\ es = [n \in DOMAIN es |-> es[n]]
  <2> HIDE DEF order, ids
  <2>1. QED
    BY <1>2, <1>3
<1>6. Len(es) = Cardinality(ids)
  <2> HIDE DEF ids
  <2>1. es \in [1 .. Cardinality(ids) -> E]
    BY <1>2, <1>4, <1>5
  <2> HIDE DEF es
  <2>2. es \in Seq(E)
    BY <1>2, <2>1
  <2>3. QED
    BY <1>2, <1>5, <2>2
<1> HIDE DEF es, order
<1>7. IsEntities(es)
  <2> HIDE DEF ids
  <2>1. QED
    BY <1>2, <1>4, <1>5, <1>6 DEF IsEntities
<1>8. SortedById(es)
  BY <1>2, <1>4, <1>5 DEF SortedById
<1>9. Ids(es) = ids
  <2>1. Ids(es) \subseteq ids
    BY <1>2, <1>4, <1>5 DEF Ids
  <2>2. ASSUME NEW x \in ids
        PROVE  x \in Ids(es)
    <3> DEFINE n == Cardinality(UpTo(ids, x))
    <3>1. n \in DOMAIN order /\ order[n] = x
      BY <1>2
    <3> HIDE DEF n, ids
    <3>2. es[n].id = x /\ n \in DOMAIN es
      BY <1>2, <1>4, <1>5, <3>1
    <3>3. QED
      BY <3>2 DEF Ids
  <2>3. QED
    BY <2>1, <2>2
<1>10. QED
  BY <1>2, <1>4, <1>5, <1>7, <1>8, <1>9 DEF es

(* Entities at some of the places of a list. *)
LEMMA ElementsAtIs ==
  ASSUME NEW es, IsEntities(es), NEW places, places \subseteq DOMAIN es
  PROVE  /\ IsEntities(ElementsAt(es, places))
         /\ Range(ElementsAt(es, places)) = {es[i] : i \in places}
         /\ (ElementsAt(es, places) = <<>>) <=> (places = {})
         /\ SortedById(es) => SortedById(ElementsAt(es, places))
<1> DEFINE order == Listed(places)
           some == ElementsAt(es, places)
<1>1. /\ DOMAIN es = 1 .. Len(es) /\ Len(es) \in Nat
      /\ \A i \in DOMAIN es : IsEntity(es[i]) /\ es[i].id \in Nat
  BY DEF IsEntities
<1>2. IsFiniteSet(places) /\ places \subseteq Int
  <2>1. IsFiniteSet(1 .. Len(es))
    BY <1>1, FS_Interval
  <2>2. places \in SUBSET (1 .. Len(es))
    BY <1>1
  <2>3. QED
    BY <2>1, <2>2, FS_Subset
<1>3. /\ Cardinality(places) \in Nat
      /\ DOMAIN order = 1 .. Cardinality(places)
      /\ \A n \in DOMAIN order : order[n] \in places
      /\ \A x \in places : Cardinality(UpTo(places, x)) \in DOMAIN order
                          /\ order[Cardinality(UpTo(places, x))] = x
      /\ \A m, n \in DOMAIN order : m < n => order[m] < order[n]
  BY <1>2, ListedIs
<1>4. some = [n \in DOMAIN order |-> es[order[n]]]
  BY DEF ElementsAt
<1> HIDE DEF order, some
<1>5. /\ DOMAIN some = 1 .. Cardinality(places)
      /\ some = [n \in DOMAIN some |-> some[n]]
      /\ \A n \in DOMAIN some : some[n] = es[order[n]]
  BY <1>3, <1>4
<1>6. Len(some) = Cardinality(places)
  <2>1. some \in [1 .. Cardinality(places) -> {es[i] : i \in DOMAIN es}]
    BY <1>3, <1>5
  <2>2. some \in Seq({es[i] : i \in DOMAIN es})
    BY <1>3, <2>1
  <2>3. QED
    BY <1>3, <1>5, <2>2
<1>7. IsEntities(some)
  <2>1. \A n \in DOMAIN some : IsEntity(some[n]) /\ some[n].id \in Nat
    BY <1>1, <1>3, <1>5
  <2>2. QED
    BY <1>3, <1>5, <1>6, <2>1 DEF IsEntities
<1>8. Range(some) = {es[i] : i \in places}
  <2>1. Range(some) \subseteq {es[i] : i \in places}
    BY <1>3, <1>5 DEF Range
  <2>2. \A i \in places : es[i] \in Range(some)
    BY <1>3, <1>5 DEF Range
  <2>3. QED
    BY <2>1, <2>2
<1>9. (some = <<>>) <=> (places = {})
  <2>1. places = {} <=> Cardinality(places) = 0
    BY <1>2, FS_EmptySet
  <2>2. some = <<>> <=> Len(some) = 0
    <3>1. some \in Seq({es[i] : i \in DOMAIN es})
      <4>1. some \in [1 .. Cardinality(places) -> {es[i] : i \in DOMAIN es}]
        BY <1>3, <1>5
      <4>2. QED
        BY <1>3, <4>1
    <3>2. QED
      BY <3>1
  <2>3. QED
    BY <1>6, <2>1, <2>2
<1>10. SortedById(es) => SortedById(some)
  BY <1>3, <1>5 DEF SortedById
<1>11. QED
  BY <1>7, <1>8, <1>9, <1>10 DEF some

LEMMA IdsAreFinite ==
  ASSUME NEW es, IsEntities(es)
  PROVE  IsFiniteSet(Ids(es)) /\ Ids(es) \subseteq Nat /\ Ids(es) = {e.id : e \in Range(es)}
<1> DEFINE f == [i \in DOMAIN es |-> es[i].id]
<1>1. DOMAIN es = 1 .. Len(es) /\ Len(es) \in Nat /\ \A i \in DOMAIN es : es[i].id \in Nat
  BY DEF IsEntities
<1>2. IsFiniteSet(DOMAIN es)
  <2>1. IsFiniteSet(1 .. Len(es))
    BY <1>1, FS_Interval
  <2>2. QED
    BY <1>1, <2>1
<1>3. f \in Surjection(DOMAIN es, Ids(es))
  BY DEF Surjection, Ids
<1>4. IsFiniteSet(Ids(es))
  <2> HIDE DEF f
  <2>1. QED
    BY <1>2, <1>3, FS_Surjection
<1>5. Ids(es) \subseteq Nat
  BY <1>1 DEF Ids
<1>6. Ids(es) = {e.id : e \in Range(es)}
  BY DEF Ids, Range
<1>7. QED
  BY <1>4, <1>5, <1>6

-----------------------------------------------------------------------------
(* Applying a delta. *)

Written(update, c) == UNION {Range(u.fields) : u \in {u \in Range(update.components) : u.id = c}}

(* The value of field i after a set of writes to a component. *)
Overlaid(writes, i, old) ==
  IF \E f \in writes : f[1] = i THEN (CHOOSE f \in writes : f[1] = i)[2] ELSE old

(* An update changes the values of the fields it names, and nothing else.  *)
LEMMA UpdatedIs ==
  ASSUME NEW e, IsEntity(e), NEW update
  PROVE  LET new == UpdatedEntity(e, update) IN
         /\ IsEntity(new) /\ new.id = e.id
         /\ DOMAIN new.components = DOMAIN e.components
         /\ \A c \in DOMAIN e.components :
              /\ DOMAIN new.components[c] = DOMAIN e.components[c]
              /\ \A i \in DOMAIN e.components[c] :
                   new.components[c][i] = Overlaid(Written(update, c), i, e.components[c][i])
<1> DEFINE new == UpdatedEntity(e, update)
           value(c, i) == IF \E f \in Written(update, c) : f[1] = i
                          THEN (CHOOSE f \in Written(update, c) : f[1] = i)[2]
                          ELSE e.components[c][i]
           components == [c \in DOMAIN e.components |->
                            [i \in DOMAIN e.components[c] |-> value(c, i)]]
<1>1. new = [e EXCEPT !.components = components]
  BY Zenon DEF UpdatedEntity, Written
<1>2. new = [id |-> e.id, components |-> components]
  <2> HIDE DEF components, new
  <2>1. e = [id |-> e.id, components |-> e.components]
    BY DEF IsEntity
  <2>2. QED
    BY <1>1, <2>1
<1> HIDE DEF new, value
<1>3. new.id = e.id /\ new.components = components
  BY <1>2
<1>4. \A c \in DOMAIN e.components :
        /\ DOMAIN components[c] = DOMAIN e.components[c]
        /\ \A i \in DOMAIN e.components[c] : components[c][i] = value(c, i)
  OBVIOUS
<1>5. DOMAIN components = DOMAIN e.components
  OBVIOUS
<1>6. components = [c \in DOMAIN components |-> components[c]]
  OBVIOUS
<1> HIDE DEF components
<1>7. IsEntity(new)
  BY <1>2, <1>3, <1>6 DEF IsEntity
<1>8. QED
  <2>1. \A c \in DOMAIN e.components : \A i \in DOMAIN e.components[c] :
          value(c, i) = Overlaid(Written(update, c), i, e.components[c][i])
    BY Zenon DEF value, Overlaid
  <2>2. QED
    BY <1>3, <1>4, <1>5, <1>7, <2>1 DEF new

UpdatesOf(updates, id) == {n \in DOMAIN updates : updates[n].id = id}

(* Updates leave the entities that there are and their order.              *)
AreUpdated(es, updates, applied) ==
  /\ IsEntities(applied) /\ DOMAIN applied = DOMAIN es
  /\ \A i \in DOMAIN es :
       /\ applied[i].id = es[i].id
       /\ UpdatesOf(updates, es[i].id) = {} => applied[i] = es[i]
       /\ UpdatesOf(updates, es[i].id) # {} =>
            applied[i] = UpdatedEntity(es[i], updates[Min(UpdatesOf(updates, es[i].id))])

LEMMA UpdatesApplied ==
  ASSUME NEW es, IsEntities(es), NEW updates, ApplyUpdates(es, updates).ok
  PROVE  AreUpdated(es, updates, ApplyUpdates(es, updates).val)
<1> DEFINE mine(i) == UpdatesOf(updates, es[i].id)
           applied == [i \in DOMAIN es |->
                         IF mine(i) = {} THEN es[i] ELSE UpdatedEntity(es[i], updates[Min(mine(i))])]
           error == FirstError([n \in DOMAIN updates |-> UpdateError(es, updates[n])])
<1>1. ApplyUpdates(es, updates) = Checked(error, applied)
  BY DEF ApplyUpdates, UpdatesOf
<1>2. ApplyUpdates(es, updates).val = applied
  <2> HIDE DEF error, applied
  <2>1. QED
    BY <1>1 DEF Checked, Ok, Err
<1>3. /\ DOMAIN applied = DOMAIN es
      /\ \A i \in DOMAIN es :
           /\ mine(i) = {} => applied[i] = es[i]
           /\ mine(i) # {} => applied[i] = UpdatedEntity(es[i], updates[Min(mine(i))])
  OBVIOUS
<1>4. applied = [i \in DOMAIN applied |-> applied[i]]
  OBVIOUS
<1>5. /\ Len(es) \in Nat /\ DOMAIN es = 1 .. Len(es)
      /\ \A i \in DOMAIN es : IsEntity(es[i]) /\ es[i].id \in Nat
  BY DEF IsEntities
<1> HIDE DEF applied, mine
<1>6. \A i \in DOMAIN es : IsEntity(applied[i]) /\ applied[i].id = es[i].id
  BY <1>3, <1>5, UpdatedIs
<1>7. Len(applied) = Len(es)
  <2>1. applied \in [1 .. Len(es) -> {applied[i] : i \in DOMAIN es}]
    BY <1>3, <1>4, <1>5
  <2>2. applied \in Seq({applied[i] : i \in DOMAIN es})
    BY <1>5, <2>1
  <2>3. QED
    BY <1>3, <1>5, <2>2
<1>8. IsEntities(applied)
  BY <1>3, <1>4, <1>5, <1>6, <1>7 DEF IsEntities
<1>9. QED
  BY <1>2, <1>3, <1>6, <1>8 DEF AreUpdated, mine

(* Destroyed entities are gone, created ones are put in order.             *)
LEMMA DestroysApplied ==
  ASSUME NEW es, IsEntities(es), NEW destroys, ApplyDestroys(es, destroys).ok
  PROVE  LET kept == ApplyDestroys(es, destroys).val
             places == {i \in DOMAIN es : \A n \in DOMAIN destroys : destroys[n] # es[i].id}
         IN IsEntities(kept) /\ Range(kept) = {es[i] : i \in places}
<1> DEFINE places == {i \in DOMAIN es : \A n \in DOMAIN destroys : destroys[n] # es[i].id}
           error == IF \E n \in DOMAIN destroys : destroys[n] \notin Ids(es)
                    THEN "EntityNotFound" ELSE None
<1>1. ApplyDestroys(es, destroys) = Checked(error, ElementsAt(es, places))
  BY DEF ApplyDestroys
<1>2. ApplyDestroys(es, destroys).val = ElementsAt(es, places)
  <2> HIDE DEF error, places
  <2>1. QED
    BY <1>1 DEF Checked, Ok, Err
<1>3. places \subseteq DOMAIN es
  OBVIOUS
<1> HIDE DEF places
<1>4. IsEntities(ElementsAt(es, places)) /\ Range(ElementsAt(es, places)) = {es[i] : i \in places}
  BY <1>3, ElementsAtIs
<1>5. QED
  BY <1>2, <1>4 DEF places

LEMMA CreatesApplied ==
  ASSUME NEW es, IsEntities(es), NEW creates, IsEntities(creates), ApplyCreates(es, creates).ok
  PROVE  LET all == ApplyCreates(es, creates).val IN
         /\ IsEntities(all) /\ SortedById(all)
         /\ Ids(all) = Ids(es) \cup Ids(creates)
         /\ \A n \in DOMAIN all : all[n] \in Range(es) \cup Range(creates)
         /\ Ids(es) \cap Ids(creates) = {}
<1> DEFINE E == Range(es) \cup Range(creates)
           error == IF Ids(es) \cap Ids(creates) # {} THEN "EntityAlreadyExists" ELSE None
<1>1. ApplyCreates(es, creates) = Checked(error, InOrder(E))
  BY DEF ApplyCreates
<1>2. ApplyCreates(es, creates).val = InOrder(E) /\ error = None
  <2> HIDE DEF error, E
  <2>1. QED
    BY <1>1 DEF Checked, Ok, Err
<1>3. {e.id : e \in E} = Ids(es) \cup Ids(creates)
  BY IdsAreFinite
<1>4. IsFiniteSet(Ids(es) \cup Ids(creates))
  BY IdsAreFinite, FS_Union
<1>5. \A e \in E : IsEntity(e) /\ e.id \in Nat
  BY DEF IsEntities, Range
<1>6. Ids(es) \cap Ids(creates) = {}
  BY <1>2 DEF None
<1> HIDE DEF E
<1>7. /\ IsEntities(InOrder(E)) /\ SortedById(InOrder(E))
      /\ Ids(InOrder(E)) = {e.id : e \in E}
      /\ \A n \in DOMAIN InOrder(E) : InOrder(E)[n] \in E
  BY <1>3, <1>4, <1>5, InOrderIs
<1>8. QED
  BY <1>2, <1>3, <1>6, <1>7 DEF E

(* A delta leaves the entities in order, whatever its updates.             *)
LEMMA AppliedInOrder ==
  ASSUME NEW lim, NEW base, IsEntities(base), NEW delta, IsEntities(delta.creates),
         ApplyDecoded(lim, base, delta).ok
  PROVE  /\ IsEntities(ApplyDecoded(lim, base, delta).val)
         /\ SortedById(ApplyDecoded(lim, base, delta).val)
<1> DEFINE kept == ApplyDestroys(base, delta.destroys)
           all == ApplyCreates(kept.val, delta.creates)
           applied == ApplyUpdates(all.val, delta.updates)
<1>1. kept.ok /\ all.ok /\ applied.ok /\ ApplyDecoded(lim, base, delta) = applied
  BY AppliedDecoded
<1>2. IsEntities(kept.val)
  BY <1>1, DestroysApplied
<1> HIDE DEF kept
<1>3. IsEntities(all.val) /\ SortedById(all.val)
  BY <1>1, <1>2, CreatesApplied
<1> HIDE DEF all
<1>4. /\ IsEntities(applied.val) /\ DOMAIN applied.val = DOMAIN all.val
      /\ \A i \in DOMAIN all.val : applied.val[i].id = all.val[i].id
  BY <1>1, <1>3, UpdatesApplied DEF AreUpdated
<1> HIDE DEF applied
<1>5. SortedById(applied.val)
  BY <1>3, <1>4 DEF SortedById
<1>6. QED
  BY <1>1, <1>4, <1>5

-----------------------------------------------------------------------------
(* The types of the state. *)

IsWorld(w) ==
  /\ w = [e \in DOMAIN w |-> w[e]]
  /\ DOMAIN w \subseteq DOMAIN Forms
  /\ \A e \in DOMAIN w :
       /\ w[e] = [c \in DOMAIN w[e] |-> w[e][c]]
       /\ DOMAIN w[e] \subseteq DOMAIN Values
       /\ \A c \in DOMAIN w[e] :
            /\ w[e][c] = [i \in DOMAIN Values[c] |-> w[e][c][i]]
            /\ \A i \in DOMAIN Values[c] : w[e][c][i] \in Values[c][i]

Typed ==
  /\ \E s \in Setups : schema = s.schema /\ limits = s.limits
  /\ IsWorld(world)
  /\ sent.tick \in 0 .. MaxTick
  /\ age \in 0 .. sent.tick
  /\ IsEntities(replica.entities) /\ SortedById(replica.entities)

LEMMA SchemaIsValid ==
  ASSUME Typed
  PROVE  ValidSchema(schema)
BY StreamAssumption DEF Typed, ValidSchema

(* The snapshot the sender takes is in order. *)
LEMMA CurrentIs ==
  ASSUME IsWorld(world)
  PROVE  /\ IsEntities(Current.entities) /\ SortedById(Current.entities)
         /\ Ids(Current.entities) = DOMAIN world
         /\ \A n \in DOMAIN Current.entities :
              /\ Current.entities[n].id \in DOMAIN world
              /\ Current.entities[n].components = world[Current.entities[n].id]
         /\ Current.tick = sent.tick + 1
<1> DEFINE E == {[id |-> e, components |-> world[e]] : e \in DOMAIN world}
<1>1. Current.entities = InOrder(E) /\ Current.tick = sent.tick + 1
  BY DEF Current
<1>2. {x.id : x \in E} = DOMAIN world
  <2>1. \A x \in E : x.id \in DOMAIN world
    OBVIOUS
  <2>2. ASSUME NEW e \in DOMAIN world
        PROVE  \E x \in E : x.id = e
    <3> DEFINE x == [id |-> e, components |-> world[e]]
    <3>1. x \in E /\ x.id = e
      OBVIOUS
    <3> HIDE DEF x, E
    <3>2. QED
      BY <3>1
  <2> HIDE DEF E
  <2>3. QED
    BY <2>1, <2>2
<1>3. IsFiniteSet(DOMAIN world) /\ DOMAIN world \subseteq Nat
  <2>1. DOMAIN world \in SUBSET DOMAIN Forms
    BY DEF IsWorld
  <2>2. QED
    BY <2>1, StreamAssumption, FS_Subset
<1>4. ASSUME NEW e \in DOMAIN world, NEW x, x = [id |-> e, components |-> world[e]]
      PROVE  IsEntity(x) /\ x.id = e /\ x.components = world[e] /\ x.id \in Nat
  <2>1. x.id = e /\ x.components = world[e]
    BY <1>4
  <2>2. world[e] = [c \in DOMAIN world[e] |-> world[e][c]]
    BY DEF IsWorld
  <2>3. IsEntity(x)
    BY <1>4, <2>1, <2>2 DEF IsEntity
  <2>4. QED
    BY <2>1, <2>3, <1>3
<1>5. \A x \in E : /\ IsEntity(x) /\ x.id \in Nat
                  /\ x.id \in DOMAIN world /\ x.components = world[x.id]
  BY <1>4
<1> HIDE DEF E
<1>6. /\ IsEntities(InOrder(E)) /\ SortedById(InOrder(E))
      /\ Ids(InOrder(E)) = {x.id : x \in E}
      /\ \A n \in DOMAIN InOrder(E) : InOrder(E)[n] \in E
  BY <1>2, <1>3, <1>5, InOrderIs
<1>7. QED
  BY <1>1, <1>2, <1>5, <1>6

(* The world keeps its types while it changes. *)
LEMMA FirstValuesAre ==
  ASSUME NEW c \in DOMAIN Values
  PROVE  /\ FirstValues(c) = [i \in DOMAIN Values[c] |-> FirstValues(c)[i]]
         /\ \A i \in DOMAIN Values[c] : FirstValues(c)[i] \in Values[c][i]
BY StreamAssumption DEF FirstValues

LEMMA WorldStaysTyped ==
  ASSUME IsWorld(world),
         \/ \E e \in DOMAIN Forms : Leave(e) \/ \E form \in Forms[e] : Enter(e, form) \/ Reshape(e, form)
         \/ \E e \in DOMAIN Forms, c \in DOMAIN Values : \E i \in DOMAIN Values[c] :
              \E v \in Values[c][i] : SetField(e, c, i, v)
  PROVE  IsWorld(world')
<1>1. ASSUME NEW e \in DOMAIN Forms, Leave(e)
      PROVE  IsWorld(world')
  BY <1>1 DEF Leave, Restrict, IsWorld
<1>2. ASSUME NEW e \in DOMAIN Forms, NEW form \in Forms[e], Enter(e, form)
      PROVE  IsWorld(world')
  <2> DEFINE new == [c \in form |-> FirstValues(c)]
  <2>1. form \subseteq DOMAIN Values
    BY StreamAssumption
  <2>2. /\ new = [c \in DOMAIN new |-> new[c]] /\ DOMAIN new \subseteq DOMAIN Values
        /\ \A c \in DOMAIN new :
             /\ new[c] = [i \in DOMAIN Values[c] |-> new[c][i]]
             /\ \A i \in DOMAIN Values[c] : new[c][i] \in Values[c][i]
    BY <2>1, FirstValuesAre
  <2>3. world' = [x \in DOMAIN world \cup {e} |-> IF x = e THEN new ELSE world[x]]
    BY <1>2 DEF Enter
  <2> HIDE DEF new
  <2>4. DOMAIN world' = DOMAIN world \cup {e} /\ world' = [x \in DOMAIN world' |-> world'[x]]
    BY <2>3
  <2>5. ASSUME NEW x \in DOMAIN world'
        PROVE  /\ world'[x] = [c \in DOMAIN world'[x] |-> world'[x][c]]
               /\ DOMAIN world'[x] \subseteq DOMAIN Values
               /\ \A c \in DOMAIN world'[x] :
                    /\ world'[x][c] = [i \in DOMAIN Values[c] |-> world'[x][c][i]]
                    /\ \A i \in DOMAIN Values[c] : world'[x][c][i] \in Values[c][i]
    <3>1. CASE x = e
      BY <2>2, <2>3, <3>1
    <3>2. CASE x # e
      <4>1. x \in DOMAIN world /\ world'[x] = world[x]
        BY <2>3, <3>2
      <4>2. QED
        BY <4>1 DEF IsWorld
    <3>3. QED
      BY <3>1, <3>2
  <2>6. QED
    BY <2>4, <2>5 DEF IsWorld
<1>3. ASSUME NEW e \in DOMAIN Forms, NEW form \in Forms[e], Reshape(e, form)
      PROVE  IsWorld(world')
  <2> DEFINE new == [c \in form |-> IF c \in DOMAIN world[e] THEN world[e][c] ELSE FirstValues(c)]
  <2>1. form \subseteq DOMAIN Values
    BY StreamAssumption
  <2>2. e \in DOMAIN world /\ world' = [world EXCEPT ![e] = new]
    BY <1>3 DEF Reshape
  <2>3. ASSUME NEW c \in form
        PROVE  /\ new[c] = [i \in DOMAIN Values[c] |-> new[c][i]]
               /\ \A i \in DOMAIN Values[c] : new[c][i] \in Values[c][i]
    <3>1. CASE c \in DOMAIN world[e]
      <4>1. new[c] = world[e][c]
        BY <3>1
      <4> HIDE DEF new
      <4>2. QED
        BY <2>2, <3>1, <4>1 DEF IsWorld
    <3>2. CASE c \notin DOMAIN world[e]
      <4>1. new[c] = FirstValues(c)
        BY <3>2
      <4> HIDE DEF new
      <4>2. QED
        BY <2>1, <4>1, FirstValuesAre
    <3>3. QED
      BY <3>1, <3>2
  <2>4. new = [c \in DOMAIN new |-> new[c]] /\ DOMAIN new = form
    OBVIOUS
  <2> HIDE DEF new
  <2>5. DOMAIN world' = DOMAIN world /\ world' = [x \in DOMAIN world' |-> world'[x]]
    BY <2>2 DEF IsWorld
  <2>6. ASSUME NEW x \in DOMAIN world'
        PROVE  /\ world'[x] = [c \in DOMAIN world'[x] |-> world'[x][c]]
               /\ DOMAIN world'[x] \subseteq DOMAIN Values
               /\ \A c \in DOMAIN world'[x] :
                    /\ world'[x][c] = [i \in DOMAIN Values[c] |-> world'[x][c][i]]
                    /\ \A i \in DOMAIN Values[c] : world'[x][c][i] \in Values[c][i]
    <3>1. CASE x = e
      <4>1. world'[x] = new
        BY <2>2, <2>5, <3>1
      <4>2. QED
        BY <2>1, <2>3, <2>4, <4>1
    <3>2. CASE x # e
      <4>1. x \in DOMAIN world /\ world'[x] = world[x]
        BY <2>2, <2>5, <3>2
      <4>2. QED
        BY <4>1 DEF IsWorld
    <3>3. QED
      BY <3>1, <3>2
  <2>7. QED
    BY <2>5, <2>6 DEF IsWorld
<1>4. ASSUME NEW e \in DOMAIN Forms, NEW c \in DOMAIN Values, NEW i \in DOMAIN Values[c],
             NEW v \in Values[c][i], SetField(e, c, i, v)
      PROVE  IsWorld(world')
  <2> DEFINE values == [world[e][c] EXCEPT ![i] = v]
             new == [world[e] EXCEPT ![c] = values]
  <2>1. e \in DOMAIN world /\ c \in DOMAIN world[e] /\ world' = [world EXCEPT ![e] = new]
    BY <1>4 DEF SetField
  <2>2. /\ values = [n \in DOMAIN Values[c] |-> values[n]]
        /\ \A n \in DOMAIN Values[c] : values[n] \in Values[c][n]
    <3>1. /\ world[e][c] = [n \in DOMAIN Values[c] |-> world[e][c][n]]
          /\ \A n \in DOMAIN Values[c] : world[e][c][n] \in Values[c][n]
      BY <2>1 DEF IsWorld
    <3>2. QED
      BY <3>1
  <2> HIDE DEF values
  <2>3. DOMAIN new = DOMAIN world[e] /\ new = [k \in DOMAIN new |-> new[k]]
    BY <2>1 DEF IsWorld
  <2>4. ASSUME NEW k \in DOMAIN new
        PROVE  /\ new[k] = [n \in DOMAIN Values[k] |-> new[k][n]]
               /\ \A n \in DOMAIN Values[k] : new[k][n] \in Values[k][n]
    <3>1. CASE k = c
      <4>1. new[k] = values
        BY <2>1, <3>1
      <4> HIDE DEF new
      <4>2. QED
        BY <2>2, <3>1, <4>1
    <3>2. CASE k # c
      <4>1. k \in DOMAIN world[e] /\ new[k] = world[e][k]
        BY <2>3, <3>2
      <4> HIDE DEF new
      <4>2. QED
        BY <2>1, <4>1 DEF IsWorld
    <3>3. QED
      BY <3>1, <3>2
  <2>5. DOMAIN new \subseteq DOMAIN Values
    BY <2>1, <2>3 DEF IsWorld
  <2> HIDE DEF new
  <2>6. DOMAIN world' = DOMAIN world /\ world' = [x \in DOMAIN world' |-> world'[x]]
    BY <2>1 DEF IsWorld
  <2>7. ASSUME NEW x \in DOMAIN world'
        PROVE  /\ world'[x] = [k \in DOMAIN world'[x] |-> world'[x][k]]
               /\ DOMAIN world'[x] \subseteq DOMAIN Values
               /\ \A k \in DOMAIN world'[x] :
                    /\ world'[x][k] = [n \in DOMAIN Values[k] |-> world'[x][k][n]]
                    /\ \A n \in DOMAIN Values[k] : world'[x][k][n] \in Values[k][n]
    <3>1. CASE x = e
      <4>1. world'[x] = new
        BY <2>1, <2>6, <3>1
      <4>2. QED
        BY <2>3, <2>4, <2>5, <4>1
    <3>2. CASE x # e
      <4>1. x \in DOMAIN world /\ world'[x] = world[x]
        BY <2>1, <2>6, <3>2
      <4>2. QED
        BY <4>1 DEF IsWorld
    <3>3. QED
      BY <3>1, <3>2
  <2>8. QED
    BY <2>6, <2>7 DEF IsWorld
<1>5. QED
  BY <1>1, <1>2, <1>3, <1>4

-----------------------------------------------------------------------------
(* The packets keep the types. *)

LEMMA EntitiesAreASequence ==
  ASSUME NEW es, IsEntities(es)
  PROVE  es \in Seq({es[i] : i \in DOMAIN es}) /\ \A i \in DOMAIN es : IsEntity(es[i])
<1>1. Len(es) \in Nat /\ DOMAIN es = 1 .. Len(es) /\ es = [i \in DOMAIN es |-> es[i]]
  BY DEF IsEntities
<1>2. es \in [1 .. Len(es) -> {es[i] : i \in DOMAIN es}]
  BY <1>1
<1>3. es \in Seq({es[i] : i \in DOMAIN es})
  BY <1>1, <1>2
<1>4. QED
  BY <1>3 DEF IsEntities

(* The full snapshot of the current world arrives as it is. *)
LEMMA CurrentRoundTrips ==
  ASSUME Typed, EncodeFullSnapshot(schema, limits, sent.tick + 1, Current.entities).ok
  PROVE  DecodeFullSnapshot(schema, limits,
           EncodeFullSnapshot(schema, limits, sent.tick + 1, Current.entities).val) = Ok(Current)
<1>1. ValidSchema(schema)
  BY SchemaIsValid
<1>2. IsEntities(Current.entities)
  BY CurrentIs DEF Typed
<1>3. /\ Current.entities \in Seq({Current.entities[i] : i \in DOMAIN Current.entities})
      /\ \A i \in DOMAIN Current.entities : IsEntity(Current.entities[i])
  BY <1>2, EntitiesAreASequence
<1>4. DecodeFullSnapshot(schema, limits,
        EncodeFullSnapshot(schema, limits, sent.tick + 1, Current.entities).val)
          = Ok([tick |-> sent.tick + 1, entities |-> Current.entities])
  BY <1>1, <1>3, FullRoundTrip
<1>5. Current = [tick |-> sent.tick + 1, entities |-> Current.entities]
  BY DEF Current
<1>6. QED
  BY <1>4, <1>5

(* What the receiver has after a delta against the snapshot last sent, and *)
(* after the updates of the dirty fields.                                  *)
LEMMA DeltaArrives ==
  ASSUME Typed, NEW encoding \in Encodings \cup {"Auto"}, NEW packet,
         packet = EncodeDelta(schema, limits, encoding, sent.tick, sent, Current), packet.ok,
         ApplyDelta(schema, limits, replica, packet.val).ok
  PROVE  /\ IsEntities(ApplyDelta(schema, limits, replica, packet.val).val.entities)
         /\ SortedById(ApplyDelta(schema, limits, replica, packet.val).val.entities)
<1> DEFINE destroyed == Destroyed(sent.entities, Current.entities)
           created == Created(sent.entities, Current.entities)
           pairs == Updated(schema, sent.entities, Current.entities)
           diff == EncodeDiff(schema, limits, encoding, destroyed, created, pairs)
           sections == packet.val.sections
           said == DecodeDeltaSections(schema, limits, sections)
           applied == ApplyDecoded(limits, replica.entities, said.val)
<1>1. diff.ok /\ packet.val = DeltaRecord(schema, Current.tick, sent.tick, diff.val)
  BY EncodedDelta
<1>2. sections = diff.val
  BY <1>1 DEF DeltaRecord
<1>3. /\ said.ok /\ applied.ok
      /\ ApplyDelta(schema, limits, replica, packet.val).val =
           [tick |-> packet.val.tick, entities |-> applied.val]
  BY AppliedDelta
<1>4. IsEntities(created)
  <2>1. IsEntities(Current.entities)
    BY CurrentIs DEF Typed
  <2>2. QED
    BY <2>1, ElementsAtIs DEF Created
<1> HIDE DEF destroyed, created, pairs, sections
<1>5. PICK tag \in UpdateTags :
        sections = Joined(OneFor(destroyed, "Destroy", destroyed),
                          OneFor(created, "Create", Body(schema, created)),
                          OneFor(pairs, tag, UpdateBody(schema, limits, tag, pairs).val))
  <2>1. DOMAIN created \subseteq Nat
    BY <1>4 DEF IsEntities
  <2>2. \E tag \in UpdateTags :
          IsDiff(schema, limits, encoding, destroyed, created, pairs, tag,
                 EncodeDiff(schema, limits, encoding, destroyed, created, pairs).val)
    BY ONLY <1>1, <2>1, encoding \in Encodings \cup {"Auto"}, DiffIs
  <2>3. QED
    BY <1>2, <2>2 DEF IsDiff
<1>6. created # <<>> => \A i \in DOMAIN created : ComponentsError(schema, limits, created[i]) = None
  <2>1. DOMAIN created \subseteq Nat
    BY <1>4 DEF IsEntities
  <2>2. QED
    BY <1>1, <2>1, DiffIs
<1>7. /\ created # <<>> => DecodeDeltaCreateSection(schema, limits, Body(schema, created)).ok
      /\ said.val.creates = IF created = <<>> THEN <<>>
                            ELSE DecodeDeltaCreateSection(schema, limits, Body(schema, created)).val
  BY <1>3, <1>5, DeltaDecoded
<1>8. said.val.creates = created
  <2>1. CASE created = <<>>
    BY <1>7, <2>1
  <2>2. CASE created # <<>>
    <3>1. ValidSchema(schema)
      BY SchemaIsValid
    <3>2. \A i \in DOMAIN created : DOMAIN created[i].components \subseteq ComponentIds(schema)
      BY <1>6, <2>2, <3>1, ComponentsAre
    <3>3. QED
      BY <1>4, <1>7, <2>2, <3>1, <3>2, CreatesReadBack
  <2>3. QED
    BY <2>1, <2>2
<1> HIDE DEF said, applied
<1>9. IsEntities(applied.val) /\ SortedById(applied.val)
  <2>1. IsEntities(replica.entities)
    BY DEF Typed
  <2>2. QED
    BY <1>3, <1>4, <1>8, <2>1, AppliedInOrder DEF applied
<1>10. QED
  BY <1>3, <1>9

LEMMA UpdatesArrive ==
  ASSUME Typed, NEW updates, NEW packet,
         packet = EncodeFromUpdates(schema, limits, sent.tick + 1, sent.tick, <<>>, <<>>, updates),
         packet.ok, ApplyDelta(schema, limits, replica, packet.val).ok
  PROVE  /\ IsEntities(ApplyDelta(schema, limits, replica, packet.val).val.entities)
         /\ SortedById(ApplyDelta(schema, limits, replica, packet.val).val.entities)
<1> DEFINE sections == packet.val.sections
           said == DecodeDeltaSections(schema, limits, sections)
           applied == ApplyDecoded(limits, replica.entities, said.val)
<1>1. sections = Joined(OneFor(<<>>, "Destroy", <<>>), OneFor(<<>>, "Create", Body(schema, <<>>)),
                        OneFor(updates, "UpdateSparsePacked",
                                  EncodeUpdateList(schema, limits, updates).val))
  <2> DEFINE all == Joined(OneFor(<<>>, "Destroy", <<>>), OneFor(<<>>, "Create", Body(schema, <<>>)),
                           OneFor(updates, "UpdateSparsePacked",
                                  EncodeUpdateList(schema, limits, updates).val))
  <2>1. EncodeFromUpdates(schema, limits, sent.tick + 1, sent.tick, <<>>, <<>>, updates).ok
    OBVIOUS
  <2>2. EncodeFromUpdates(schema, limits, sent.tick + 1, sent.tick, <<>>, <<>>, updates).val =
          DeltaRecord(schema, sent.tick + 1, sent.tick, all)
    BY ONLY <2>1, EncodedUpdates
  <2> HIDE DEF all
  <2>3. sections = all
    BY <2>2 DEF DeltaRecord
  <2>4. QED
    BY <2>3 DEF all
<1>2. /\ said.ok /\ applied.ok
      /\ ApplyDelta(schema, limits, replica, packet.val).val =
           [tick |-> packet.val.tick, entities |-> applied.val]
  BY AppliedDelta
<1> HIDE DEF sections
<1>3. said.val.creates = <<>>
  <2>1. "UpdateSparsePacked" \in UpdateTags
    BY DEF UpdateTags
  <2>2. QED
    BY <1>1, <1>2, <2>1, DeltaDecoded
<1>4. IsEntities(<<>>)
  BY DEF IsEntities
<1> HIDE DEF said, applied
<1>5. IsEntities(applied.val) /\ SortedById(applied.val)
  <2>1. IsEntities(replica.entities)
    BY DEF Typed
  <2>2. QED
    BY <1>2, <1>3, <1>4, <2>1, AppliedInOrder DEF applied
<1>6. QED
  BY <1>2, <1>5

LEMMA InitiallyTyped ==
  ASSUME Init
  PROVE  Typed
<1>1. IsWorld(world)
  BY DEF Init, IsWorld
<1>2. sent.tick = 0 /\ age = 0 /\ replica.entities = <<>>
  BY DEF Init, NoSnapshot
<1>3. IsEntities(<<>>) /\ SortedById(<<>>)
  BY DEF IsEntities, SortedById
<1>4. QED
  BY <1>1, <1>2, <1>3, StreamAssumption DEF Init, Typed

LEMMA StaysTyped ==
  ASSUME Typed, [Next]_vars
  PROVE  Typed'
<1>1. MaxTick \in Nat
  BY StreamAssumption
<1>2. CASE \/ \E e \in DOMAIN Forms :
                Leave(e) \/ \E form \in Forms[e] : Enter(e, form) \/ Reshape(e, form)
           \/ \E e \in DOMAIN Forms, c \in DOMAIN Values : \E i \in DOMAIN Values[c] :
                \E v \in Values[c][i] : SetField(e, c, i, v)
  <2>1. IsWorld(world')
    BY <1>2, WorldStaysTyped DEF Typed
  <2>2. UNCHANGED <<setup, sent, replica, age>>
    BY <1>2 DEF Leave, Enter, Reshape, SetField
  <2>3. QED
    BY <2>1, <2>2 DEF Typed, setup
<1>3. ASSUME NEW applied, NEW newAge \in 0 .. sent.tick + 1, sent.tick < MaxTick,
             Deliver(applied, newAge),
             IsEntities(applied.val.entities), SortedById(applied.val.entities)
      PROVE  Typed'
  <2>1. /\ schema' = schema /\ limits' = limits /\ world' = world
        /\ sent' = Current /\ replica' = applied.val /\ age' = newAge
    BY <1>3 DEF Deliver, setup
  <2>2. sent'.tick = sent.tick + 1
    BY <2>1 DEF Current
  <2>3. /\ \E s \in Setups : schema' = s.schema /\ limits' = s.limits
        /\ IsWorld(world')
        /\ sent.tick \in 0 .. MaxTick
    BY <2>1 DEF Typed
  <2>4. sent'.tick \in 0 .. MaxTick /\ age' \in 0 .. sent'.tick
    BY <1>1, <1>3, <2>1, <2>2, <2>3
  <2>5. IsEntities(replica'.entities) /\ SortedById(replica'.entities)
    BY <1>3, <2>1
  <2>6. QED
    BY <2>3, <2>4, <2>5 DEF Typed
<1>4. age \in 0 .. sent.tick /\ sent.tick \in 0 .. MaxTick
  BY DEF Typed
<1>5. CASE SendFull
  <2> DEFINE packet == EncodeFullSnapshot(schema, limits, sent.tick + 1, Current.entities)
             applied == IF packet.ok THEN DecodeFullSnapshot(schema, limits, packet.val) ELSE packet
  <2>1. sent.tick < MaxTick /\ Deliver(applied, 0)
    BY <1>5 DEF SendFull, AndThen
  <2>2. packet.ok
    <3>1. applied.ok
      BY <2>1 DEF Deliver
    <3> HIDE DEF packet
    <3>2. QED
      BY <3>1
  <2>3. applied = Ok(Current)
    BY <2>2, CurrentRoundTrips
  <2>4. applied.val.entities = Current.entities
    <3> HIDE DEF applied
    <3>1. QED
      BY <2>3 DEF Ok
  <2>5. IsEntities(Current.entities) /\ SortedById(Current.entities)
    BY CurrentIs DEF Typed
  <2>6. 0 \in 0 .. sent.tick + 1
    BY <1>1, <1>4
  <2> HIDE DEF applied
  <2>7. QED
    BY <1>3, <2>1, <2>4, <2>5, <2>6
<1>6. ASSUME NEW encoding \in {"Auto", "SparsePacked"}, SendDelta(encoding)
      PROVE  Typed'
  <2> DEFINE packet == EncodeDelta(schema, limits, encoding, sent.tick, sent, Current)
             applied == IF packet.ok THEN ApplyDelta(schema, limits, replica, packet.val) ELSE packet
  <2>1. sent.tick \in 1 .. MaxTick - 1 /\ Deliver(applied, age + 1)
    BY <1>6 DEF SendDelta, AndThen
  <2>2. packet.ok /\ applied = ApplyDelta(schema, limits, replica, packet.val) /\ applied.ok
    <3>1. applied.ok
      BY <2>1 DEF Deliver
    <3> HIDE DEF packet
    <3>2. QED
      BY <3>1
  <2>3. encoding \in Encodings \cup {"Auto"}
    BY DEF Encodings
  <2>4. IsEntities(applied.val.entities) /\ SortedById(applied.val.entities)
    <3> DEFINE p == packet
    <3>1. p = EncodeDelta(schema, limits, encoding, sent.tick, sent, Current)
      OBVIOUS
    <3>2. p.ok /\ ApplyDelta(schema, limits, replica, p.val).ok
      BY <2>2
    <3> HIDE DEF p, packet, applied
    <3>3. /\ IsEntities(ApplyDelta(schema, limits, replica, p.val).val.entities)
          /\ SortedById(ApplyDelta(schema, limits, replica, p.val).val.entities)
      BY <2>3, <3>1, <3>2, DeltaArrives
    <3>4. QED
      BY <2>2, <3>3 DEF p
  <2>5. age + 1 \in 0 .. sent.tick + 1 /\ sent.tick < MaxTick
    BY <1>1, <1>4, <2>1
  <2> HIDE DEF applied
  <2>6. QED
    BY <1>3, <2>1, <2>4, <2>5
<1>7. CASE SendDirty
  <2> DEFINE encoded(u) == EncodeFromUpdates(schema, limits, sent.tick + 1, sent.tick, <<>>, <<>>, u)
             packet == encoded(DirtyUpdates.val)
             delivered == IF packet.ok THEN ApplyDelta(schema, limits, replica, packet.val) ELSE packet
             applied == IF DirtyUpdates.ok THEN delivered ELSE DirtyUpdates
  <2>1. sent.tick \in 1 .. MaxTick - 1 /\ Deliver(applied, age + 1)
    BY <1>7 DEF SendDirty, AndThen
  <2>2. packet.ok /\ applied = ApplyDelta(schema, limits, replica, packet.val) /\ applied.ok
    <3>1. applied.ok
      BY <2>1 DEF Deliver
    <3>2. applied = delivered
      <4> HIDE DEF delivered
      <4>1. QED
        BY <3>1
    <3>3. delivered.ok
      BY <3>1, <3>2
    <3>4. packet.ok
      <4> HIDE DEF packet
      <4>1. QED
        BY <3>3
    <3> HIDE DEF packet, applied
    <3>5. QED
      BY <3>1, <3>2, <3>4
  <2>3. IsEntities(applied.val.entities) /\ SortedById(applied.val.entities)
    <3> DEFINE updates == DirtyUpdates.val
               p == packet
    <3>1. p = EncodeFromUpdates(schema, limits, sent.tick + 1, sent.tick, <<>>, <<>>, updates)
      OBVIOUS
    <3>2. p.ok /\ ApplyDelta(schema, limits, replica, p.val).ok
      BY <2>2
    <3> HIDE DEF p, packet, applied, updates
    <3>3. /\ IsEntities(ApplyDelta(schema, limits, replica, p.val).val.entities)
          /\ SortedById(ApplyDelta(schema, limits, replica, p.val).val.entities)
      BY <3>1, <3>2, UpdatesArrive
    <3>4. QED
      BY <2>2, <3>3 DEF p
  <2>4. age + 1 \in 0 .. sent.tick + 1 /\ sent.tick < MaxTick
    BY <1>1, <1>4, <2>1
  <2> HIDE DEF applied
  <2>5. QED
    BY <1>3, <2>1, <2>3, <2>4
<1>8. CASE UNCHANGED vars
  BY <1>8 DEF vars, setup, Typed
<1>9. QED
  BY <1>2, <1>5, <1>6, <1>7, <1>8 DEF Next

(* The types hold in every state. *)
LEMMA TypedAlways == Spec => []Typed
<1>1. Init => Typed
  BY InitiallyTyped
<1>2. Typed /\ [Next]_vars => Typed'
  BY StaysTyped
<1>3. QED
  BY <1>1, <1>2, PTL DEF Spec

LEMMA TypedIsTypeOK ==
  ASSUME Typed
  PROVE  TypeOK
<1>1. MaxTick \in Nat
  BY StreamAssumption
<1>2. /\ DOMAIN world \subseteq DOMAIN Forms
      /\ \A e \in DOMAIN world : \A c \in DOMAIN world[e] : \A i \in DOMAIN world[e][c] :
           world[e][c][i] \in Values[c][i]
  BY DEF Typed, IsWorld
<1>3. sent.tick \in 0 .. MaxTick /\ age \in 0 .. MaxTick
  BY <1>1 DEF Typed
<1>4. EntitiesSortedError(replica.entities) = None
  BY SortedErrorIs DEF Typed
<1>5. QED
  BY <1>2, <1>3, <1>4 DEF TypeOK

(* The receiver's entities are in ascending order, whatever packets it has *)
(* accepted: full snapshots, deltas in any encoding, lists of dirty fields *)
(* (decode_create_section's order check, the merge of apply_creates).      *)
THEOREM StreamTypeCorrect == Spec => []TypeOK
<1>1. Typed => TypeOK
  BY TypedIsTypeOK
<1>2. QED
  BY <1>1, TypedAlways, PTL

(* A full snapshot of any world that the encoder accepts decodes to that   *)
(* world, for every schema that validates and all limits: what             *)
(* validate_packet of demo-sim spot-checks.                                *)
THEOREM FullSnapshotCorrect == Spec => []FullSnapshotRoundTrips
<1>1. Typed => FullSnapshotRoundTrips
  <2> SUFFICES ASSUME Typed,
                      EncodeFullSnapshot(schema, limits, sent.tick + 1, Current.entities).ok
               PROVE  LET d == DecodeFullSnapshot(schema, limits,
                             EncodeFullSnapshot(schema, limits, sent.tick + 1, Current.entities).val)
                      IN d.ok /\ d.val = Current
    BY DEF FullSnapshotRoundTrips
  <2>1. DecodeFullSnapshot(schema, limits,
          EncodeFullSnapshot(schema, limits, sent.tick + 1, Current.entities).val) = Ok(Current)
    BY CurrentRoundTrips
  <2>2. QED
    BY <2>1 DEF Ok
<1>2. QED
  BY <1>1, TypedAlways, PTL
=============================================================================
