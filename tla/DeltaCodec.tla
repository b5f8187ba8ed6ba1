----------------------------- MODULE DeltaCodec -----------------------------
(***************************************************************************)
(* Delta snapshots (src/codec/src/delta.rs): the diff of two snapshots,    *)
(* the three encodings of its updates, and how a receiver decodes and      *)
(* applies them.  The merges of sorted lists in the code are set           *)
(* operations here, after the same checks that the lists are sorted.       *)
(***************************************************************************)
EXTENDS SnapshotCodec

CONSTANT IdBits  (* bits of an id or a count, a varint, in the estimate of    *)
                 (* select_update_encoding: 8 for those below 128             *)

Abs(n) == IF n < 0 THEN -n ELSE n

RequiredBits(range) == Min({n \in 0 .. range : range < 2 ^ n})

IndexBits(component) == RequiredBits(IF component.fields = <<>> THEN 0 ELSE Len(component.fields) - 1)

(* ensure_entity_ids_sorted and ensure_entities_sorted: strictly ascending. *)
SortedError(ids) ==
  FirstError([i \in DOMAIN ids |->
    IF i > 1 /\ ids[i] <= ids[i - 1] THEN "InvalidEntityOrder" ELSE None])

EntitiesSortedError(entities) == SortedError([i \in DOMAIN entities |-> entities[i].id])

-----------------------------------------------------------------------------
(* The diff: which entities and fields changed. *)

(* field_exceeds_threshold and field_differs, whose predicate is that of a *)
(* threshold of zero.                                                      *)
FieldChanged(field, base, curr) == Abs(base - curr) > field.threshold

(* compute_field_mask_into *)
FieldMask(component, base, curr) ==
  [i \in DOMAIN component.fields |-> FieldChanged(component.fields[i], base[i], curr[i])]

ChangedFields(component, base, curr) ==
  Marked(FieldMask(component, base, curr))

Both(base, curr) == DOMAIN base.components \cap DOMAIN curr.components

(* The places in the schema of the components that both have.              *)
Shared(schema, base, curr) == {k \in DOMAIN schema : schema[k].id \in Both(base, curr)}

(* Those that changed, in schema order. *)
ChangedComponents(schema, base, curr) ==
  ElementsAt(schema, {k \in Shared(schema, base, curr) : LET c == schema[k] IN
    ChangedFields(c, base.components[c.id], curr.components[c.id]) # {}})

(* Mutant: a component that came or went is passed over. *)
PresenceError_Ignored(schema, base, curr) == None

(* ensure_component_presence_matches *)
PresenceError(schema, base, curr) ==
  IF \E c \in ComponentIds(schema) :
       (c \in DOMAIN base.components) # (c \in DOMAIN curr.components)
  THEN "InvalidMask" ELSE None

PairError(component, limits, base, curr) ==
  IF Len(base) # Len(component.fields) \/ Len(curr) # Len(component.fields) THEN "InvalidMask"
  ELSE IF Len(component.fields) > limits.fields THEN "LimitsExceeded"
  ELSE None

(* The checks of entity_has_updates, which the writers of the updates make *)
(* again.                                                                  *)
EntityDiffError(schema, limits, base, curr) ==
  Then(PresenceError(schema, base, curr),
       FirstError([k \in Shared(schema, base, curr) |-> LET c == schema[k] IN
         PairError(c, limits, base.components[c.id], curr.components[c.id])]))

HasUpdates(schema, base, curr) == ChangedComponents(schema, base, curr) # <<>>

Common(base, curr) == Ids(base) \cap Ids(curr)

(* The entities in both snapshots with an update, as pairs. *)
Updated(schema, base, curr) ==
  LET ids == Listed({id \in Common(base, curr) :
                       HasUpdates(schema, EntityOf(base, id), EntityOf(curr, id))}) IN
  [i \in DOMAIN ids |-> [base |-> EntityOf(base, ids[i]), curr |-> EntityOf(curr, ids[i])]]

Destroyed(base, curr) == Listed(Ids(base) \ Ids(curr))

Created(base, curr) == ElementsAt(curr, {i \in DOMAIN curr : curr[i].id \notin Ids(base)})

(* diff_counts *)
DiffError(schema, limits, base, curr) ==
  FirstError([id \in Common(base, curr) |->
    EntityDiffError(schema, limits, EntityOf(base, id), EntityOf(curr, id))])

-----------------------------------------------------------------------------
(* The encodings. *)

EncodeDestroyBody(limits, ids) ==
  Checked(IF Len(ids) > limits.destroy THEN "LimitsExceeded" ELSE None, ids)

(* encode_create_body of a delta: unlike a full snapshot it does not ask   *)
(* how many components there are.                                          *)
EncodeDeltaCreateBody(schema, limits, created) ==
  Checked(IF Len(created) > limits.create THEN "LimitsExceeded"
          ELSE FirstError([i \in DOMAIN created |-> ComponentsError(schema, limits, created[i])]),
          [i \in DOMAIN created |-> WireEntity(schema, created[i])])

(* Mutant: the values are written as they are. *)
WrittenValuesError_Unchecked(schema, pairs) == None

(* The values that are written must be in range; the others are not looked *)
(* at.                                                                     *)
WrittenValuesError(schema, pairs) ==
  FirstError([n \in DOMAIN pairs |->
    LET changed == ChangedComponents(schema, pairs[n].base, pairs[n].curr) IN
    FirstError([j \in DOMAIN changed |->
      LET c == changed[j]
          curr == pairs[n].curr.components[c.id] IN
      FirstError([i \in ChangedFields(c, pairs[n].base.components[c.id], curr) |->
        ValueError(c.fields[i], curr[i])])])])

(* write_update_components: a bit per component of the schema, and for     *)
(* each that is set a bit per field and the values that changed.           *)
MaskedEntry(schema, base, curr) ==
  LET changed == ChangedComponents(schema, base, curr) IN
  [id |-> curr.id,
   mask |-> [k \in DOMAIN schema |-> \E j \in DOMAIN changed : changed[j].id = schema[k].id],
   components |-> [j \in DOMAIN changed |->
     LET c == changed[j]
         mask == FieldMask(c, base.components[c.id], curr.components[c.id]) IN
     [mask |-> mask, values |-> ElementsAt(curr.components[c.id], Marked(mask))]]]

EncodeMasked(schema, limits, pairs) ==
  Checked(IF Len(pairs) > limits.update THEN "LimitsExceeded"
          ELSE WrittenValuesError(schema, pairs),
          [i \in DOMAIN pairs |-> MaskedEntry(schema, pairs[i].base, pairs[i].curr)])

(* Mutant: an index width for the field count less one, rounded down. *)
PackedIndex_TooNarrow(component, i) == 1 + ((i - 1) % (2 ^ RequiredBits((Len(component.fields) - 1) \div 2)))

(* A field index as required_bits(fields - 1) bits hold it. *)
PackedIndex(component, i) == 1 + ((i - 1) % (2 ^ IndexBits(component)))

VarintIndex(component, i) == i

(* An entry per component that changed: the index and the value of each    *)
(* of its fields that changed.                                             *)
SparseEntries(schema, pair, Index(_, _)) ==
  LET changed == ChangedComponents(schema, pair.base, pair.curr) IN
  [j \in DOMAIN changed |->
    LET c == changed[j]
        curr == pair.curr.components[c.id]
        fields == Listed(ChangedFields(c, pair.base.components[c.id], curr)) IN
    [entity |-> pair.curr.id, component |-> c.id,
     fields |-> [n \in DOMAIN fields |-> <<Index(c, fields[n]), curr[fields[n]]>>]]]

EntryLimit(limits) == limits.update * limits.components

SparseBody(schema, limits, pairs, Index(_, _)) ==
  LET entries == FlattenSeq([i \in DOMAIN pairs |-> SparseEntries(schema, pairs[i], Index)]) IN
  Checked(IF Len(pairs) > limits.update \/ Len(entries) > EntryLimit(limits)
          THEN "LimitsExceeded" ELSE WrittenValuesError(schema, pairs),
          entries)

EncodeSparseVarint(schema, limits, pairs) == SparseBody(schema, limits, pairs, VarintIndex)

EncodeSparsePacked(schema, limits, pairs) == SparseBody(schema, limits, pairs, PackedIndex)

(* select_update_encoding: the bits of the masks against those of the      *)
(* indices, the two ids and the count of each component that changed.      *)
SelectUpdateEncoding(schema, pairs) ==
  LET changes == FlattenSeq([i \in DOMAIN pairs |->
                   LET p == pairs[i]
                       changed == ChangedComponents(schema, p.base, p.curr) IN
                   [j \in DOMAIN changed |->
                     LET c == changed[j] IN
                     [mask |-> Len(c.fields),
                      sparse |-> 3 * IdBits + IndexBits(c) * Cardinality(
                        ChangedFields(c, p.base.components[c.id], p.curr.components[c.id]))]]])
      Total(Bits(_)) == FoldSeq(LAMBDA x, sum : Bits(x) + sum, 0, changes)
  IN IF Total(LAMBDA x : x.mask) > 0 /\ Total(LAMBDA x : x.sparse) <= Total(LAMBDA x : x.mask)
     THEN "SparsePacked" ELSE "Masked"

UpdateSection(schema, limits, encoding, pairs) ==
  CASE encoding = "Masked" ->
         WriteSection("Update", limits, EncodeMasked(schema, limits, pairs))
    [] encoding = "SparseVarint" ->
         WriteSection("UpdateSparse", limits, EncodeSparseVarint(schema, limits, pairs))
    [] encoding = "SparsePacked" ->
         WriteSection("UpdateSparsePacked", limits, EncodeSparsePacked(schema, limits, pairs))

(* Sections in the order Destroy, Create, Update, each unless it is empty; *)
(* the first that fails fails the packet.                                  *)
Payload(destroy, create, update) ==
  AndThen(destroy, LAMBDA d : AndThen(create, LAMBDA c : AndThen(update, LAMBDA u :
    Ok(d \o c \o u))))

Unless(empty, section) == IF empty THEN Ok(<<>>) ELSE section

DeltaPacket(schema, tick, baseline_tick, payload) ==
  AndThen(payload, LAMBDA sections :
    Ok([flags |-> "delta", schema_hash |-> schema, tick |-> tick,
        baseline_tick |-> baseline_tick, sections |-> sections]))

DestroyAndCreateSections(schema, limits, destroyed, created, update) ==
  Payload(Unless(destroyed = <<>>,
            WriteSection("Destroy", limits, EncodeDestroyBody(limits, destroyed))),
          Unless(created = <<>>,
            WriteSection("Create", limits, EncodeDeltaCreateBody(schema, limits, created))),
          update)

(* The limits on the counts, and the sections. *)
EncodeDiff(schema, limits, encoding, destroyed, created, pairs) ==
  IF Len(created) > limits.create \/ Len(pairs) > limits.update \/ Len(destroyed) > limits.destroy
  THEN Err("LimitsExceeded")
  ELSE DestroyAndCreateSections(schema, limits, destroyed, created,
         Unless(pairs = <<>>,
           UpdateSection(schema, limits,
             IF encoding = "Auto" THEN SelectUpdateEncoding(schema, pairs) ELSE encoding, pairs)))

(* encode_delta_payload_with_mode; encoding "Auto" selects one. *)
EncodeDelta(schema, limits, encoding, baseline_tick, base, current) ==
  AndThen(Checked(IF base.tick # baseline_tick THEN "BaselineTickMismatch"
                  ELSE Then(EntitiesSortedError(base.entities),
                       Then(EntitiesSortedError(current.entities),
                            DiffError(schema, limits, base.entities, current.entities))),
                  [base |-> base.entities, curr |-> current.entities]),
    LAMBDA s : DeltaPacket(schema, current.tick, baseline_tick,
                 EncodeDiff(schema, limits, encoding, Destroyed(s.base, s.curr),
                            Created(s.base, s.curr), Updated(schema, s.base, s.curr))))

-----------------------------------------------------------------------------
(* A delta from lists the caller has made: no baseline is looked at. *)

(* validate_updates_for_encoding: neither the order of the components nor  *)
(* that of the fields is checked.                                          *)
UpdateListError(schema, limits, updates) ==
  FirstError([i \in DOMAIN updates |->
    Then(OrderError(updates, i),
    Then(IF Len(updates[i].components) > limits.components THEN "LimitsExceeded" ELSE None,
      FirstError([j \in DOMAIN updates[i].components |->
        LET u == updates[i].components[j] IN
        IF u.id \notin ComponentIds(schema) \/ u.fields = <<>> THEN "InvalidMask"
        ELSE IF Len(u.fields) > limits.fields THEN "LimitsExceeded"
        ELSE IF \E n \in DOMAIN u.fields :
                  u.fields[n][1] \notin DOMAIN ComponentOf(schema, u.id).fields
        THEN "InvalidMask" ELSE None])))])

(* encode_update_body_sparse_packed_from_updates *)
EncodeUpdateList(schema, limits, updates) ==
  LET entry(e, u) ==
        [entity |-> e.id, component |-> u.id,
         fields |-> [n \in DOMAIN u.fields |->
           <<PackedIndex(ComponentOf(schema, u.id), u.fields[n][1]), u.fields[n][2]>>]]
      entries == FlattenSeq([i \in DOMAIN updates |->
        [j \in DOMAIN updates[i].components |-> entry(updates[i], updates[i].components[j])]])
  IN Checked(IF Len(updates) > limits.update \/ Len(entries) > EntryLimit(limits)
             THEN "LimitsExceeded"
             ELSE FirstError([n \in DOMAIN entries |->
                    FirstError([m \in DOMAIN entries[n].fields |->
                      LET f == entries[n].fields[m] IN
                      ValueError(ComponentOf(schema, entries[n].component).fields[f[1]], f[2])])]),
             entries)

(* encode_delta_payload_from_updates *)
EncodeFromUpdates(schema, limits, tick, baseline_tick, destroys, creates, updates) ==
  AndThen(Checked(
      IF \/ Len(destroys) > limits.destroy
         \/ Len(creates) > limits.create
         \/ Len(updates) > limits.update
      THEN "LimitsExceeded"
      ELSE Then(SortedError(destroys),
           Then(EntitiesSortedError(creates), UpdateListError(schema, limits, updates))),
      updates),
    LAMBDA u : DeltaPacket(schema, tick, baseline_tick,
      DestroyAndCreateSections(schema, limits, destroys, creates,
        Unless(u = <<>>,
          WriteSection("UpdateSparsePacked", limits, EncodeUpdateList(schema, limits, u))))))

-----------------------------------------------------------------------------
(* Decoding. *)

DecodeDestroySection(limits, body) ==
  Checked(Then(SectionTooLong(limits, body),
          IF Len(body) > limits.destroy THEN "LimitsExceeded" ELSE SortedError(body)),
          body)

DecodeDeltaCreateSection(schema, limits, body) ==
  Checked(Then(SectionTooLong(limits, body),
          IF Len(body) > limits.create THEN "LimitsExceeded"
          ELSE FirstError([i \in DOMAIN body |->
                 Then(OrderError(body, i), WireEntityError(schema, limits, body[i]))])),
          [i \in DOMAIN body |-> ReadEntity(schema, body[i])])

(* decode_update_component: the places of the mask, and their values. *)
UpdateComponentError(component, limits, wire) ==
  IF Len(component.fields) > limits.fields THEN "LimitsExceeded"
  ELSE IF \A i \in DOMAIN wire.mask : ~wire.mask[i] THEN "InvalidMask"
  ELSE FirstError([i \in Marked(wire.mask) |->
         ValueError(component.fields[i], wire.values[Rank(wire.mask, i)])])

ReadMaskedFields(wire) ==
  LET set == Listed(Marked(wire.mask)) IN
  [n \in DOMAIN set |-> <<set[n], wire.values[n]>>]

DecodeMasked(schema, limits, body) ==
  Checked(Then(SectionTooLong(limits, body),
          IF Len(body) > limits.update THEN "LimitsExceeded"
          ELSE FirstError([i \in DOMAIN body |->
                 Then(OrderError(body, i),
                      FirstError([k \in Marked(body[i].mask) |->
                        UpdateComponentError(schema[k], limits,
                          body[i].components[Rank(body[i].mask, k)])]))])),
          [i \in DOMAIN body |->
            LET ks == Listed(Marked(body[i].mask)) IN
            [id |-> body[i].id,
             components |-> [j \in DOMAIN ks |->
               [id |-> schema[ks[j]].id, fields |-> ReadMaskedFields(body[i].components[j])]]]])

(* The checks on entry i of a sparse section: entities in order, and the   *)
(* components of an entity by ascending id, whatever their order in the    *)
(* schema.                                                                 *)
SparseEntryError(schema, limits, body, i) ==
  LET e == body[i]
      outOfOrder == /\ i > 1
                    /\ \/ e.entity < body[i - 1].entity
                       \/ e.entity = body[i - 1].entity /\ e.component <= body[i - 1].component
  IN IF outOfOrder THEN "InvalidEntityOrder"
     ELSE IF e.component \notin ComponentIds(schema) \/ e.fields = <<>> THEN "InvalidMask"
     ELSE IF Len(e.fields) > limits.fields THEN "LimitsExceeded"
     ELSE LET fields == ComponentOf(schema, e.component).fields IN
          IF Len(e.fields) > Len(fields) THEN "InvalidMask"
          ELSE FirstError([n \in DOMAIN e.fields |->
                 IF \/ e.fields[n][1] \notin DOMAIN fields
                    \/ n > 1 /\ e.fields[n][1] <= e.fields[n - 1][1]
                 THEN "InvalidMask"
                 ELSE ValueError(fields[e.fields[n][1]], e.fields[n][2])])

(* Entries of one entity, which follow each other, become one update. *)
DecodeSparse(schema, limits, body) ==
  LET ids == Listed({body[i].entity : i \in DOMAIN body})
      of(id) == ElementsAt(body, {i \in DOMAIN body : body[i].entity = id})
  IN Checked(Then(SectionTooLong(limits, body),
             Then(IF Len(body) > EntryLimit(limits) THEN "LimitsExceeded" ELSE None,
             Then(FirstError([i \in DOMAIN body |-> SparseEntryError(schema, limits, body, i)]),
                  IF Len(ids) > limits.update THEN "LimitsExceeded" ELSE None))),
             [n \in DOMAIN ids |->
               [id |-> ids[n],
                components |-> [j \in DOMAIN of(ids[n]) |->
                  [id |-> of(ids[n])[j].component, fields |-> of(ids[n])[j].fields]]]])

(* decode_update_section_sparse_varint and .._packed differ in how an      *)
(* entry is laid out in bits, and in nothing else.                         *)
DecodeSparseVarint(schema, limits, body) == DecodeSparse(schema, limits, body)

DecodeSparsePacked(schema, limits, body) == DecodeSparse(schema, limits, body)

(* The two sparse sections share a slot. *)
Slot(tag) == IF tag = "UpdateSparsePacked" THEN "UpdateSparse" ELSE tag

DecodeSection(schema, limits, section) ==
  CASE section.tag = "Destroy" -> DecodeDestroySection(limits, section.body)
    [] section.tag = "Create" -> DecodeDeltaCreateSection(schema, limits, section.body)
    [] section.tag = "Update" -> DecodeMasked(schema, limits, section.body)
    [] section.tag = "UpdateSparse" -> DecodeSparseVarint(schema, limits, section.body)
    [] section.tag = "UpdateSparsePacked" -> DecodeSparsePacked(schema, limits, section.body)
    [] OTHER -> Err("UnexpectedSection")

(* What the sections said, by slot; decoded[i] is the result of section i, *)
(* which is looked at in order and fails if its slot is taken.             *)
GatherSections(sections, decoded) ==
  LET slot(i) == Slot(sections[i].tag)
      SectionError(i) ==
        IF \E j \in 1 .. i - 1 : slot(j) = slot(i) THEN "DuplicateSection"
        ELSE IF decoded[i].ok THEN None ELSE decoded[i].error
      Found(name) == IF \E i \in DOMAIN sections : slot(i) = name
                     THEN decoded[CHOOSE i \in DOMAIN sections : slot(i) = name].val ELSE <<>>
  IN Checked(Then(FirstError([i \in DOMAIN sections |-> SectionError(i)]),
                  IF {"Update", "UpdateSparse"} \subseteq {slot(i) : i \in DOMAIN sections}
                  THEN "DuplicateUpdateEncoding" ELSE None),
             [destroys |-> Found("Destroy"), creates |-> Found("Create"),
              updates |-> Found("Update") \o Found("UpdateSparse")])

(* decode_delta_sections *)
DecodeDeltaSections(schema, limits, sections) ==
  GatherSections(sections,
    [i \in DOMAIN sections |-> DecodeSection(schema, limits, sections[i])])

DeltaHeaderError(packet) ==
  IF packet.flags # "delta" THEN "InvalidFlags"
  ELSE IF packet.baseline_tick = 0 THEN "InvalidBaselineTick"
  ELSE None

DecodeDeltaPacket(schema, limits, packet) ==
  AndThen(Checked(Then(DeltaHeaderError(packet), SchemaMismatch(schema, packet)), packet.sections),
          LAMBDA sections : DecodeDeltaSections(schema, limits, sections))

-----------------------------------------------------------------------------
(* Applying. *)

ApplyDestroys(entities, destroys) ==
  Checked(IF \E n \in DOMAIN destroys : destroys[n] \notin Ids(entities)
          THEN "EntityNotFound" ELSE None,
          ElementsAt(entities, {i \in DOMAIN entities :
                                  \A n \in DOMAIN destroys : destroys[n] # entities[i].id}))

(* Mutant: the created entities go to the end. *)
ApplyCreates_AtTheEnd(entities, creates) ==
  Checked(IF Ids(entities) \cap Ids(creates) # {} THEN "EntityAlreadyExists" ELSE None,
          entities \o creates)

ApplyCreates(entities, creates) ==
  Checked(IF Ids(entities) \cap Ids(creates) # {} THEN "EntityAlreadyExists" ELSE None,
          InOrder(Range(entities) \cup Range(creates)))

(* An update writes its fields: the decoders let a component occur once in *)
(* it, and an index once in a component.                                   *)
UpdatedEntity(entity, update) ==
  LET written(c) == UNION {Range(u.fields) : u \in {u \in Range(update.components) : u.id = c}} IN
  [entity EXCEPT !.components = [c \in DOMAIN @ |-> [i \in DOMAIN @[c] |->
    IF \E f \in written(c) : f[1] = i
    THEN (CHOOSE f \in written(c) : f[1] = i)[2]
    ELSE entity.components[c][i]]]]

UpdateError(entities, update) ==
  IF update.id \notin Ids(entities) THEN "EntityNotFound"
  ELSE LET entity == EntityOf(entities, update.id) IN
       FirstError([j \in DOMAIN update.components |->
         LET u == update.components[j] IN
         IF u.id \notin DOMAIN entity.components THEN "ComponentNotFound"
         ELSE IF \E n \in DOMAIN u.fields : u.fields[n][1] \notin DOMAIN entity.components[u.id]
         THEN "InvalidMask" ELSE None])

ApplyUpdates(entities, updates) ==
  Checked(FirstError([n \in DOMAIN updates |-> UpdateError(entities, updates[n])]),
          [i \in DOMAIN entities |->
            LET mine == {n \in DOMAIN updates : updates[n].id = entities[i].id} IN
            IF mine = {} THEN entities[i] ELSE UpdatedEntity(entities[i], updates[Min(mine)])])

(* Destroys, creates, the limit on what is left, updates. *)
ApplyDecoded(limits, base, delta) ==
  AndThen(Checked(Then(EntitiesSortedError(base), EntitiesSortedError(delta.creates)), base),
    LAMBDA sorted : AndThen(ApplyDestroys(sorted, delta.destroys),
    LAMBDA kept : AndThen(ApplyCreates(kept, delta.creates),
    LAMBDA all : IF Len(all) > limits.total THEN Err("LimitsExceeded")
                 ELSE ApplyUpdates(all, delta.updates))))

(* apply_delta_snapshot_from_packet *)
ApplyDelta(schema, limits, base, packet) ==
  AndThen(Checked(Then(DeltaHeaderError(packet),
                  Then(IF packet.baseline_tick # base.tick THEN "BaselineTickMismatch" ELSE None,
                       SchemaMismatch(schema, packet))), packet.sections),
    LAMBDA sections : AndThen(DecodeDeltaSections(schema, limits, sections),
    LAMBDA delta : AndThen(ApplyDecoded(limits, base.entities, delta),
    LAMBDA entities : Ok([tick |-> packet.tick, entities |-> entities]))))
=============================================================================
