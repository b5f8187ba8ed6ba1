---------------------------- MODULE SnapshotCodec ----------------------------
(***************************************************************************)
(* Full snapshots: schemas, snapshots and the ENTITY_CREATE section of     *)
(* src/codec/src/snapshot.rs, as functions from values to results.         *)
(*                                                                         *)
(* Abstraction of the data.  A schema is its sequence of components        *)
(* [id, fields], a field [max, threshold]: its codec takes the values      *)
(* 0 .. max, and a ChangePolicy::Always is a threshold of 0.  A snapshot   *)
(* is [tick, entities], an entity [id, components] with the field values   *)
(* of each component it has.  A section body is the sequence of the        *)
(* entries the writer counts and writes one after the other: their bits    *)
(* are the subject of BitStream.  The size of a body is its number of      *)
(* entries, and the output buffer is large enough.                         *)
(***************************************************************************)
EXTENDS Results, FiniteSets, SequencesExt

ComponentIds(schema) == {schema[k].id : k \in DOMAIN schema}

(* A function on the ids of the schema from one on its components. *)
ComponentOf(schema, id) == schema[CHOOSE k \in DOMAIN schema : schema[k].id = id]

(* Numbers in ascending order, and the elements of a sequence at places.   *)
Listed(numbers) ==
  [n \in 1 .. Cardinality(numbers) |->
     CHOOSE x \in numbers : Cardinality({y \in numbers : y <= x}) = n]

ElementsAt(s, places) == LET order == Listed(places) IN [n \in DOMAIN order |-> s[order[n]]]

(* The places whose bit is set, and how many of them are up to k. *)
Marked(mask) == {k \in DOMAIN mask : mask[k]}
Rank(mask, k) == Cardinality({j \in Marked(mask) : j <= k})

Ids(entities) == {entities[i].id : i \in DOMAIN entities}

EntityOf(entities, id) == entities[CHOOSE i \in DOMAIN entities : entities[i].id = id]

(* The entities of a set in the ascending order the wire format asks for. *)
InOrder(entities) ==
  LET ids == Listed({e.id : e \in entities}) IN
  [n \in DOMAIN ids |-> CHOOSE e \in entities : e.id = ids[n]]

(* Entity i does not follow the one before it. *)
OutOfOrder(entities, i) == i > 1 /\ entities[i].id <= entities[i - 1].id

OrderError(entities, i) == IF OutOfOrder(entities, i) THEN "InvalidEntityOrder" ELSE None

SchemaMismatch(schema, packet) == IF packet.schema_hash # schema THEN "SchemaMismatch" ELSE None

-----------------------------------------------------------------------------
(* Encoding. *)

(* write_section: the size is checked on the body that has been written. *)
WriteSection(tag, limits, body) ==
  AndThen(body, LAMBDA b : Checked(IF Len(b) > limits.section THEN "LimitsExceeded" ELSE None,
                                   << [tag |-> tag, body |-> b] >>))

(* The range checks of write_field_value and write_field_value_sparse. *)
ValueError(field, v) == IF v \in 0 .. field.max THEN None ELSE "InvalidValue"

ValuesError(component, values) ==
  FirstError([i \in DOMAIN component.fields |-> ValueError(component.fields[i], values[i])])

(* Mutant: the values are not checked against the codec. *)
ComponentFieldsError_Unchecked(component, limits, values) ==
  IF Len(component.fields) > limits.fields THEN "LimitsExceeded"
  ELSE IF Len(values) # Len(component.fields) THEN "InvalidMask"
  ELSE None

(* The two writers check the first two in a different order (snapshot.rs:  *)
(* 280, delta.rs:2365), which only shows in the variant of the error.      *)
ComponentFieldsError(component, limits, values) ==
  IF Len(component.fields) > limits.fields THEN "LimitsExceeded"
  ELSE IF Len(values) # Len(component.fields) THEN "InvalidMask"
  ELSE ValuesError(component, values)

UnknownComponent(schema, entity) ==
  IF DOMAIN entity.components \subseteq ComponentIds(schema) THEN None ELSE "InvalidMask"

ComponentMask(schema, entity) ==
  [k \in DOMAIN schema |-> schema[k].id \in DOMAIN entity.components]

(* The errors of the components that are present, in schema order. *)
ComponentsError(schema, limits, entity) ==
  Then(UnknownComponent(schema, entity),
       FirstError([k \in Marked(ComponentMask(schema, entity)) |->
         ComponentFieldsError(schema[k], limits, entity.components[schema[k].id])]))

(* An entity as it is written: the component mask, and for each component  *)
(* that is present a field mask, which is all ones, and its values.        *)
WireEntity(schema, entity) ==
  LET mask == ComponentMask(schema, entity)
      present == Listed(Marked(mask)) IN
  [id |-> entity.id,
   mask |-> mask,
   components |-> [n \in DOMAIN present |->
                     LET values == entity.components[schema[present[n]].id] IN
                     [mask |-> [i \in DOMAIN values |-> TRUE], values |-> values]]]

(* encode_create_body of a full snapshot. *)
EncodeCreateBody(schema, limits, entities) ==
  Checked(IF Len(schema) > limits.components THEN "LimitsExceeded"
          ELSE FirstError([i \in DOMAIN entities |->
                 Then(OrderError(entities, i),
                 Then(IF Cardinality(DOMAIN entities[i].components) > limits.components
                      THEN "LimitsExceeded" ELSE None,
                      ComponentsError(schema, limits, entities[i])))]),
          [i \in DOMAIN entities |-> WireEntity(schema, entities[i])])

EncodeFullSnapshot(schema, limits, tick, entities) ==
  AndThen(IF Len(entities) > limits.create THEN Err("LimitsExceeded")
          ELSE IF entities = <<>> THEN Ok(<<>>)
          ELSE WriteSection("Create", limits, EncodeCreateBody(schema, limits, entities)),
    LAMBDA sections :
      Ok([flags |-> "full", schema_hash |-> schema, tick |-> tick, baseline_tick |-> 0,
          sections |-> sections]))

-----------------------------------------------------------------------------
(* Decoding. *)

SectionTooLong(limits, body) == IF Len(body) > limits.section THEN "LimitsExceeded" ELSE None

(* decode_component_fields of component k of an entry, and the checks of   *)
(* read_field_value.                                                       *)
FullComponentError(component, limits, wire) ==
  IF Len(component.fields) > limits.fields THEN "LimitsExceeded"
  ELSE IF \E i \in DOMAIN wire.mask : ~wire.mask[i] THEN "InvalidMask"
  ELSE ValuesError(component, wire.values)

WireEntityError(schema, limits, e) ==
  FirstError([k \in Marked(e.mask) |->
    FullComponentError(schema[k], limits, e.components[Rank(e.mask, k)])])

(* The components whose bit is set, each with the values written for it. *)
ReadEntity(schema, e) ==
  [id |-> e.id,
   components |-> [c \in {schema[k].id : k \in Marked(e.mask)} |->
     LET k == CHOOSE k \in DOMAIN schema : schema[k].id = c IN
     e.components[Rank(e.mask, k)].values]]

DecodeCreateSection(schema, limits, body) ==
  Checked(Then(SectionTooLong(limits, body),
          IF Len(body) > limits.create \/ Len(schema) > limits.components THEN "LimitsExceeded"
          ELSE FirstError([i \in DOMAIN body |->
                 Then(OrderError(body, i), WireEntityError(schema, limits, body[i]))])),
          [i \in DOMAIN body |-> ReadEntity(schema, body[i])])

(* One section, or none. *)
DecodeFullSections(schema, limits, sections) ==
  IF sections = <<>> THEN Ok(<<>>)
  ELSE IF sections[1].tag # "Create" THEN Err("UnexpectedSection")
  ELSE AndThen(DecodeCreateSection(schema, limits, sections[1].body), LAMBDA entities :
         Checked(IF Len(sections) = 1 THEN None
                 ELSE IF sections[2].tag = "Create" THEN "DuplicateSection"
                 ELSE "UnexpectedSection", entities))

DecodeFullSnapshot(schema, limits, packet) ==
  AndThen(IF packet.flags # "full" THEN Err("InvalidFlags")
          ELSE IF packet.baseline_tick # 0 THEN Err("InvalidBaselineTick")
          ELSE Checked(SchemaMismatch(schema, packet), packet.sections),
    LAMBDA sections : AndThen(DecodeFullSections(schema, limits, sections),
    LAMBDA entities : Ok([tick |-> packet.tick, entities |-> entities])))
=============================================================================
