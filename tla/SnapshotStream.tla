--------------------------- MODULE SnapshotStream ---------------------------
(***************************************************************************)
(* A sender and a receiver of snapshots, as the loops of src/demo-sim and  *)
(* src/simbench run the codec: the world changes, the sender encodes a     *)
(* full snapshot, or a delta against the snapshot it sent last, and the    *)
(* receiver decodes it and applies it to what it has.  Both have the same  *)
(* schema and limits.                                                      *)
(*                                                                         *)
(* The sender's baseline is the snapshot it took, not what the receiver    *)
(* made of it.  The two differ in fields whose change was below their      *)
(* threshold; age counts the deltas that may have added to it.             *)
(***************************************************************************)
EXTENDS DeltaCodec, TLC

CONSTANTS
  Setups,       (* the schema and the limits of the two sides, to choose   *)
  Forms,        (* entity id -> the sets of components it may have         *)
  Values,       (* component id -> for each field the values it may take   *)
  MaxTick       (* bound: packets that are accepted                        *)

(* The schemas that validate (schema.rs: the ids of the components are     *)
(* distinct); entities with natural ids; components that are registered    *)
(* (a delta passes over one that is not); fields that can take a value;    *)
(* limits that are numbers (usize, limits.rs).                             *)
ASSUME StreamAssumption ==
  /\ \A s \in Setups :
       /\ s.schema \in Seq([id : Nat, fields : Seq([max : Nat, threshold : Nat])])
       /\ \A j, k \in DOMAIN s.schema : s.schema[j].id = s.schema[k].id => j = k
       /\ DOMAIN Values \subseteq ComponentIds(s.schema)
       /\ s.limits \in [create : Nat, update : Nat, destroy : Nat, components : Nat,
                        fields : Nat, section : Nat, total : Nat]
  /\ IsFiniteSet(DOMAIN Forms) /\ DOMAIN Forms \subseteq Nat
  /\ \A e \in DOMAIN Forms : \A form \in Forms[e] : form \subseteq DOMAIN Values
  /\ \A c \in DOMAIN Values :
       /\ Values[c] \in Seq(SUBSET Int)
       /\ \A i \in DOMAIN Values[c] : Values[c][i] # {}
  /\ MaxTick \in Nat

(* A fact of arithmetic, as far as the widths of the field indices need    *)
(* it: the provers know nothing of powers.                                 *)
ASSUME PowersOfTwo ==
  \A s \in Setups : \A k \in DOMAIN s.schema : \A n \in 0 .. Len(s.schema[k].fields) :
    2 ^ n \in Nat /\ n < 2 ^ n

VARIABLES
  schema, limits,
  world,    (* the sender's world: live id -> its components               *)
  sent,     (* the sender's baseline                                       *)
  replica,  (* the receiver's snapshot                                     *)
  age       (* deltas since the last full snapshot                         *)

setup == <<schema, limits>>
vars == <<setup, world, sent, replica, age>>

NoSnapshot == [tick |-> 0, entities |-> <<>>]

Init ==
  /\ \E s \in Setups : schema = s.schema /\ limits = s.limits
  /\ world = <<>>
  /\ sent = NoSnapshot
  /\ replica = NoSnapshot
  /\ age = 0

(* build_visible_snapshot and build_snapshot *)
Current ==
  [tick |-> sent.tick + 1,
   entities |-> InOrder({[id |-> e, components |-> world[e]] : e \in DOMAIN world})]

-----------------------------------------------------------------------------
(* The world changes: an entity comes into view or leaves it, gains or     *)
(* loses a component, or one of its fields changes.                        *)

FirstValues(c) == [i \in DOMAIN Values[c] |-> CHOOSE v \in Values[c][i] : TRUE]

Enter(e, form) ==
  /\ e \notin DOMAIN world
  /\ world' = [x \in DOMAIN world \cup {e} |->
                 IF x = e THEN [c \in form |-> FirstValues(c)] ELSE world[x]]
  /\ UNCHANGED <<setup, sent, replica, age>>

Leave(e) ==
  /\ e \in DOMAIN world
  /\ world' = Restrict(world, DOMAIN world \ {e})
  /\ UNCHANGED <<setup, sent, replica, age>>

Reshape(e, form) ==
  /\ e \in DOMAIN world
  /\ form # DOMAIN world[e]
  /\ world' = [world EXCEPT ![e] =
                 [c \in form |-> IF c \in DOMAIN world[e] THEN world[e][c] ELSE FirstValues(c)]]
  /\ UNCHANGED <<setup, sent, replica, age>>

SetField(e, c, i, v) ==
  /\ e \in DOMAIN world
  /\ c \in DOMAIN world[e]
  /\ v # world[e][c][i]
  /\ world' = [world EXCEPT ![e][c][i] = v]
  /\ UNCHANGED <<setup, sent, replica, age>>

-----------------------------------------------------------------------------
(* A packet that is encoded, decoded and applied becomes the baseline of   *)
(* the next.  An error on either side leaves both with what they had.      *)

Deliver(applied, newAge) ==
  /\ applied.ok
  /\ sent' = Current
  /\ replica' = applied.val
  /\ age' = newAge
  /\ UNCHANGED <<setup, world>>

SendFull ==
  /\ sent.tick < MaxTick
  /\ Deliver(AndThen(EncodeFullSnapshot(schema, limits, sent.tick + 1, Current.entities),
                     LAMBDA packet : DecodeFullSnapshot(schema, limits, packet)), 0)

SendDelta(encoding) ==
  /\ sent.tick \in 1 .. MaxTick - 1
  /\ Deliver(AndThen(EncodeDelta(schema, limits, encoding, sent.tick, sent, Current),
                     LAMBDA packet : ApplyDelta(schema, limits, replica, packet)), age + 1)

DirtyFields(base, curr) ==
  LET changed == Listed({i \in DOMAIN base : base[i] # curr[i]}) IN
  [n \in DOMAIN changed |-> <<changed[n], curr[changed[n]]>>]

(* build_dirty_updates: any difference is an update, whatever the          *)
(* threshold; it has no way to say that an entity came, went or changed    *)
(* its components.                                                         *)
DirtyUpdates ==
  LET dirty(b, c, k) == DirtyFields(b.components[schema[k].id], c.components[schema[k].id])
      of(b, c) ==
        LET ks == Listed({k \in Shared(schema, b, c) : dirty(b, c, k) # <<>>}) IN
        [j \in DOMAIN ks |-> [id |-> schema[ks[j]].id, fields |-> dirty(b, c, ks[j])]]
      all == [i \in DOMAIN sent.entities |->
                [id |-> sent.entities[i].id,
                 components |-> of(sent.entities[i], Current.entities[i])]]
  IN IF \/ Ids(sent.entities) # DOMAIN world
        \/ \E e \in Range(sent.entities) : DOMAIN e.components # DOMAIN world[e.id]
     THEN Err("unsupported")
     ELSE Ok(ElementsAt(all, {i \in DOMAIN all : all[i].components # <<>>}))

SendDirty ==
  /\ sent.tick \in 1 .. MaxTick - 1
  /\ Deliver(AndThen(DirtyUpdates, LAMBDA updates :
       AndThen(EncodeFromUpdates(schema, limits, sent.tick + 1, sent.tick, <<>>, <<>>, updates),
               LAMBDA packet : ApplyDelta(schema, limits, replica, packet))), age + 1)

Next ==
  \/ \E e \in DOMAIN Forms : Leave(e) \/ \E form \in Forms[e] : Enter(e, form) \/ Reshape(e, form)
  \/ \E e \in DOMAIN Forms, c \in DOMAIN Values : \E i \in DOMAIN Values[c] :
       \E v \in Values[c][i] : SetField(e, c, i, v)
  \/ SendFull
  \/ \E encoding \in {"Auto", "SparsePacked"} : SendDelta(encoding)
  \/ SendDirty

Spec == Init /\ [][Next]_vars

-----------------------------------------------------------------------------
(* Properties *)

(* The types, and the ascending order of the entities of a snapshot that   *)
(* the merges and the binary search of the next delta rely on.             *)
TypeOK ==
  /\ DOMAIN world \subseteq DOMAIN Forms
  /\ \A e \in DOMAIN world : \A c \in DOMAIN world[e] : \A i \in DOMAIN world[e][c] :
       world[e][c][i] \in Values[c][i]
  /\ sent.tick \in 0 .. MaxTick
  /\ age \in 0 .. MaxTick
  /\ EntitiesSortedError(replica.entities) = None

(* The receiver has the entities and components of the snapshot the sender *)
(* takes it to have, every field that is always sent is equal, and a field *)
(* with a threshold is off by at most the threshold for each delta since   *)
(* the last full snapshot: the sender diffs against its own snapshots      *)
(* (delta.rs, field_changed), so what one delta holds back is not made     *)
(* good by the next.                                                       *)
ReplicaFollows ==
  /\ replica.tick = sent.tick
  /\ Ids(replica.entities) = Ids(sent.entities)
  /\ \A e \in Range(sent.entities) :
       LET r == EntityOf(replica.entities, e.id) IN
       /\ DOMAIN r.components = DOMAIN e.components
       /\ \A c \in DOMAIN e.components : \A i \in DOMAIN e.components[c] :
            Abs(e.components[c][i] - r.components[c][i])
              <= age * ComponentOf(schema, c).fields[i].threshold

Ascending == \A k \in DOMAIN schema \ {1} : schema[k - 1].id < schema[k].id

(* Whatever delta of the current world the encoder makes, in any encoding, *)
(* the receiver's decoder accepts and applies, with two exceptions.  The   *)
(* sparse encodings write the components of an entity in schema order and  *)
(* their decoders want them by ascending id (delta.rs:1789, 1972), which   *)
(* no schema check demands.  And the limit on the entities after applying  *)
(* is the decoder's alone (delta.rs:606).                                  *)
EncodedIsDecodable ==
  sent.tick > 0 =>
    \A encoding \in {"Masked", "SparseVarint", "SparsePacked"} :
      LET packet == EncodeDelta(schema, limits, encoding, sent.tick, sent, Current) IN
      packet.ok =>
        \/ ApplyDelta(schema, limits, replica, packet.val).ok
        \/ ~Ascending /\ encoding # "Masked"
        \/ Cardinality(DOMAIN world) > limits.total

(* The three encodings of a delta say the same: where all of them decode,  *)
(* the receiver gets the same creates, destroys and updates.               *)
EncodingsAgree ==
  LET said == {DecodeDeltaPacket(schema, limits, packet.val) :
                 packet \in {packet \in
                   {EncodeDelta(schema, limits, encoding, sent.tick, sent, Current) :
                      encoding \in {"Masked", "SparseVarint", "SparsePacked"}} : packet.ok}}
  IN sent.tick > 0 => Cardinality({d.val : d \in {d \in said : d.ok}}) <= 1

(* A full snapshot that the encoder accepts is decoded to the same         *)
(* entities (the check of demo-sim's validate_packet).                     *)
FullSnapshotRoundTrips ==
  LET packet == EncodeFullSnapshot(schema, limits, sent.tick + 1, Current.entities)
      decoded == DecodeFullSnapshot(schema, limits, packet.val)
  IN packet.ok => decoded.ok /\ decoded.val = Current
=============================================================================
