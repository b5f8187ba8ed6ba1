# A TLA+ verification of sdec

sdec replicates a game world from a server to its clients with snapshots and
deltas.  This project models the parts of it whose correctness depends on the
order of events, model-checks them with TLC and proves the most important
facts with TLAPS.  Paths below are relative to the repository (`src/`).

## 1. The system

### Components, state and operations

| Component | State | Operations |
|---|---|---|
| `codec::BaselineStore` (`codec/src/baseline.rs`) | ring of slots, head, length, last tick | `insert`, `get`, `latest_at_or_before`, `iter` |
| session mode (`codec/src/session.rs`, `wire/src/session.rs`, `codec/src/delta.rs`) | `SessionState` of the client (id, last tick), the `last_tick` the server passes to the encoder | encode and decode session init, compact delta and full packets |
| delta snapshots (`codec/src/delta.rs`) | none (scratch buffers) | diff two snapshots or take change lists; choose an update encoding; decode; apply destroys, creates, updates |
| full snapshots, field codecs (`codec/src/snapshot.rs`) | none | encode and decode entities, components, fields |
| `repgraph::ReplicationGraph` (`repgraph/src/lib.rs`) | tracked entities with dirty components, removals, per-client view and known entities | update and remove entities, add and remove clients, build a client's delta, clear |
| `wire` framing (`packet.rs`, `header.rs`) | none | encode and decode headers, sections, limits |
| `schema` | none (static) | validate, hash |
| `bitstream` | cursor of a reader or writer | bits, aligned integers, varints |
| `sdec-bevy` | `EntityMap` on each side: ECS entity to id and back; Bevy's change trackers; a change set | extract changes, encode a frame, apply a frame entity by entity |
| `sdec-bevy-demo` | two worlds, the frames under way | change, extract, send, drop, apply, resync after an error |
| `demo-sim`, `simbench` | the baseline of the sender | full snapshots, deltas, dirty lists, one after the other |
| `tools`, `demo-schema`, `fuzz` | none | print packets, a sample schema, fuzz targets |

### How they interact

The server's loop changes the world, tells the graph, builds a delta for each
client from the graph (or diffs two snapshots), encodes it against a baseline
that the client has acknowledged (`select_baseline_tick` on the server's
`BaselineStore`), and sends it with a compact header.  The client adds the
header's tick difference to its own `last_tick`, subtracts the baseline
difference, finds that baseline in its own store, applies the delta, stores
the result as a new baseline and acknowledges it.  An error for which
`CodecError::needs_resync()` holds makes it ask for a session init and a full
snapshot.  The library has no threads and no transport: what interleaves is
the server, the datagrams in flight and the client.

### What is hard

* **Hidden shared state.**  Ticks and baselines on the wire are differences.
  They mean the same at both ends only while the client has decoded exactly the
  packets the server has encoded.  Loss, duplication and reordering break it.
* **Stale choices.**  The baseline is chosen from an old acknowledgement while
  both rings evict.
* **Beliefs that are never confirmed.**  The graph records what a client knows
  when it builds a delta, after budgets have cut it.
* **Shared clearing.**  One dirty set serves all clients and is cleared once.
* **Partial failure.**  `last_tick` moves before the delta is applied; a
  failed apply does not always ask for a resync; a Bevy world may be left with
  half a frame; the changes of a frame that does not encode are gone.
* **Two of everything.**  Three update encodings with separate encoders and
  decoders, three varint readers, two writers, two headers, limits checked by
  each side at its own place: they must agree at every edge.
* **Errors that may add up.**  Changes below a threshold are held back, and the
  sender compares with its own snapshots.

`PROJECT.json` lists each hazard with its line and the properties about it.

### What makes each component correct

* baseline store: it is the window of the most recent accepted baselines; the
  lookups find the right one at every position of head.
* session: what the client holds under a tick is the server's snapshot of that
  tick; nothing needs a resync on a good link; a resync repairs.
* graph: known entities are exactly the client's; every delta applies; a built
  client misses no change; the clients converge under rationing.
* delta codec: what the encoder accepts the decoder accepts; the encodings say
  the same; after any chain of deltas the receiver has the sender's entities and
  components, and a field is off by at most its threshold per delta.
* bits, sections, packets: decoding inverts encoding at every numeric edge,
  in a buffer that was used before, in debug and in release builds; what is cut
  short is noticed; ticks never wrap.
* ECS adapter: the maps lead there and back on both sides whatever fails, and a
  client that has missed nothing has the server's entities.

## 2. The modules

| Module | Role |
|---|---|
| `BaselineWindow` | operators on a window of baselines (accept, push, find) |
| `RecentBaselines` | abstract specification: the most recent baselines, in order |
| `BaselineStore` | the ring buffer; `Recent` is `RecentBaselines` with `window <- Iter` |
| `SnapshotSession` | server, link and client of one session; both rings are windows |
| `RepGraph` | the replication graph, its tick loop, and the clients' replicas |
| `Results` | results, early returns and the `?` operator, in loops (`FirstError`) and between calls |
| `SnapshotCodec` | full snapshots: schemas, masks, limits, the create section; numbers and elements in order (`Listed`, `ElementsAt`, `Marked`, `Rank`, `InOrder`) |
| `DeltaCodec` | diff, the three update encodings, section decoding, apply; extends `SnapshotCodec` |
| `SnapshotStream` | a sender and a receiver of snapshots over `DeltaCodec` |
| `BitStream` | writers and reader: bits, alignment, little-endian integers, varints |
| `FieldCodec` | field values in i64 and u64 arithmetic; extends `BitStream` |
| `WireFormat` | sections, both headers, session init; extends `FieldCodec` |
| `WireStream` | a sender that fills a used buffer value by value, and a receiver with a session |
| `EntityMap` | the adapter's map as a record and functions on it |
| `BevyReplication` | two Bevy worlds, the adapter on both sides, the demo's loop and link |
| `NaturalsOrder` | for the proofs: least and greatest element of a set of naturals, induction up to a number, functions by recursion along a rank |
| `BaselineStore_proofs` | the ring: types, shape, lookups, refinement of `RecentBaselines` |
| `SnapshotSession_proofs` | the session: types, exactness, no resync on a link without faults |
| `RepGraph_proofs` | the graph: types, beliefs, deltas, currency |
| `BevyReplication_proofs` | the adapter: types, maps, the client follows |
| `SnapshotStream_proofs`, `SnapshotFollows_proofs` | the codec: lists, results, sections, full snapshots, types; diffs, update encodings, apply, the receiver follows |
| `WireStream_proofs` | the wire: sizes and types, varint readers, session ticks, sections made in place, bodies that read back |
| `MC*` | constant values for TLC |

`SnapshotSession` uses windows where the code has rings: the refinement of
`RecentBaselines` by `BaselineStore` is what justifies it.

### BaselineStore

`entries`, `head`, `len` and `last_tick` are the fields of the struct.
`Insert(t, v)` is `insert`: the early return is `OutOfOrder`; the two branches
are `InsertFree` and `InsertFull`, in which `Slot` is the code's index
arithmetic.  Lookups are operators that scan as the code scans.

### SnapshotSession

Server: `SendSession` (session init and full snapshot of one tick, ring reset
by the receiver) and `SendDelta` (`encode_delta_snapshot_for_client_session`,
with its refusal of a tick not above `last_tick`).  Link: `Lose`, `Duplicate`,
`Swap`.  Client: `Deliver` takes the head of the link and is one of
`ReceiveInit`, `ReceiveFull`, `DeltaRefused` (the header does not decode,
`last_tick` unmoved), `DeltaWithoutBaseline` (decoded, `last_tick` moved,
nothing found), `DeltaApplied`, `DeltaFails` (found, but the delta does not fit
its contents: an error that does not ask for a resync).

A snapshot is named by its tick, `Mixed` is any state the server never had.  A
delta encoded against `b` and applied to something else either fails or yields
`Mixed`: which one depends on contents, so both are possible.  `sent`,
`expected` and `clean` are history variables; no action reads them as a
condition, except that packets in flight are positions in `sent`.

The application around the library (when to open a session, how acknowledgements
travel) follows `docs/getting-started.md` and `docs/recovery.md` and is
external.  A request for a resync reaches the server without loss.
An acknowledgement may arrive at any time later, in any order, and more than once.

### RepGraph

One action per method of `ReplicationGraph`; `Change` is the application's
change with `update_entity`; `Build` is `build_client_delta` with the client's
apply; `EndTick` is `clear_dirty` and `clear_removed`.  The order is the
documented one: changes, then every client, then the clearing.  A view is the
set of positions in its radius.

### SnapshotCodec, DeltaCodec and SnapshotStream

The codec has no state: each function of `snapshot.rs` and `delta.rs` is an
operator from its arguments to a result (`Results`), with the checks and their
errors in the order of the code.  A section body is the sequence of entries that
the writer counts; a field has a range and a threshold.  The encoder of a diff
(`EncodeDiff`), that of a list of changes (`EncodeFromUpdates`), the choice of
the encoding by size, `GatherSections` and `ApplyDelta` with its merges of
sorted lists are modelled apart, because what matters is that they fit together.

`SnapshotStream` runs them as `demo-sim` and `simbench` do: the world changes
(`Enter`, `Leave`, `Reshape`, `SetField`), then `SendFull`, `SendDelta` or
`SendDirty` encodes, decodes and applies.  The sender's baseline is its own
snapshot, never what the receiver made of it, so `sent` and `replica` drift apart
by what thresholds hold back; `age` counts the deltas that may have added to it.

### BitStream, FieldCodec, WireFormat and WireStream

Buffers are sequences of bits.  The widths (bits of a byte, bytes of a u16, u32
and u64, groups of a varint) are constants; the formulas are the code's in terms
of them, and arithmetic is done modulo the width.  `[traps |-> TRUE]` is a build
with overflow checks, in which an i64 that overflows is a panic; in the other it
wraps.  `OpenSection` and `CloseSection` are `write_section`: the body is made in
place behind room for the longest prefix, then moved down.

`WireStream` writes values one by one (`AppendValue`, `Refuse`), closes sections,
and sends what it has behind a full header or a compact one (`SendPacket`,
`SendCompact`, `SendInit`); the receiver decodes into its `SessionState`
(`ReceiveInit`, `ReceiveCompact`).  A packet under way may be lost or be received
more than once.  What this does to snapshots is the subject of `SnapshotSession`,
which in turn takes ticks as unbounded.

### EntityMap and BevyReplication

The server's tick has three phases: changes of the world, which Bevy's trackers
record (`Added`, `Changed`, `RemovedComponents`); `Extract`, after which
`Collect` takes the entities in any order, as the code takes them from a
`HashSet`, and gives out ids; and `Send` or `EncodeFails`.  The client decodes a
frame (`Deliver`, `DecodeFails`) and applies it one entity at a time
(`ApplyDestroy`, `ApplyCreate`, `ApplyUpdate`, `ApplyFails`), so that every
half-applied frame is a state.  After an error the demo sends a full snapshot past
the queue (`Resync`, applied by `Upsert` and destroys), or silently none when
there is nothing to send or too much (`NoResync`).  `synced`, `repaired`,
`orphaned` and `strays` are history variables.

The frames are those of `BevyReplicator`: `extract_changes`, `encode_frame` and
`apply_frame` with their three lists.  The loop around them, the link's faults and
the resync are the demo's.  The demo itself does not send these lists: it feeds a
`ReplicationGraph`, whose deltas it encodes in compact packets
(`sdec-bevy-demo/src/main.rs:437`), so the model is that of an application which
drives the replicator the way the demo drives its graph.  A frame is refused by
the encoder when a list names an id twice or holds more creates than the limits
allow; the limits on destroys, updates and sections have the same effect and are
left out.  `DecodeFails` stands for every error of decoding: the client's world is
as it was.

`ClientFollows` says nothing of a client from the moment it is out of step: after
a lost or reordered frame, a frame that failed or could not be encoded, a resync
that overtook frames under way, and for good once the ids are used up.  It speaks
again after a resync with nothing under way.  What is left in the meantime is
`MapsAgree`.

Two things the adapter does by design show in `ClientFollows`: a component
removed from a living entity destroys the entity at the client until it is
created again (`orphaned`), and a create of an id the client has leaves the old
entity in its world without an id (`strays`).  The demo's queue gets at most one
frame a tick and gives one back, so that its own reordering branch
(`main.rs:541`) never runs; the model's link reorders all the same.

## 3. What TLC checks

| Run | Shows | Bounds |
|---|---|---|
| `baseline_store` | types, `RingInv`, lookups against their order-free meaning, the refinement | 3 slots, ticks 0..7, so that head passes every slot twice |
| `session_reliable` | no faults: exact labels, no resync ever, every delta that arrives applied to its own baseline, every snapshot superseded | rings of 2, 6 ticks, gaps up to 2, 4 packets in flight: both rings wrap with acknowledgements pending |
| `session_lossy` | any mix of 2 faults: a clean session is exact, resyncs repair | server ring 3, client ring 2, 5 ticks, 3 in flight, 3 sessions |
| `session_wrong_baseline` | violated: a delta is applied to the wrong baseline | one lost packet |
| `session_late_delta` | violated: a late delta moves `last_tick` | one duplicate or swap |
| `repgraph` | the graph's beliefs, applicability and currency of deltas | 2 clients, 3 ids, 2 tracked at most, one create per delta |
| `repgraph_converges` | beliefs and applicability when every list is cut; convergence | 1 client, 3 entities, one create, one update and one destroy per delta |
| `repgraph_reused_id` | violated: a delta updates what it destroys | id reused within a tick |
| `repgraph_priority` | violated: priority does not order creates | 2 priorities, one create per delta |
| `snapshot_stream` | a chain of full, delta and dirty packets: bounded error, decodability, agreement of the encodings | 2 entities, a component of 6 fields (packed index of 3 bits) with a threshold and one of 1 field (no index bits), both schema orders, three sets of limits, 3 packets |
| `wire_stream` | bits, sections, packets, ticks | bytes of 4 bits, u32 of 8 bits, u64 of 12, varints of 3 groups of 3 bits: one bit more than a u32, as in the code (35 to 32); ticks 1, 9 and the last; 3 values per packet, 1 in a packet that is sent, 2 sections, a buffer of 14 bytes that fills; two builds with limits that let a session in or keep long sections out |
| `bevy_replication` | the maps, the client's world, half-applied frames | 3 entities for 2 ids, 2 components in both schema orders, at most 2 creates per frame, 4 changes in 3 ticks, 2 frames under way, 1 loss or swap |

Deadlock is checked where the system can always go on in the model
(`snapshot_stream`, whose world changes for ever, and `wire_stream`, whose
encoder starts over).  The other runs stop at their bounds (ticks, sessions,
frames, faults, ids), and a store or an idle graph may be left alone for ever.

The bounds are named constants.  They are chosen so that one event can meet
the consequences of another: a ring wraps while an acknowledgement is under
way, a second fault meets the recovery from the first, a rationed create meets
a view change, a capped entity becomes trackable later, a change held back by a
threshold is followed by another, an id is given out a second time while its
first entity is under way, the last tick of the range is used up.

**Fairness.**  In `SnapshotSession` weak fairness of `Deliver`, of the
acknowledgements and of `SendSession`: a packet that stays on the link arrives
(losing it is a fault, bounded by `MaxFaults`), and a server that owes a
session sends it.  Sending deltas is not fair: the server may stop.  In
`RepGraph` weak fairness of `Build` and `EndTick`: the tick loop goes on;
nothing is assumed of the application's changes.  The `~>` properties therefore
hold whatever the application does.

`ResyncRepairs` allows for the bound `MaxSessions`: the model server stops at
it, the real one does not.

`BuiltClientIsCurrent` is stated for views that do not limit updates and
destroys.  With such limits it does not hold: `clear_dirty` forgets an update
the budget cut, and an entity whose destroy is put off stays known while its
changes are cleared.  What such views still have is checked by
`repgraph_converges`: the belief is right, the destroy is made good.

`wire_stream` scales the widths down and keeps the relations between them that
the arithmetic depends on: a varint has one group more than a u32 fills, a u64
is wider than a u32, a field may be as wide as a u64, and a body of 8 bytes
needs a length of two varint groups, of which one says up to 7.

Three properties of this run keep clear of inputs on which the code disagrees with
a document (below), and say nothing of them: `BodyReadsBack` of the values named by
`Wide` in a build with overflow checks, `VarintReadersAgree` of numbers beyond a
u32, and `PacketArrives` of packets that are `OutOfFormat`.  `PacketArrives` asks
of the session only that it has followed the sender (`InStep`).

### What a user of the library should know

Reading the code for the models has shown the following, about which the documents
are silent.

* Errors of thresholds add up over deltas: `demo-sim` compares each delta with the
  sender's true baseline and cannot see it.  A full snapshot ends it.
* A schema whose components are not in ascending id order encodes sparse updates
  of two components that no decoder reads (`EncodedIsDecodable`, `Readable`).
* The limit on all entities is applied by the delta decoder alone; the limit on
  entries makes the sparse encoders refuse what the masked one accepts.
* A full snapshot
  behind a compact header decodes to a packet with its own tick as baseline, which
  the decoder of full snapshots refuses (`codec/src/snapshot.rs:118`).  The
  default section limit of the wire (32 KiB) is half that of the codec.
* Between two values of a 64-bit signed field that are more than an i64 apart, the
  difference that is compared with the threshold wraps in a release build
  (`codec/src/delta.rs:2628`): a change from one end of the range to the other
  counts as a change by 1, and may not be sent.  With overflow checks it panics.
  The model takes the difference without a width, for fields within one i64.
* Encoding a fixed point field whose range is more than an i64 panics in builds
  with overflow checks (`codec/src/snapshot.rs:372`).
* A session id of `Some(0)` reads back as `None`; what follows the payload of a
  compact packet is not looked at.
* An error is the only thing that makes the demo resync: a lost frame is none.
  Frames that were queued before a resync are applied after it.
* The server's `EntityMap` never forgets an entity; when ids run out the last one
  is given to every new entity.

### Disagreements between documents and code

1. A delta may be applied to a snapshot it was not encoded against, without an
   error, after one lost compact packet.
2. A late or repeated compact delta is not ignored; the check meant to refuse
   it (`codec/src/session.rs:186`) can never hold.
3. An id removed and used again before the next build gives a delta that
   updates an entity it destroys; the client then refuses this and later
   deltas while the graph believes otherwise.
4. Entity priority has no effect on what a budget keeps.

Each of these is shown by a run that is expected to find it.  Four more were met
while modelling the wire.  No run is about them; the model does what the code does,
and the properties of `wire_stream` do not vouch for it.

5. "Decode never panics" (`ARCHITECTURE.md:167`).  In a build with overflow checks
   the decoder panics on a negative value of a signed field of 63 bits
   (`codec/src/snapshot.rs:787`: `1i64 << bits` is the least i64) and on any fixed
   point field whose range is more than an i64 (`codec/src/snapshot.rs:612`), both
   of which a schema may have.  A release build wraps back to the value.
6. "`section_len` is a varuint capped at u32 (max 5 bytes). Overflow is invalid."
   (`WIRE_FORMAT.md:87`).  A fifth byte has room for three bits more than a u32; all
   three readers drop them without an error (`wire/src/packet.rs:221`,
   `wire/src/session.rs:193`, `bitstream/src/reader.rs:126`).
7. "For delta snapshots, `baseline_delta` MUST be > 0." (`WIRE_FORMAT.md:197`).  The
   encoder checks only that the baseline is not above the tick
   (`codec/src/delta.rs:291`), and the decoder lets 0 pass
   (`wire/src/session.rs:147` looks at the tick it yields).
8. "`baseline_tick` MUST be non-zero." (`WIRE_FORMAT.md:265`).  Both encoders make a
   delta against tick 0 (`codec/src/delta.rs:267`, `330`), which both decoders refuse:
   `PacketArrives` states the refusal.

## 4. What is proved

Each theorem holds for every value of the constants, from the assumptions named
in the modules.  TLC evaluates those assumptions on every run, and has checked
each inductive invariant before it was proved.  The bounds `MaxTick`,
`MaxSessions`, ... are constants too, so that a theorem holds for bounds of any
size.  All safety invariants of the runs are theorems but those listed under
*only model-checked*.

### The ring (`BaselineStore_proofs`)

`RingTypeCorrect`, `RingCorrect`, `LookupsCorrect`, `RingImplementsRecent`.  The
inductive invariant is `TypeOK /\ RingInv`: the occupied slots are the `len`
slots from `head` on, their ticks increase in ring order, and `head` leaves 0
only when the ring is full, without which a free insert could overwrite an
entry.  The lookups follow because positions in ring order and ticks are ordered
alike; the refinement because an insert appends to `Iter`, and `head` moving by
one is `Tail`.

### The session (`SnapshotSession_proofs`)

* `SessionTypeCorrect`, `CleanSessionCorrect`: a session which has missed nothing
  since its init is exact, whatever the ring sizes and the faults.
  `CleanSessionIsExact` is not inductive: one must know that `last_tick` of a
  clean client is the tick of the last packet it received (`CleanInv`) and that
  each delta on the wire counts from the packet sent just before it
  (`StreamInv`).  Then the next packet decodes to what was encoded, cannot be
  refused, and meets its baseline or none.
* `ReliableLinkIsExact`: with `Faults = {}`, every snapshot the client holds is
  the server's.  `OrderInv` adds that the packets in flight are the ones sent
  and not yet received, in order, so that a client is clean from its first
  packet on.
* `ReliableLinkNeedsNoResync`, `ReliableLinkAppliesEveryDelta`: with
  `Faults = {}` and `ClientCapacity >= ServerCapacity`, however many packets are
  in flight and however late an acknowledgement comes.  The baseline is picked
  from an old acknowledgement while both rings evict, so the invariant
  (`ResyncInv`) speaks of positions in the stream of packets: back to the last
  full snapshot the server's ring and the stream hold the same ticks
  (`RingFollowsStream`), hence the base of a delta is at most `ServerCapacity`
  packets back (`BasesAreRecent`); and the client's ring holds the last
  `ClientCapacity` packets it has received, or all of its session
  (`ClientFollowsStream`).  The packets between a delta and its base are the same
  at both ends, so the base is still held.  The condition on the capacities is
  needed: with `ClientCapacity = 1` and `ServerCapacity = 2`, TLC finds a run on
  the reliable link that violates `NoResyncNeeded`.

### The graph (`RepGraph_proofs`)

* `GraphTypeCorrect`, `BeliefsCorrect`, `DeltasAlwaysApply`: for any entities,
  clients, views and budgets, provided no id is used again in the tick that
  removed it (`~ReuseIds`; `repgraph_reused_id` shows that it is needed).  The
  belief is inductive only together with `RemovedIsUntracked`: an id that waits
  to be destroyed is not tracked, so a delta never updates what it destroys, every
  delta applies, and the client is left with what the graph then believes.
* `BuiltClientsAreCurrent`: if also no view cuts updates or destroys.  The
  invariant is `CurrentInv`: a client not yet built differs from the world only in
  components still marked dirty, and has nothing that is neither tracked nor
  waiting to be destroyed.  It makes the clearing at the end of the tick safe.

### The adapter (`BevyReplication_proofs`)

* `ReplicationTypeCorrect`: `Typed` says more than `TypeOK`: what frames, drafts
  and half-applied frames are made of.
* `MapsCorrect`: the adapter's maps, on any link and with any limits.  Beyond
  `MapsAgree` one must know that the client's world has only handles it has
  given out (`HandlesUsed`), so that a new entity cannot take the place of one
  that has an id.
* `ClientFollowsCorrect`, `NoFailureInStepCorrect`: in step (`synced`) the client
  gets to the server's entities and values, and no frame stops half way.
  Neither is inductive, since frames are under way while the server's world
  changes.  `FollowInv` replays them: from the client's copies through the frame
  being applied and each frame on the link there is a chain of copies
  (`Replays`), each fit for the next frame, and the server's trackers
  are exactly the difference between the last copy and the world.  `Counts` adds
  up the creates of ids the client has, which become `strays`.  The invariant
  also needs that the server gives ids out in order while they last
  (`IdsInOrder`), that an entity without an id is in the tracker of the new
  (`UnknownIsNew`), and, in `Shapes`, that the
  client is idle unless the server waits for it, and that only a resync upserts.

### The snapshot codec (`SnapshotStream_proofs`, `SnapshotFollows_proofs`)

* `StreamTypeCorrect`, `FullSnapshotCorrect`: entities stay in order at the
  receiver, whatever packets it accepts, and a full snapshot the encoder accepts
  decodes to the world it was taken of.  The code finds the values of a marked
  component by counting the marks before it; the proof is about ranks: the
  element of rank n of a finite set of numbers is the n-th of `Listed` (`RankGrows`,
  `ListedIs`, `MarkedIs`), so that the place where the writer has put a component
  is the place where the reader looks (`EntityReadsBack`).  `DeltaDecoded` does
  the same for sections and their slots.
* `ReplicaFollowsCorrect`: the receiver has the sender's entities and components, each
  field off by at most its threshold per delta, after any chain of full
  snapshots, deltas in any of the three encodings and dirty lists.  A packet is
  followed through the pipeline.  `Updated` covers the entities that changed
  (`UpdatedCovers`); what the decoder makes of the section is their `Changes`
  (`UpdatesAreChanges`); and `AppliedIs` says what destroys, creates and updates
  make of the entities in order.  A dirty list says which fields to write, and
  its section is followed as a set of writes: the encoder's section *tells* them,
  entry by entry (`Tells`), and what the decoder makes of it *says* them, entity
  by entity (`Says`, `SparseSays`).
  The inductive invariant is `Follow`.  It adds to `ReplicaFollows` that both
  lists are in order, which the searches need, and that each component has the
  fields of the schema, all of them numbers (`Fits`, `Near`); a field that a delta
  holds back is off by one more threshold (`HeldBack`), one that it writes is
  off by none.
* `EncodingsAgreeCorrect`: in every reachable state the three encodings, where the
  encoder makes them, decode to the same delta.  Each encoder is followed through
  its decoder to one list, `Changes`, written down without either: the changed
  entities in order, each with its changed components and fields in the order
  of the schema (`UpdatesAreChanges`).  The masks read back by ranks
  (`MaskedIsChanges`); the sparse entries are put one after another and grouped
  again by entity, which is about where the entries of an entity lie in the
  flattened list (`FlattenIs`, `PiecesAre`, `SparseIsChanges`); the packed index
  keeps every index (`PackedIndexIs`, `PackedIsVarint`).  No invariant but `Follow` is
  needed.
* `EncodedIsDecodableCorrect`: a delta that is encoded, in any of the encodings, is
  accepted and applied by the receiver, but for the two cases the property names:
  a sparse encoding of a schema out of order, and too many entities after
  applying.  Both halves of the code check limits, order, masks and
  ranges, and not the same ones.  That each check of the decoders
  passes follows from one the encoder has made (its limits on sections and
  components, the range of a field), or from the order in which it lists things
  (by ascending id, no mask empty, no entry twice), or, for a field the encoder
  has left out, from nothing being read for it.  For the checks of `apply_delta_snapshot`,
  which look at the receiver's entities, `Follow` is needed: the receiver has every
  entity and component that is updated or destroyed and none that is created, and
  what it holds has the ids the delta was made for, if not the values
  (`EncodedDecodes`, `SaidApplies`, `DeltaApplies`).

The codec proofs rest on `StreamAssumption` (ids of components are distinct, as
`schema.rs` checks; entities have natural ids; the application puts only
components in a snapshot that the schema has, since a delta passes over others without
an error; fields have values; limits are numbers, as they are `usize` in
`limits.rs`) and on `PowersOfTwo`, a fact of arithmetic
(`n < 2^n`), for the numbers of fields in a schema, that the provers do not know.

### Bits, packets and sessions (`WireStream_proofs`)

* `TypeCorrect`: while sections are made in place in a used buffer and moved down
  over the room left for their prefix, the buffer keeps its size, no writer
  leaves it, and a session's last tick is a u32.  The inductive invariant is
  `IInv`: all buffers are bits in whole bytes, an open writer has exactly what
  lies behind the room for the longest prefix (`OpenWriter`), and what is under
  way is bits.  Without whole bytes neither an aligned write nor the move of a
  body would fit where the code takes it to fit.
* `VarintReadersAlwaysAgree`: on any bits a writer may leave, the three readers
  (`reader.rs`, `packet.rs`, `session.rs`) give the number that the groups denote
  and the same next byte if that number fits a u32, and all fail where no varint
  ends.  Two of them keep of each group what fits a u32 and add; the third adds in a
  u64 and casts.  All groups but the last possible one end within the u32, so that
  they are kept whole and cannot carry into each other (`InGroups`, `GroupKept`), and
  what either way loses of the last one (`GroupWraps`) is nothing below 2^32.
* `SessionsAdvance`: whatever its bits are, and however often it comes, a compact
  packet that is accepted takes a session to a later tick, because the sum is
  checked before it is made (`SessionTick`, `CompactAdvances`).
* `InPlaceAlways`: what was closed is, byte for byte, the sections that
  `encode_section` makes of the bodies of a growable writer, whatever the buffer
  held before.  The invariant is `InPlace`: an open writer is at the bit where a
  growable one would be, with the same bits before it (`Alike`), which every
  write of a value keeps (`WriteValueAlike`), refusals included; closing aligns
  both, so that they are the same bytes (`ClosedBody`), and moving the body over
  the unused room leaves prefix and body one behind the other, though the two
  places may overlap (`MovedDown`, `CloseSectionIs`).
* `BodiesReadBack` and `TruncationsAreNoticed`: the reader, asked for the kinds of
  values in the order they were written, gives the values back, unless the build has
  overflow checks and one of them is `Wide`; and it gives nothing when the last byte
  is gone.  Both
  follow from one invariant, `Readable`: the values of an open body have places
  (`Places`) in its buffer, one behind another up to the writer's position, at
  each of which the value reads back from *any* data that agree with the buffer
  so far as they go, and is found to be cut off where they end before it
  (`ReadsBack`).  Saying it of all such data is what makes it inductive: neither
  what is written later nor where the data are cut can disturb it
  (`StillReadsBack`).  A step adds one value, and `ValueReadsBack` is the case of
  one value for every codec: the bits, bytes and groups of a number have that
  number as their sum (`BitsBack`, `BytesOf`, `GroupsOf`), a varint is found to
  end where it was ended (`VarintEnds`), zigzag and sign extension are undone
  modulo the width of an i64 (`UnzigzagIs`, `SIntBack`), and the offset of a
  fixed point within its range is the one that was added (`FixedBack`).
  `ReadsNext` and `BodyOutcome` carry this along the reader's fold.

The proofs hold for every width of a byte and of the integers for which a varint
has room for a u32 (`WidthAssumption`), from `PowersOfTwo`, laws of exponents for
the widths there are, which the provers do not know, and from `WireAssumption`:
values of the code's types and codecs a schema may have, a packed index that takes
no bits only when it is 0 (the width is that of the largest, `delta.rs`), a payload
whose length is a u32.  A bit string's number, its bytes and a list put together of parts are
folds, which the library defines by choosing a recursive function.
`RankedRecursion` shows that there is such a function; `NumberIs`, `TotalIs` and
`FlattenIs` say what one step adds, and `UpwardInduction` takes it from there.
The body of a growable writer is such a fold too (`BodyIs`, `BodyGrows`), and so
is what a reader makes of one (`ReadingIs`).

### Only model-checked

* Liveness (`EverySnapshotArrives`, `ResyncRepairs`, `ClientsConverge`), which is
  out of the prover's reach.
* `PacketArrives` of `WireStream`: that a header read from its bytes is the one
  that was written, in both forms, and that the sections which a decoder finds
  one behind another, by the lengths they carry, are those that were put there.
  This is a second induction, over the sections of a packet, on top of the one
  over the values of a body.
* The runs that are expected to find a violation.

## 5. Plan

1. `RepStream`: `RepGraph` over a session with acknowledgements outstanding,
   where the dirty sets count from the last build and the delta from the last
   acknowledged baseline (`codec/src/delta.rs:139`).
2. The schema hash and `tools`' packet inspection as pure operators.

## 6. Not modelled, and why

* The schema hash and the schema builders: functions of a static value that is
  made once; a packet carries the hash as one number, which is compared.
* `tools`, `demo-schema` and `fuzz` keep no state and call the library.  (The
  entity count that `tools` prints for a sparse section is the number of its
  entries.)
* Of `demo-sim`, `simbench` and `sdec-bevy-demo`: the generators of movement, the
  comparison with another library, command lines, measurements and reports.
  `simbench`'s visibility run builds a delta it does not encode, which the graph
  takes for received; it measures, and nothing is replicated.
* Scratch buffers of the codec, which are cleared before use, and metrics.
* Error texts and the data in errors; an error is its variant.
* Floating point distance is replaced by set membership.
