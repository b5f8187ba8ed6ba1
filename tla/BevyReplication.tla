-------------------------- MODULE BevyReplication --------------------------
(***************************************************************************)
(* Replication between two Bevy worlds (src/sdec-bevy), driven the way     *)
(* src/sdec-bevy-demo drives it: the world changes, the server extracts    *)
(* the changes that Bevy tracked and encodes a frame, the client applies   *)
(* frames one by one and asks for a full snapshot after an error, and the  *)
(* trackers are cleared.  The frames are those of BevyReplicator (the      *)
(* lists of extract_changes, encode_frame and apply_frame); the order of   *)
(* the calls, the faults of the link and the resync are the demo's, which  *)
(* itself sends the deltas of its ReplicationGraph in compact packets.     *)
(*                                                                         *)
(* The server never hears what became of a frame.  Only an error on the    *)
(* client leads to a resync; a lost frame is no error.                     *)
(***************************************************************************)
EXTENDS EntityMap, Sequences

CONSTANTS
  Entities,     (* bound: the entities the server ever spawns              *)
  Registered,   (* the orders in which components may be registered        *)
  Values,
  MaxCreates,   (* max_entities_create of the limits                       *)
  MaxFrames,    (* bound: frames the server extracts                       *)
  MaxEdits,     (* bound: changes of the server's world                    *)
  MaxInFlight,  (* bound: frames under way                                 *)
  MaxFaults,    (* bound: faults of the link                               *)
  Absent

(* Maps from a part of D to R. *)
MapsOf(D, R) == UNION {[d -> R] : d \in SUBSET D}

(* A frame of changes, for components cs. *)
FramesOf(cs) ==
  LET entities == MapsOf(1 .. MaxId, MapsOf(cs, Values)) IN
  [upserts : entities, destroys : SUBSET (1 .. MaxId),
   creates : entities, updates : entities]

ASSUME ReplicationAssumption ==
  /\ IsFiniteSet(Entities) /\ Values # {}
  /\ MaxCreates \in Nat /\ MaxFrames \in Nat /\ MaxEdits \in Nat
  /\ MaxInFlight \in Nat /\ MaxFaults \in Nat
  /\ \A o \in Registered :
       LET cs == {o[i] : i \in DOMAIN o} IN
       Absent \notin MapsOf(cs, Values) /\ Absent \notin FramesOf(cs)

VARIABLES
  order,      (* the component ids of the schema, as registered            *)
  phase,      (* of the server's tick: "change", "extract" or "sent"       *)
  frames,     (* ticks so far                                              *)
  edits,      (* changes of the world so far                               *)
  world,      (* entity -> [component -> value], or Absent                 *)
  unborn,     (* entities not spawned yet: Bevy never reuses an Entity     *)
  trackers,   (* what changed since the trackers were cleared              *)
  ids,        (* the server's EntityMap                                    *)
  draft,      (* the change set being extracted                            *)
  net,        (* frames under way                                          *)
  faults,     (* of the link so far                                        *)
  applying,   (* what is left of the frame being applied, or Absent        *)
  failed,     (* an error was reported and no resync has answered it       *)
  replica,    (* the client's world: spawned entity -> its components      *)
  spawned,    (* how many entities the client ever spawned                 *)
  client_ids, (* the client's EntityMap                                    *)
  synced,     (* history: no frame was lost, refused or put out of order   *)
  repaired,   (* history: there was a resync                               *)
  orphaned,   (* history: ids destroyed although their entity lives on     *)
  strays      (* history: creates of ids the client had already            *)

serverVars == <<phase, frames, edits, world, unborn, trackers, ids, draft>>
clientVars == <<applying, failed, replica, spawned, client_ids>>
history == <<synced, repaired, orphaned, strays>>
vars == <<order, serverVars, net, faults, clientVars, history>>

Components == {order[i] : i \in DOMAIN order}
Nothing == [upserts |-> <<>>, destroys |-> {}, creates |-> <<>>, updates |-> <<>>]
NoDraft == [todo |-> {}, frame |-> Nothing]
NoTrackers == [added |-> {}, changed |-> {}, removed |-> {}]
Idle == applying = Absent /\ ~failed
Live == {e \in Entities : world[e] # Absent}

Init ==
  /\ order \in Registered
  /\ phase = "change" /\ frames = 0 /\ edits = 0
  /\ world = [e \in Entities |-> Absent]
  /\ unborn = Entities
  /\ trackers = NoTrackers
  /\ ids = EmptyMap
  /\ draft = NoDraft
  /\ net = <<>> /\ faults = 0
  /\ applying = Absent
  /\ failed = FALSE
  /\ replica = <<>> /\ spawned = 0
  /\ client_ids = EmptyMap
  /\ synced = TRUE /\ repaired = FALSE /\ orphaned = {} /\ strays = 0

(* A fault: the histories say nothing more, until a resync.                *)
OutOfStep == synced' = FALSE /\ UNCHANGED repaired /\ orphaned' = {} /\ strays' = 0

-----------------------------------------------------------------------------
(* The server's world changes, and Bevy tracks it.  A removal takes the    *)
(* component out of Added and Changed, which are filters of queries.       *)

ServerWorld(e, components, t) ==
  /\ phase = "change"
  /\ frames < MaxFrames /\ edits < MaxEdits
  /\ edits' = edits + 1
  /\ world' = [world EXCEPT ![e] = components]
  /\ trackers' = t
  /\ UNCHANGED <<order, faults, phase, frames, ids, draft, net, clientVars,
                 history>>

Tracked(e, cs) == {e} \X cs

Inserted(e, cs) ==
  [trackers EXCEPT !.added = @ \cup Tracked(e, cs), !.changed = @ \cup Tracked(e, cs)]

Removed(e, cs) ==
  [added |-> trackers.added \ Tracked(e, cs),
   changed |-> trackers.changed \ Tracked(e, cs),
   removed |-> trackers.removed \cup Tracked(e, cs)]

Initial(cs) == [c \in cs |-> CHOOSE v \in Values : TRUE]

Spawn(e, cs) ==
  /\ e \in unborn
  /\ unborn' = unborn \ {e}
  /\ ServerWorld(e, Initial(cs), Inserted(e, cs))

Despawn(e) ==
  /\ e \in Live
  /\ unborn' = unborn
  /\ ServerWorld(e, Absent, Removed(e, DOMAIN world[e]))

AddComponent(e, c) ==
  /\ e \in Live
  /\ c \notin DOMAIN world[e]
  /\ unborn' = unborn
  /\ ServerWorld(e, Over(Initial({c}), world[e]), Inserted(e, {c}))

RemoveComponent(e, c) ==
  /\ e \in Live
  /\ c \in DOMAIN world[e]
  /\ unborn' = unborn
  /\ ServerWorld(e, Without(world[e], c), Removed(e, {c}))

SetValue(e, c, v) ==
  /\ e \in Live
  /\ c \in DOMAIN world[e]
  /\ v # world[e][c]
  /\ unborn' = unborn
  /\ ServerWorld(e, [world[e] EXCEPT ![c] = v],
                 [trackers EXCEPT !.changed = @ \cup Tracked(e, {c})])

-----------------------------------------------------------------------------
(* extract_changes: entities that lost a component are destroyed, those    *)
(* that gained one are created, with all they have, and the others that    *)
(* changed are updated.  Ids are given out in the order of a HashSet.      *)

EntitiesIn(tracked) == {pair[1] : pair \in tracked}

(* Mutant: a component added to a known entity is sent as an update. *)
Creating_OnlyUnknown == {e \in EntitiesIn(trackers.added) : ~Known(ids, e)}

Creating == EntitiesIn(trackers.added)
Updating == EntitiesIn(trackers.changed) \ Creating
Destroying == {ids.to_id[e] : e \in {x \in EntitiesIn(trackers.removed) : Known(ids, x)}}

Extract ==
  /\ phase = "change"
  /\ frames < MaxFrames
  /\ phase' = "extract"
  /\ draft' = [todo |-> Creating \cup Updating,
               frame |-> [Nothing EXCEPT !.destroys = Destroying]]
  /\ UNCHANGED <<order, faults, frames, edits, world, unborn, trackers, ids,
                 net, clientVars, history>>

ChangedOf(e) == {c \in Components : <<e, c>> \in trackers.changed}

(* The frame with entity e in it, under its id.  A list that names an id   *)
(* twice is marked Absent: it cannot be encoded (creates are refused by    *)
(* ensure_entities_sorted, updates by validate_updates_for_encoding).      *)
Put(list, id, components) ==
  IF list = Absent \/ id \in DOMAIN list THEN Absent ELSE With(list, id, components)

Collect(e) ==
  /\ phase = "extract"
  /\ e \in draft.todo
  /\ e \in Creating \/ draft.todo \cap Creating = {}
  /\ ids' = EntityId(ids, e)
  /\ IF Known(ids, e) \/ ids.next_id < MaxId THEN UNCHANGED history ELSE OutOfStep
  /\ LET id == ids'.to_id[e] IN
     draft' = [todo |-> draft.todo \ {e},
               frame |->
                 IF e \in Creating
                 THEN [draft.frame EXCEPT !.creates = Put(@, id, world[e])]
                 ELSE [draft.frame EXCEPT !.updates =
                         Put(@, id, [c \in ChangedOf(e) |-> world[e][c]])]]
  /\ UNCHANGED <<order, faults, phase, frames, edits, world, unborn, trackers,
                 net, clientVars>>

(* encode_delta_from_changes.  The limits on destroys, on updates and on   *)
(* sections refuse a frame as the one on creates does, and are left out.   *)
Encodes(frame) ==
  /\ frame.creates # Absent
  /\ frame.updates # Absent
  /\ Cardinality(DOMAIN frame.creates) <= MaxCreates

(* Ids the client keeps although this frame creates them.                  *)
CreatedAgain(frame) ==
  {id \in DOMAIN frame.creates : \E e \in Live :
     /\ Known(ids, e) /\ ids.to_id[e] = id
     /\ id \notin frame.destroys \cup orphaned
     /\ \E c \in DOMAIN world[e] : <<e, c>> \notin trackers.added}

LiveIds == {ids.to_id[e] : e \in {x \in Live : Known(ids, x) /\ world[x] # <<>>}}

Send ==
  /\ phase = "extract"
  /\ draft.todo = {}
  /\ Encodes(draft.frame)
  /\ Len(net) < MaxInFlight
  /\ net' = Append(net, draft.frame)
  /\ phase' = "sent"
  /\ draft' = NoDraft
  /\ IF synced
     THEN /\ orphaned' = (orphaned \cup (draft.frame.destroys \cap LiveIds))
                           \ DOMAIN draft.frame.creates
          /\ strays' = strays + Cardinality(CreatedAgain(draft.frame))
     ELSE UNCHANGED <<orphaned, strays>>
  /\ UNCHANGED <<order, faults, frames, edits, world, unborn, trackers, ids,
                 clientVars, synced, repaired>>

(* encode_frame returns the error: the changes are not kept.               *)
EncodeFails ==
  /\ phase = "extract"
  /\ draft.todo = {}
  /\ ~Encodes(draft.frame)
  /\ phase' = "sent"
  /\ draft' = NoDraft
  /\ OutOfStep
  /\ UNCHANGED <<order, faults, frames, edits, world, unborn, trackers, ids,
                 net, clientVars>>

(* clear_trackers, when the client has done with what was delivered.       *)
EndFrame ==
  /\ phase = "sent"
  /\ Idle
  /\ phase' = "change"
  /\ frames' = frames + 1
  /\ trackers' = NoTrackers
  /\ UNCHANGED <<order, faults, edits, world, unborn, ids, draft, net,
                 clientVars, history>>

-----------------------------------------------------------------------------
(* The link. *)

LinkFault ==
  /\ phase = "sent" /\ Idle
  /\ faults < MaxFaults
  /\ faults' = faults + 1
  /\ OutOfStep
  /\ UNCHANGED <<order, serverVars, clientVars>>

Lose ==
  /\ net # <<>>
  /\ net' = Tail(net)
  /\ LinkFault

Swap ==
  /\ Len(net) = 2
  /\ net' = <<net[2], net[1]>>
  /\ LinkFault

-----------------------------------------------------------------------------
(* apply_frame: decode the frame, then apply_changes goes through the      *)
(* destroys, the creates and the updates in the order of their ids, and    *)
(* stops where it fails, with what it did so far left in the world.  A     *)
(* full snapshot is applied by upserts and then destroys.                  *)

FrameFails ==
  /\ applying' = Absent
  /\ failed' = TRUE
  /\ OutOfStep
  /\ UNCHANGED <<order, faults, serverVars, spawned, client_ids>>

(* The sparse section is written in the order of the schema and read in    *)
(* ascending order of component ids.                                       *)
Place(c) == CHOOSE i \in DOMAIN order : order[i] = c

Readable(frame) ==
  \A id \in DOMAIN frame.updates : \A c, d \in DOMAIN frame.updates[id] :
    c < d => Place(c) < Place(d)

Deliver ==
  /\ phase = "sent" /\ Idle
  /\ net # <<>>
  /\ Readable(Head(net))
  /\ net' = Tail(net)
  /\ applying' = Head(net)
  /\ UNCHANGED <<order, faults, serverVars, failed, replica, spawned,
                 client_ids, history>>

(* A frame that cannot be decoded leaves the world alone, whatever the     *)
(* error: the order of sparse updates stands for all of them.              *)
DecodeFails ==
  /\ phase = "sent" /\ Idle
  /\ net # <<>>
  /\ ~Readable(Head(net))
  /\ net' = Tail(net)
  /\ FrameFails
  /\ UNCHANGED replica

(* One round of one of the loops: the client's world, its EntityMap and    *)
(* what is left to apply.                                                  *)
Round(w, m, left) ==
  /\ replica' = w
  /\ client_ids' = m
  /\ applying' = left
  /\ UNCHANGED <<order, faults, serverVars, net, failed, history>>

First(numbers) == CHOOSE x \in numbers : \A y \in numbers : x <= y
Handle == spawned + 1

(* apply_full_snapshot: the entity that has the id keeps the components    *)
(* the snapshot does not mention.                                          *)
Upsert ==
  /\ applying # Absent
  /\ applying.upserts # <<>>
  /\ LET id == First(DOMAIN applying.upserts)
         components == applying.upserts[id]
         left == [applying EXCEPT !.upserts = Without(@, id)] IN
     IF id \in DOMAIN client_ids.to_entity
     THEN LET entity == client_ids.to_entity[id] IN
          /\ Round([replica EXCEPT ![entity] = Over(components, @)], client_ids, left)
          /\ UNCHANGED spawned
     ELSE /\ Round(With(replica, Handle, components), Register(client_ids, id, Handle), left)
          /\ spawned' = Handle

ApplyDestroy ==
  /\ applying # Absent
  /\ applying.upserts = <<>>
  /\ applying.destroys # {}
  /\ LET id == First(applying.destroys)
         left == [applying EXCEPT !.destroys = @ \ {id}] IN
     IF id \in DOMAIN client_ids.to_entity
     THEN Round(Without(replica, client_ids.to_entity[id]), Unregister(client_ids, id), left)
     ELSE Round(replica, client_ids, left)
  /\ UNCHANGED spawned

ApplyCreate ==
  /\ applying # Absent
  /\ applying.destroys = {}
  /\ applying.creates # <<>>
  /\ LET id == First(DOMAIN applying.creates) IN
     Round(With(replica, Handle, applying.creates[id]),
           Register(client_ids, id, Handle),
           [applying EXCEPT !.creates = Without(@, id)])
  /\ spawned' = Handle

Updatable ==
  /\ applying # Absent
  /\ applying.destroys = {}
  /\ applying.creates = <<>>
  /\ applying.updates # <<>>

(* The components of an update the client's entity does not have; none     *)
(* when it does not know the id, and the update is passed over.            *)
MissingIn(id) ==
  IF id \notin DOMAIN client_ids.to_entity THEN {}
  ELSE DOMAIN applying.updates[id] \ DOMAIN replica[client_ids.to_entity[id]]

(* The replica with the components cs of an update applied.                *)
WithUpdate(id, cs) ==
  IF id \notin DOMAIN client_ids.to_entity THEN replica
  ELSE [replica EXCEPT ![client_ids.to_entity[id]] =
          [c \in DOMAIN @ |-> IF c \in cs THEN applying.updates[id][c] ELSE @[c]]]

ApplyUpdate ==
  /\ Updatable
  /\ LET id == First(DOMAIN applying.updates) IN
     /\ MissingIn(id) = {}
     /\ Round(WithUpdate(id, DOMAIN applying.updates[id]), client_ids,
              [applying EXCEPT !.updates = Without(@, id)])
  /\ UNCHANGED spawned

ApplyFails ==
  /\ Updatable
  /\ LET id == First(DOMAIN applying.updates)
         cs == DOMAIN applying.updates[id] IN
     /\ MissingIn(id) # {}
     /\ replica' = WithUpdate(id, {c \in cs : \A m \in MissingIn(id) : Place(c) < Place(m)})
  /\ FrameFails
  /\ UNCHANGED net

ApplyDone ==
  /\ applying = Nothing
  /\ applying' = Absent
  /\ UNCHANGED <<order, faults, serverVars, net, failed, replica, spawned,
                 client_ids, history>>

-----------------------------------------------------------------------------
(* resync_client: a full snapshot of what the server has now goes to the   *)
(* client directly, past the frames under way.                             *)

Snapshot ==
  [id \in {i \in DOMAIN ids.to_entity : ids.to_entity[i] \in Live
                                        /\ world[ids.to_entity[i]] # <<>>}
     |-> world[ids.to_entity[id]]]

Sendable == Snapshot # <<>> /\ Cardinality(DOMAIN Snapshot) <= MaxCreates

Resync ==
  /\ failed
  /\ Sendable
  /\ applying' = [Nothing EXCEPT
       !.upserts = Snapshot,
       !.destroys = DOMAIN client_ids.to_entity \ DOMAIN Snapshot]
  /\ failed' = FALSE
  /\ synced' = (net = <<>> /\ Cardinality(DOMAIN ids.to_id) <= MaxId)
  /\ repaired' = TRUE
  /\ orphaned' = {}
  /\ UNCHANGED <<order, faults, serverVars, net, replica, spawned, client_ids,
                 strays>>

(* Nothing to send, or too much of it: the client goes on as it is.        *)
NoResync ==
  /\ failed
  /\ ~Sendable
  /\ failed' = FALSE
  /\ UNCHANGED <<order, faults, serverVars, net, applying, replica, spawned,
                 client_ids, history>>

-----------------------------------------------------------------------------
ChangeWorld ==
  \E e \in Entities :
    \/ \E cs \in SUBSET Components \ {{}} : Spawn(e, cs)
    \/ Despawn(e)
    \/ \E c \in Components :
         \/ AddComponent(e, c)
         \/ RemoveComponent(e, c)
         \/ \E v \in Values : SetValue(e, c, v)

Server == Extract \/ (\E e \in draft.todo : Collect(e)) \/ Send \/ EncodeFails \/ EndFrame

ClientStep ==
  \/ Deliver \/ DecodeFails
  \/ Upsert \/ ApplyDestroy \/ ApplyCreate \/ ApplyUpdate \/ ApplyFails \/ ApplyDone
  \/ Resync \/ NoResync

Next == ChangeWorld \/ Server \/ Lose \/ Swap \/ ClientStep

Spec == Init /\ [][Next]_vars

-----------------------------------------------------------------------------
ComponentValues == MapsOf(Components, Values)

(* Types: ids are below the server's next_id, and what is known of an      *)
(* entity is tracked with components of the schema.                        *)
TypeOK ==
  /\ order \in Registered
  /\ phase \in {"change", "extract", "sent"}
  /\ frames \in 0..MaxFrames /\ edits \in 0..MaxEdits
  /\ \A e \in Entities : world[e] = Absent \/ world[e] \in ComponentValues
  /\ unborn \subseteq Entities
  /\ \A k \in DOMAIN trackers : trackers[k] \subseteq Entities \X Components
  /\ DOMAIN ids.to_id \subseteq Entities
  /\ DOMAIN ids.to_entity \subseteq 1..ids.next_id
  /\ Len(net) <= MaxInFlight /\ faults \in 0..MaxFaults
  /\ DOMAIN replica \subseteq 1..spawned
  /\ \A h \in DOMAIN replica : replica[h] \in ComponentValues
  /\ DOMAIN client_ids.to_entity \subseteq 1..client_ids.next_id
  /\ failed \in BOOLEAN /\ synced \in BOOLEAN /\ repaired \in BOOLEAN
  /\ orphaned \subseteq 1..MaxId
  /\ strays \in Nat

(* mapping.rs: on both sides an id leads to an entity that leads back to   *)
(* it, and on the client that entity is in the world, whatever was lost,   *)
(* refused or applied by half.                                             *)
MapsAgree ==
  /\ Agree(ids)
  /\ Agree(client_ids)
  /\ \A id \in DOMAIN client_ids.to_entity : client_ids.to_entity[id] \in DOMAIN replica

Settled == phase = "sent" /\ net = <<>> /\ Idle

(* extract.rs and apply.rs: once every frame of a session without faults   *)
(* is applied, the client has the server's entities with their values,     *)
(* but for those that were destroyed by the loss of one component.  It     *)
(* keeps one entity without an id for each create of an id it had; and     *)
(* after a resync it may have components the server has no more.           *)
ClientFollows ==
  (Settled /\ synced) =>
    /\ DOMAIN client_ids.to_entity = LiveIds \ orphaned
    /\ \A e \in Live : (Known(ids, e) /\ ids.to_id[e] \in LiveIds \ orphaned) =>
         LET copy == replica[client_ids.to_entity[ids.to_id[e]]] IN
         IF repaired THEN \A c \in DOMAIN world[e] : c \in DOMAIN copy /\ copy[c] = world[e][c]
         ELSE copy = world[e]
    /\ ~repaired =>
         Cardinality(DOMAIN replica) = Cardinality(DOMAIN client_ids.to_entity) + strays

(* apply.rs: an update names a component the client does not have only     *)
(* after a fault: while the session is in step no frame fails half way.    *)
NoFailureInStep ==
  (synced /\ Updatable) =>
    \A id \in DOMAIN applying.updates : MissingIn(id) = {}
=============================================================================
