----------------------- MODULE BevyReplication_proofs -----------------------
(***************************************************************************)
(* The entity maps of both sides stay sound and every variable keeps its   *)
(* type, for any entities, components, limits and number of ids, on a link *)
(* that loses and reorders frames.  While nothing was lost, refused or put *)
(* out of order the client follows the server (FollowInv, further down).   *)
(***************************************************************************)
EXTENDS BevyReplication, NaturalsOrder, FiniteSetTheorems, SequenceTheorems, TLAPS

(* mapping.rs, entity_id: a map that agrees still does after an entity was *)
(* given its id, the repeated last one included.                           *)
LEMMA EntityIdAgrees ==
  ASSUME NEW m, NEW entity, Agree(m)
  PROVE  Agree(EntityId(m, entity))
<1>1. CASE Known(m, entity)
  BY <1>1 DEF EntityId
<1>2. CASE ~Known(m, entity)
  <2> DEFINE next == EntityId(m, entity).next_id
             n == [next_id |-> next,
                   to_id |-> With(m.to_id, entity, next),
                   to_entity |-> With(m.to_entity, next, entity)]
  <2>1. EntityId(m, entity) = n
    BY <1>2 DEF EntityId
  <2> HIDE DEF next
  <2>2. ASSUME NEW id \in DOMAIN n.to_entity
        PROVE  n.to_entity[id] \in DOMAIN n.to_id /\ n.to_id[n.to_entity[id]] = id
    BY <1>2, <2>2 DEF Agree, With, Known
  <2> QED
    BY <2>1, <2>2 DEF Agree
<1> QED
  BY <1>1, <1>2

(* register: likewise, for an entity the map does not have yet.            *)
LEMMA RegisterAgrees ==
  ASSUME NEW m, NEW id, NEW entity, Agree(m), entity \notin DOMAIN m.to_id
  PROVE  Agree(Register(m, id, entity))
  BY DEF Agree, Register, With

(* unregister: likewise; no other id led to the entity that went.          *)
LEMMA UnregisterAgrees ==
  ASSUME NEW m, NEW id, Agree(m)
  PROVE  /\ Agree(Unregister(m, id))
         /\ \A other \in DOMAIN Unregister(m, id).to_entity :
              /\ other \in DOMAIN m.to_entity
              /\ Unregister(m, id).to_entity[other] = m.to_entity[other]
              /\ id \in DOMAIN m.to_entity => m.to_entity[other] # m.to_entity[id]
  BY DEF Agree, Unregister, Without

-----------------------------------------------------------------------------
(* MapsAgree and what keeps it: the client's next handle is a new one.     *)
HandlesUsed ==
  /\ spawned \in Nat
  /\ \A h \in DOMAIN client_ids.to_id : h \in Nat /\ h <= spawned

IInv == MapsAgree /\ HandlesUsed

ClientPart == <<replica, spawned, client_ids>>

LEMMA InitIInv == Init => IInv
  BY DEF Init, IInv, MapsAgree, HandlesUsed, Agree, EmptyMap

(* A step that leaves the client's world and map alone.                    *)
LEMMA ServerKeepsIInv ==
  ASSUME IInv, UNCHANGED ClientPart, Agree(ids')
  PROVE  IInv'
  BY DEF IInv, MapsAgree, HandlesUsed, Agree, ClientPart

(* A step that spawns an entity for an id.                                 *)
LEMMA SpawnKeepsIInv ==
  ASSUME IInv, NEW id, NEW components,
         replica' = With(replica, Handle, components),
         client_ids' = Register(client_ids, id, Handle),
         spawned' = Handle, UNCHANGED ids
  PROVE  IInv'
<1>1. Handle \notin DOMAIN client_ids.to_id /\ Handle \in Nat
  BY DEF IInv, HandlesUsed, Handle
<1>2. Agree(client_ids')
  BY <1>1, RegisterAgrees DEF IInv, MapsAgree
<1>3. Agree(ids')
  BY DEF IInv, MapsAgree
<1>4. \A i \in DOMAIN client_ids'.to_entity : client_ids'.to_entity[i] \in DOMAIN replica'
  BY DEF IInv, MapsAgree, Register, With
<1>5. HandlesUsed'
  BY <1>1 DEF IInv, HandlesUsed, Register, With, Handle
<1> QED
  BY <1>2, <1>3, <1>4, <1>5 DEF IInv, MapsAgree, Agree

(* A step that changes components only.                                    *)
LEMMA SameEntitiesKeepIInv ==
  ASSUME IInv, DOMAIN replica' = DOMAIN replica, UNCHANGED <<ids, client_ids, spawned>>
  PROVE  IInv'
  BY DEF IInv, MapsAgree, HandlesUsed, Agree

LEMMA DestroyKeepsIInv ==
  ASSUME IInv, ApplyDestroy
  PROVE  IInv'
<1> DEFINE id == First(applying.destroys)
<1>1. UNCHANGED <<ids, spawned>>
  BY DEF ApplyDestroy, Round, serverVars
<1>2. CASE id \in DOMAIN client_ids.to_entity
  <2>1. /\ replica' = Without(replica, client_ids.to_entity[id])
        /\ client_ids' = Unregister(client_ids, id)
    BY <1>2 DEF ApplyDestroy, Round
  <2> HIDE DEF id
  <2>2. Agree(client_ids')
    BY <2>1, UnregisterAgrees DEF IInv, MapsAgree
  <2>3. \A i \in DOMAIN client_ids'.to_entity : client_ids'.to_entity[i] \in DOMAIN replica'
    BY <1>2, <2>1, UnregisterAgrees DEF IInv, MapsAgree, Without
  <2>4. HandlesUsed'
    BY <1>1, <1>2, <2>1 DEF IInv, HandlesUsed, Unregister, Without
  <2> QED
    BY <1>1, <2>2, <2>3, <2>4 DEF IInv, MapsAgree, Agree
<1>3. CASE id \notin DOMAIN client_ids.to_entity
  BY <1>1, <1>3, SameEntitiesKeepIInv DEF ApplyDestroy, Round
<1> QED
  BY <1>2, <1>3

LEMMA UpsertKeepsIInv ==
  ASSUME IInv, Upsert
  PROVE  IInv'
<1> DEFINE id == First(DOMAIN applying.upserts)
<1>1. UNCHANGED ids
  BY DEF Upsert, Round, serverVars
<1>2. CASE id \in DOMAIN client_ids.to_entity
  <2>1. DOMAIN replica' = DOMAIN replica /\ UNCHANGED <<client_ids, spawned>>
    BY <1>2 DEF Upsert, Round
  <2> QED
    BY <1>1, <2>1, SameEntitiesKeepIInv
<1>3. CASE id \notin DOMAIN client_ids.to_entity
  <2>1. /\ replica' = With(replica, Handle, applying.upserts[id])
        /\ client_ids' = Register(client_ids, id, Handle)
        /\ spawned' = Handle
    BY <1>3 DEF Upsert, Round
  <2> QED
    BY <1>1, <2>1, SpawnKeepsIInv
<1> QED
  BY <1>2, <1>3

LEMMA CreateKeepsIInv ==
  ASSUME IInv, ApplyCreate
  PROVE  IInv'
<1> DEFINE id == First(DOMAIN applying.creates)
<1>1. /\ replica' = With(replica, Handle, applying.creates[id])
      /\ client_ids' = Register(client_ids, id, Handle)
      /\ spawned' = Handle /\ UNCHANGED ids
  BY DEF ApplyCreate, Round, serverVars
<1> QED
  BY <1>1, SpawnKeepsIInv

(* An update, whole or cut short by an error, keeps the entities.          *)
LEMMA WithUpdateDomain ==
  ASSUME NEW id, NEW cs
  PROVE  DOMAIN WithUpdate(id, cs) = DOMAIN replica
  BY DEF WithUpdate

LEMMA UpdateKeepsIInv ==
  ASSUME IInv, ApplyUpdate \/ ApplyFails
  PROVE  IInv'
<1>1. DOMAIN replica' = DOMAIN replica
  BY WithUpdateDomain DEF ApplyUpdate, ApplyFails, Round
<1>2. UNCHANGED <<ids, client_ids, spawned>>
  BY DEF ApplyUpdate, ApplyFails, FrameFails, Round, serverVars
<1> QED
  BY <1>1, <1>2, SameEntitiesKeepIInv

LEMMA NextIInv == IInv /\ [Next]_vars => IInv'
<1> SUFFICES ASSUME IInv, [Next]_vars PROVE IInv'
  OBVIOUS
<1> USE DEF ClientPart
<1>0. Agree(ids)
  BY DEF IInv, MapsAgree
<1>1. ASSUME NEW e, NEW components, NEW t, ServerWorld(e, components, t)
      PROVE  IInv'
  <2>1. UNCHANGED ClientPart /\ ids' = ids
    BY <1>1 DEF ServerWorld, clientVars
  <2> QED
    BY <1>0, <2>1, ServerKeepsIInv DEF Agree
<1>2. CASE ChangeWorld
  BY <1>1, <1>2 DEF ChangeWorld, Spawn, Despawn, AddComponent, RemoveComponent, SetValue
<1>3. ASSUME NEW e \in draft.todo, Collect(e)
      PROVE  IInv'
  <2>1. UNCHANGED ClientPart /\ ids' = EntityId(ids, e)
    BY <1>3 DEF Collect, clientVars
  <2> QED
    BY <1>0, <2>1, EntityIdAgrees, ServerKeepsIInv
<1>4. CASE Extract \/ Send \/ EncodeFails \/ EndFrame \/ Lose \/ Swap
  <2>1. UNCHANGED ClientPart /\ ids' = ids
    BY <1>4 DEF Extract, Send, EncodeFails, EndFrame, Lose, Swap, LinkFault, clientVars, serverVars
  <2> QED
    BY <1>0, <2>1, ServerKeepsIInv DEF Agree
<1>5. CASE Deliver \/ DecodeFails \/ ApplyDone \/ Resync \/ NoResync \/ UNCHANGED vars
  <2>1. UNCHANGED ClientPart /\ ids' = ids
    BY <1>5 DEF Deliver, DecodeFails, FrameFails, ApplyDone, Resync, NoResync, vars, clientVars, serverVars
  <2> QED
    BY <1>0, <2>1, ServerKeepsIInv DEF Agree
<1>6. CASE Upsert
  BY <1>6, UpsertKeepsIInv
<1>7. CASE ApplyDestroy
  BY <1>7, DestroyKeepsIInv
<1>8. CASE ApplyCreate
  BY <1>8, CreateKeepsIInv
<1>9. CASE ApplyUpdate \/ ApplyFails
  BY <1>9, UpdateKeepsIInv
<1> QED
  BY <1>2, <1>3, <1>4, <1>5, <1>6, <1>7, <1>8, <1>9 DEF Next, Server, ClientStep

(* Both entity maps lead back, and the client's to entities of its world,  *)
(* whatever was lost, reordered, refused or applied by half.               *)
THEOREM MapsCorrect == Spec => []MapsAgree
<1>1. IInv => MapsAgree
  BY DEF IInv
<1> QED
  BY InitIInv, NextIInv, <1>1, PTL DEF Spec

-----------------------------------------------------------------------------
(* Maps: what HashMap's operations make of them. *)

(* A map is what it is at the keys it has. *)
LEMMA MapIs ==
  ASSUME NEW D, NEW R, NEW f
  PROVE  f \in MapsOf(D, R) <=>
           /\ f = [x \in DOMAIN f |-> f[x]]
           /\ DOMAIN f \subseteq D
           /\ \A x \in DOMAIN f : f[x] \in R
<1>1. ASSUME f \in MapsOf(D, R)
      PROVE  /\ f = [x \in DOMAIN f |-> f[x]]
             /\ DOMAIN f \subseteq D
             /\ \A x \in DOMAIN f : f[x] \in R
  BY <1>1 DEF MapsOf
<1>2. ASSUME f = [x \in DOMAIN f |-> f[x]],
             DOMAIN f \subseteq D,
             \A x \in DOMAIN f : f[x] \in R
      PROVE  f \in MapsOf(D, R)
  <2>1. f \in [DOMAIN f -> R]
    BY <1>2
  <2>2. QED
    BY <2>1, <1>2 DEF MapsOf
<1>3. QED
  BY <1>1, <1>2

LEMMA MapHas ==
  ASSUME NEW D, NEW R, NEW f \in MapsOf(D, R)
  PROVE  DOMAIN f \subseteq D /\ \A x \in DOMAIN f : f[x] \in R
BY MapIs

(* The empty map is one, and the only one without a key. *)
LEMMA EmptyMapIs ==
  ASSUME NEW D, NEW R
  PROVE  /\ <<>> \in MapsOf(D, R)
         /\ DOMAIN <<>> = {}
         /\ \A f \in MapsOf(D, R) : DOMAIN f = {} => f = <<>>
<1>1. <<>> \in [{} -> R]
  OBVIOUS
<1>2. <<>> \in MapsOf(D, R)
  BY <1>1 DEF MapsOf
<1>3. ASSUME NEW f \in MapsOf(D, R), DOMAIN f = {}
      PROVE  f = <<>>
  <2>1. f \in [{} -> R]
    BY <1>3 DEF MapsOf
  <2>2. QED
    BY <2>1
<1>4. QED
  BY <1>2, <1>3

(* insert, remove and extend give maps of the same kind. *)
LEMMA MapOperations ==
  ASSUME NEW D, NEW R, NEW f \in MapsOf(D, R)
  PROVE  /\ \A k \in D : \A v \in R : With(f, k, v) \in MapsOf(D, R)
         /\ \A k : Without(f, k) \in MapsOf(D, R)
         /\ \A g \in MapsOf(D, R) : Over(g, f) \in MapsOf(D, R)
<1>1. ASSUME NEW k \in D, NEW v \in R
      PROVE  With(f, k, v) \in MapsOf(D, R)
  BY MapIs DEF With
<1>2. ASSUME NEW k
      PROVE  Without(f, k) \in MapsOf(D, R)
  BY MapIs DEF Without
<1>3. ASSUME NEW g \in MapsOf(D, R)
      PROVE  Over(g, f) \in MapsOf(D, R)
  BY MapIs DEF Over
<1>4. QED
  BY <1>1, <1>2, <1>3

(* The loops of apply_changes take the smallest id that is left. *)
LEMMA FirstIsIn ==
  ASSUME NEW S, S \subseteq Nat, S # {}
  PROVE  First(S) \in S
<1>1. \E m \in S : \A n \in S : m <= n
  BY LeastNatural
<1>2. QED
  BY <1>1 DEF First

-----------------------------------------------------------------------------
(* Types.  TypeOK says less than its proof needs: a frame under way or     *)
(* half applied is well formed, and what the trackers of Added and Changed *)
(* name is in the world.                                                   *)

Frame == FramesOf(Components)
EntityData == MapsOf(1 .. MaxId, ComponentValues)

TickTyped ==
  /\ phase \in {"change", "extract", "sent"}
  /\ frames \in 0 .. MaxFrames
  /\ edits \in 0 .. MaxEdits
  /\ phase # "change" => frames < MaxFrames

WorldTyped ==
  /\ world \in [Entities -> ComponentValues \cup {Absent}]
  /\ unborn \subseteq Entities
  /\ \A e \in unborn : world[e] = Absent
  /\ trackers \in [added : SUBSET (Entities \X Components),
                   changed : SUBSET (Entities \X Components),
                   removed : SUBSET (Entities \X Components)]

TrackedIsLive ==
  \A e \in Entities, c \in Components :
    <<e, c>> \in trackers.added \cup trackers.changed => e \in Live /\ c \in DOMAIN world[e]

IdsTyped ==
  ids \in [next_id : 0 .. MaxId, to_id : MapsOf(Entities, 1 .. MaxId),
           to_entity : MapsOf(1 .. MaxId, Entities)]

NextIdIsLast == DOMAIN ids.to_entity \subseteq 1 .. ids.next_id

DraftTyped ==
  /\ draft \in [todo : SUBSET Entities,
                frame : [upserts : EntityData, destroys : SUBSET (1 .. MaxId),
                         creates : EntityData \cup {Absent},
                         updates : EntityData \cup {Absent}]]
  /\ phase = "extract" => draft.todo \subseteq Creating \cup Updating

LinkTyped ==
  /\ net \in Seq(Frame) /\ Len(net) <= MaxInFlight
  /\ faults \in 0 .. MaxFaults

ClientTyped ==
  /\ applying \in Frame \cup {Absent}
  /\ spawned \in Nat
  /\ replica \in MapsOf(1 .. spawned, ComponentValues)
  /\ client_ids \in [next_id : Nat, to_id : MapsOf(1 .. spawned, 1 .. MaxId),
                     to_entity : MapsOf(1 .. MaxId, 1 .. spawned)]
  /\ DOMAIN client_ids.to_entity \subseteq 1 .. client_ids.next_id

HistoryTyped ==
  /\ failed \in BOOLEAN /\ synced \in BOOLEAN /\ repaired \in BOOLEAN
  /\ orphaned \subseteq 1 .. MaxId
  /\ strays \in Nat

Typed ==
  /\ order \in Registered
  /\ TickTyped /\ WorldTyped /\ TrackedIsLive /\ IdsTyped /\ NextIdIsLast
  /\ DraftTyped /\ LinkTyped /\ ClientTyped /\ HistoryTyped

(* What the assumptions say of a typed state. *)
LEMMA Assumed ==
  ASSUME order \in Registered
  PROVE  /\ Absent \notin ComponentValues /\ Absent \notin Frame
         /\ Frame = [upserts : EntityData, destroys : SUBSET (1 .. MaxId),
                     creates : EntityData, updates : EntityData]
         /\ MaxId \in Nat \ {0}
         /\ Nothing \in Frame
<1>1. Absent \notin MapsOf(Components, Values) /\ Absent \notin FramesOf(Components)
  BY ReplicationAssumption DEF Components
<1>2. Frame = [upserts : EntityData, destroys : SUBSET (1 .. MaxId),
               creates : EntityData, updates : EntityData]
  BY DEF Frame, FramesOf, EntityData, ComponentValues
<1>3. Nothing \in Frame
  BY <1>2, EmptyMapIs DEF Nothing, EntityData
<1>4. QED
  BY <1>1, <1>2, <1>3, MaxIdAssumption DEF ComponentValues, Frame

LEMMA FrameHas ==
  ASSUME order \in Registered, NEW frame \in Frame
  PROVE  /\ frame.upserts \in EntityData /\ frame.creates \in EntityData
         /\ frame.updates \in EntityData /\ frame.destroys \subseteq 1 .. MaxId
<1>1. Frame = [upserts : EntityData, destroys : SUBSET (1 .. MaxId),
               creates : EntityData, updates : EntityData]
  BY Assumed
<1>2. QED
  BY ONLY <1>1, frame \in Frame

LEMMA TypedIsTypeOK == Typed => TypeOK
<1> SUFFICES ASSUME Typed PROVE TypeOK
  OBVIOUS
<1>1. order \in Registered /\ TickTyped /\ LinkTyped /\ HistoryTyped
  BY DEF Typed
<1>2. (\A e \in Entities : world[e] = Absent \/ world[e] \in ComponentValues)
      /\ unborn \subseteq Entities
      /\ (\A k \in DOMAIN trackers : trackers[k] \subseteq Entities \X Components)
  <2>1. DOMAIN trackers = {"added", "changed", "removed"}
    BY DEF Typed, WorldTyped
  <2>2. QED
    BY <2>1 DEF Typed, WorldTyped
<1>3. DOMAIN ids.to_id \subseteq Entities /\ DOMAIN ids.to_entity \subseteq 1 .. ids.next_id
  BY MapIs DEF Typed, IdsTyped, NextIdIsLast
<1>4. /\ DOMAIN replica \subseteq 1 .. spawned
      /\ \A h \in DOMAIN replica : replica[h] \in ComponentValues
      /\ DOMAIN client_ids.to_entity \subseteq 1 .. client_ids.next_id
  BY MapIs DEF Typed, ClientTyped
<1>5. QED
  BY <1>1, <1>2, <1>3, <1>4 DEF TypeOK, TickTyped, LinkTyped, HistoryTyped

LEMMA InitTyped == Init => Typed
<1> SUFFICES ASSUME Init PROVE Typed
  OBVIOUS
<1>1. order \in Registered
  BY DEF Init
<1>2. TickTyped
  BY ReplicationAssumption DEF Init, TickTyped
<1>3. WorldTyped /\ TrackedIsLive
  BY DEF Init, WorldTyped, TrackedIsLive, NoTrackers
<1>4. IdsTyped /\ NextIdIsLast
  BY EmptyMapIs, MaxIdAssumption DEF Init, IdsTyped, NextIdIsLast, EmptyMap
<1>5. DraftTyped
  BY EmptyMapIs DEF Init, DraftTyped, NoDraft, Nothing, EntityData
<1>6. LinkTyped
  BY ReplicationAssumption DEF Init, LinkTyped
<1>7. ClientTyped
  BY EmptyMapIs DEF Init, ClientTyped, EmptyMap
<1>8. HistoryTyped
  BY DEF Init, HistoryTyped
<1>9. QED
  BY <1>1, <1>2, <1>3, <1>4, <1>5, <1>6, <1>7, <1>8 DEF Typed

(* The schema is fixed once it is built. *)
LEMMA SchemaUnchanged ==
  ASSUME order' = order
  PROVE  /\ Components' = Components /\ ComponentValues' = ComponentValues
         /\ Frame' = Frame /\ EntityData' = EntityData
  BY DEF Components, ComponentValues, Frame, EntityData

(* The parts of the state a step leaves alone. *)
LEMMA PartsUnchanged ==
  ASSUME Typed, order' = order
  PROVE  /\ UNCHANGED <<phase, frames, edits>> => TickTyped'
         /\ UNCHANGED <<world, unborn, trackers>> => WorldTyped' /\ TrackedIsLive'
         /\ UNCHANGED ids => IdsTyped' /\ NextIdIsLast'
         /\ UNCHANGED <<phase, draft, trackers>> => DraftTyped'
         /\ UNCHANGED <<net, faults>> => LinkTyped'
         /\ UNCHANGED <<applying, spawned, replica, client_ids>> => ClientTyped'
         /\ UNCHANGED <<failed, synced, repaired, orphaned, strays>> => HistoryTyped'
<1>1. /\ Components' = Components /\ ComponentValues' = ComponentValues
      /\ Frame' = Frame /\ EntityData' = EntityData
  BY SchemaUnchanged
<1>2. UNCHANGED <<phase, frames, edits>> => TickTyped'
  BY DEF Typed, TickTyped
<1>3. UNCHANGED <<world, unborn, trackers>> => WorldTyped' /\ TrackedIsLive'
  BY <1>1 DEF Typed, WorldTyped, TrackedIsLive, Live
<1>4. UNCHANGED ids => IdsTyped' /\ NextIdIsLast'
  BY DEF Typed, IdsTyped, NextIdIsLast
<1>5. UNCHANGED <<phase, draft, trackers>> => DraftTyped'
  BY <1>1 DEF Typed, DraftTyped, Creating, Updating, EntitiesIn
<1>6. UNCHANGED <<net, faults>> => LinkTyped'
  BY <1>1 DEF Typed, LinkTyped
<1>7. UNCHANGED <<applying, spawned, replica, client_ids>> => ClientTyped'
  BY <1>1 DEF Typed, ClientTyped
<1>8. UNCHANGED <<failed, synced, repaired, orphaned, strays>> => HistoryTyped'
  BY DEF Typed, HistoryTyped
<1>9. QED
  BY <1>2, <1>3, <1>4, <1>5, <1>6, <1>7, <1>8

(* A change of the server's world. *)
LEMMA ServerWorldTyped ==
  ASSUME Typed,
         NEW e \in Entities, NEW components \in ComponentValues \cup {Absent},
         NEW t \in [added : SUBSET (Entities \X Components),
                    changed : SUBSET (Entities \X Components),
                    removed : SUBSET (Entities \X Components)],
         ServerWorld(e, components, t),
         unborn' \subseteq unborn,
         e \notin unborn',
         \A x \in Entities, c \in Components :
           <<x, c>> \in t.added \cup t.changed =>
             IF x = e THEN components # Absent /\ c \in DOMAIN components
             ELSE <<x, c>> \in trackers.added \cup trackers.changed
  PROVE  Typed'
<1>1. /\ phase = "change" /\ frames < MaxFrames /\ edits < MaxEdits
      /\ edits' = edits + 1
      /\ world' = [world EXCEPT ![e] = components]
      /\ trackers' = t
      /\ UNCHANGED <<order, faults, phase, frames, ids, draft, net>>
      /\ UNCHANGED <<applying, failed, replica, spawned, client_ids>>
      /\ UNCHANGED <<synced, repaired, orphaned, strays>>
  BY DEF ServerWorld, clientVars, history
<1>2. Components' = Components /\ ComponentValues' = ComponentValues /\ EntityData' = EntityData
  BY <1>1, SchemaUnchanged
<1>3. TickTyped'
  BY <1>1, ReplicationAssumption DEF Typed, TickTyped
<1>4. /\ world \in [Entities -> ComponentValues \cup {Absent}]
      /\ unborn \subseteq Entities
      /\ \A x \in unborn : world[x] = Absent
  BY DEF Typed, WorldTyped
<1>5. /\ world' \in [Entities -> ComponentValues \cup {Absent}]
      /\ world'[e] = components
      /\ \A x \in Entities : x # e => world'[x] = world[x]
  BY <1>1, <1>4
<1>6. WorldTyped'
  BY <1>1, <1>2, <1>4, <1>5 DEF WorldTyped
<1>7. TrackedIsLive'
  <2> SUFFICES ASSUME NEW x \in Entities, NEW c \in Components,
                      <<x, c>> \in t.added \cup t.changed
               PROVE  world'[x] # Absent /\ c \in DOMAIN world'[x]
    BY <1>1, <1>2 DEF TrackedIsLive, Live
  <2>1. CASE x = e
    BY <2>1, <1>5
  <2>2. CASE x # e
    BY <2>2, <1>5 DEF Typed, TrackedIsLive, Live
  <2>3. QED
    BY <2>1, <2>2
<1>8. DraftTyped'
  BY <1>1, <1>2 DEF Typed, DraftTyped
<1>9. QED
  BY <1>1, <1>3, <1>6, <1>7, <1>8, PartsUnchanged DEF Typed

LEMMA ChangeWorldTyped ==
  ASSUME Typed, ChangeWorld
  PROVE  Typed'
<1> DEFINE T == [added : SUBSET (Entities \X Components),
                 changed : SUBSET (Entities \X Components),
                 removed : SUBSET (Entities \X Components)]
<1>1. /\ trackers \in T /\ unborn \subseteq Entities
      /\ \A e \in unborn : world[e] = Absent
  BY DEF Typed, WorldTyped
<1>2. \A e \in Live : e \in Entities /\ world[e] \in ComponentValues /\ e \notin unborn
  BY DEF Typed, WorldTyped, Live
<1>3. ASSUME NEW e \in Entities, NEW cs \in SUBSET Components \ {{}}, Spawn(e, cs)
      PROVE  Typed'
  <2> DEFINE t == Inserted(e, cs)
  <2>1. (CHOOSE v \in Values : TRUE) \in Values
    BY ReplicationAssumption
  <2>2. Initial(cs) \in ComponentValues /\ DOMAIN Initial(cs) = cs
    BY <2>1, MapIs DEF Initial, ComponentValues
  <2>3. Initial(cs) # Absent
    BY <2>2, Assumed DEF Typed
  <2>4. ServerWorld(e, Initial(cs), t) /\ unborn' \subseteq unborn /\ e \notin unborn'
    BY <1>3 DEF Spawn
  <2>5. /\ t \in T
        /\ \A x \in Entities, c \in Components : <<x, c>> \in t.added \cup t.changed =>
             IF x = e THEN c \in cs \/ <<x, c>> \in trackers.added \cup trackers.changed
             ELSE <<x, c>> \in trackers.added \cup trackers.changed
    BY <1>1 DEF Inserted, Tracked
  <2>6. \A c \in Components : <<e, c>> \notin trackers.added \cup trackers.changed
    BY <1>3 DEF Typed, TrackedIsLive, Live, WorldTyped, Spawn
  <2> HIDE DEF t
  <2>7. QED
    BY <2>2, <2>3, <2>4, <2>5, <2>6, ServerWorldTyped
<1>4. ASSUME NEW e \in Entities, Despawn(e)
      PROVE  Typed'
  <2> DEFINE t == Removed(e, DOMAIN world[e])
  <2>1. e \in Live /\ ServerWorld(e, Absent, t) /\ unborn' = unborn
    BY <1>4 DEF Despawn
  <2>2. DOMAIN world[e] \subseteq Components
    BY <1>2, <2>1, MapIs DEF ComponentValues
  <2>3. /\ t \in T
        /\ \A x \in Entities, c \in Components : <<x, c>> \in t.added \cup t.changed =>
             /\ <<x, c>> \in trackers.added \cup trackers.changed
             /\ x = e => c \notin DOMAIN world[e]
    BY <1>1, <2>2 DEF Removed, Tracked
  <2>4. \A x \in Entities, c \in Components : <<x, c>> \in t.added \cup t.changed => x # e
    BY <2>3 DEF Typed, TrackedIsLive
  <2> HIDE DEF t
  <2>5. QED
    BY <1>2, <2>1, <2>3, <2>4, ServerWorldTyped
<1>5. ASSUME NEW e \in Entities, NEW c \in Components, AddComponent(e, c)
      PROVE  Typed'
  <2> DEFINE t == Inserted(e, {c})
             w == Over(Initial({c}), world[e])
  <2>1. e \in Live /\ ServerWorld(e, w, t) /\ unborn' = unborn
    BY <1>5 DEF AddComponent
  <2>2. (CHOOSE v \in Values : TRUE) \in Values
    BY ReplicationAssumption
  <2>3. Initial({c}) \in MapsOf(Components, Values) /\ world[e] \in MapsOf(Components, Values)
    BY <1>2, <2>1, <2>2, MapIs DEF Initial, ComponentValues
  <2>4. w \in ComponentValues /\ DOMAIN w = DOMAIN world[e] \cup {c}
    <3>1. w \in MapsOf(Components, Values)
      BY <2>3, MapOperations
    <3>2. DOMAIN w = DOMAIN world[e] \cup {c}
      BY DEF Over, Initial
    <3>3. QED
      BY <3>1, <3>2 DEF ComponentValues
  <2>5. w # Absent
    BY <2>4, Assumed DEF Typed
  <2>6. /\ t \in T
        /\ \A x \in Entities, d \in Components : <<x, d>> \in t.added \cup t.changed =>
             (x = e /\ d = c) \/ <<x, d>> \in trackers.added \cup trackers.changed
    BY <1>1 DEF Inserted, Tracked
  <2>7. \A x \in Entities, d \in Components : <<x, d>> \in t.added \cup t.changed =>
          IF x = e THEN w # Absent /\ d \in DOMAIN w
          ELSE <<x, d>> \in trackers.added \cup trackers.changed
    BY <2>4, <2>5, <2>6 DEF Typed, TrackedIsLive
  <2> HIDE DEF t, w
  <2>8. QED
    BY <1>2, <2>1, <2>4, <2>6, <2>7, ServerWorldTyped
<1>6. ASSUME NEW e \in Entities, NEW c \in Components, RemoveComponent(e, c)
      PROVE  Typed'
  <2> DEFINE t == Removed(e, {c})
             w == Without(world[e], c)
  <2>1. e \in Live /\ ServerWorld(e, w, t) /\ unborn' = unborn
    BY <1>6 DEF RemoveComponent
  <2>2. w \in ComponentValues
    BY <1>2, <2>1, MapOperations DEF ComponentValues
  <2>3. w # Absent /\ DOMAIN w = DOMAIN world[e] \ {c}
    BY <2>2, Assumed DEF Typed, Without
  <2>4. /\ t \in T
        /\ \A x \in Entities, d \in Components : <<x, d>> \in t.added \cup t.changed =>
             /\ <<x, d>> \in trackers.added \cup trackers.changed
             /\ x = e => d # c
    BY <1>1 DEF Removed, Tracked
  <2>5. \A x \in Entities, d \in Components : <<x, d>> \in t.added \cup t.changed =>
          IF x = e THEN w # Absent /\ d \in DOMAIN w
          ELSE <<x, d>> \in trackers.added \cup trackers.changed
    BY <2>3, <2>4 DEF Typed, TrackedIsLive
  <2> HIDE DEF t, w
  <2>6. QED
    BY <1>2, <2>1, <2>2, <2>4, <2>5, ServerWorldTyped
<1>7. ASSUME NEW e \in Entities, NEW c \in Components, NEW v \in Values, SetValue(e, c, v)
      PROVE  Typed'
  <2> DEFINE t == [trackers EXCEPT !.changed = @ \cup Tracked(e, {c})]
             w == [world[e] EXCEPT ![c] = v]
  <2>1. /\ e \in Live /\ c \in DOMAIN world[e]
        /\ ServerWorld(e, w, t) /\ unborn' = unborn
    BY <1>7 DEF SetValue
  <2>2. w \in ComponentValues /\ DOMAIN w = DOMAIN world[e]
    BY <1>2, <2>1, MapIs DEF ComponentValues
  <2>3. w # Absent
    BY <2>2, Assumed DEF Typed
  <2>4. /\ t \in T
        /\ \A x \in Entities, d \in Components : <<x, d>> \in t.added \cup t.changed =>
             (x = e /\ d = c) \/ <<x, d>> \in trackers.added \cup trackers.changed
    BY <1>1 DEF Tracked
  <2>5. \A x \in Entities, d \in Components : <<x, d>> \in t.added \cup t.changed =>
          IF x = e THEN w # Absent /\ d \in DOMAIN w
          ELSE <<x, d>> \in trackers.added \cup trackers.changed
    BY <2>1, <2>2, <2>3, <2>4 DEF Typed, TrackedIsLive
  <2> HIDE DEF t, w
  <2>6. QED
    BY <1>2, <2>1, <2>2, <2>4, <2>5, ServerWorldTyped
<1>8. QED
  BY <1>3, <1>4, <1>5, <1>6, <1>7 DEF ChangeWorld

(* entity_id gives a known entity its id and a new one an id of its own,   *)
(* or the last id there is.                                                *)
LEMMA EntityIdTyped ==
  ASSUME IdsTyped, NextIdIsLast, NEW e \in Entities
  PROVE  LET m == EntityId(ids, e) IN
         /\ m \in [next_id : 0 .. MaxId, to_id : MapsOf(Entities, 1 .. MaxId),
                   to_entity : MapsOf(1 .. MaxId, Entities)]
         /\ DOMAIN m.to_entity \subseteq 1 .. m.next_id
         /\ e \in DOMAIN m.to_id /\ m.to_id[e] \in 1 .. MaxId
<1>1. CASE Known(ids, e)
  <2>1. ids.to_id[e] \in 1 .. MaxId
    BY <1>1, MapIs DEF Known, IdsTyped
  <2>2. QED
    BY <1>1, <2>1 DEF EntityId, Known, IdsTyped, NextIdIsLast
<1>2. CASE ~ Known(ids, e)
  <2> DEFINE next == AtMost(ids.next_id + 1, MaxId)
             to_id == With(ids.to_id, e, next)
             to_entity == With(ids.to_entity, next, e)
  <2>1. EntityId(ids, e) = [next_id |-> next, to_id |-> to_id, to_entity |-> to_entity]
    BY <1>2 DEF EntityId
  <2>2. next \in 1 .. MaxId /\ ids.next_id <= next
    BY MaxIdAssumption DEF IdsTyped, AtMost
  <2> HIDE DEF next
  <2>3. /\ to_id \in MapsOf(Entities, 1 .. MaxId)
        /\ to_entity \in MapsOf(1 .. MaxId, Entities)
    BY <2>2, MapOperations DEF IdsTyped
  <2>4. /\ e \in DOMAIN to_id /\ to_id[e] = next
        /\ DOMAIN to_entity = DOMAIN ids.to_entity \cup {next}
    BY DEF With
  <2>5. DOMAIN to_entity \subseteq 1 .. next
    <3>1. ids.next_id \in Nat /\ next \in Nat
      BY <2>2, MaxIdAssumption DEF IdsTyped
    <3>2. QED
      BY <3>1, <2>2, <2>4 DEF NextIdIsLast
  <2> HIDE DEF to_id, to_entity
  <2>6. QED
    BY <2>1, <2>2, <2>3, <2>4, <2>5, MaxIdAssumption
<1>3. QED
  BY <1>1, <1>2

(* The changes of one entity enter the frame that is being extracted. *)
LEMMA CollectTyped ==
  ASSUME Typed, NEW e \in draft.todo, Collect(e)
  PROVE  Typed'
<1>1. /\ phase = "extract" /\ ids' = EntityId(ids, e)
      /\ IF Known(ids, e) \/ ids.next_id < MaxId THEN UNCHANGED history ELSE OutOfStep
      /\ UNCHANGED <<order, faults, phase, frames, edits, world, unborn, trackers, net>>
      /\ UNCHANGED <<applying, failed, replica, spawned, client_ids>>
  BY DEF Collect, clientVars
<1> DEFINE id == ids'.to_id[e]
           updated == [c \in ChangedOf(e) |-> world[e][c]]
<1>2. draft' = [todo |-> draft.todo \ {e},
                frame |->
                  IF e \in Creating
                  THEN [draft.frame EXCEPT !.creates = Put(@, id, world[e])]
                  ELSE [draft.frame EXCEPT !.updates = Put(@, id, updated)]]
  BY DEF Collect
<1>3. e \in Entities /\ draft.todo \subseteq Creating \cup Updating
  BY <1>1 DEF Typed, DraftTyped
<1>4. IdsTyped' /\ NextIdIsLast' /\ id \in 1 .. MaxId
  BY <1>1, <1>3, EntityIdTyped DEF Typed, IdsTyped, NextIdIsLast
<1>5. e \in Live /\ world[e] \in ComponentValues
  <2>1. \E c \in Components : <<e, c>> \in trackers.added \cup trackers.changed
    <3>1. e \in EntitiesIn(trackers.added) \cup EntitiesIn(trackers.changed)
      BY <1>3 DEF Creating, Updating
    <3>2. PICK pair \in trackers.added \cup trackers.changed : pair[1] = e
      BY <3>1 DEF EntitiesIn
    <3>3. pair \in Entities \X Components
      BY <3>2 DEF Typed, WorldTyped
    <3>4. pair = <<e, pair[2]>> /\ pair[2] \in Components
      BY <3>2, <3>3
    <3>5. QED
      BY <3>2, <3>4
  <2>2. e \in Live
    BY <2>1, <1>3 DEF Typed, TrackedIsLive
  <2>3. QED
    BY <2>2, <1>3 DEF Typed, WorldTyped, Live
<1>6. updated \in ComponentValues
  <2>1. ChangedOf(e) \subseteq DOMAIN world[e]
    BY <1>3 DEF Typed, TrackedIsLive, ChangedOf
  <2>2. /\ DOMAIN world[e] \subseteq Components
        /\ \A c \in DOMAIN world[e] : world[e][c] \in Values
    BY <1>5, MapIs DEF ComponentValues
  <2>3. updated \in MapsOf(Components, Values)
    BY <2>1, <2>2, MapIs
  <2>4. QED
    BY <2>3 DEF ComponentValues
<1>7. ASSUME NEW list \in EntityData \cup {Absent}, NEW components \in ComponentValues
      PROVE  Put(list, id, components) \in EntityData \cup {Absent}
  <2>1. list # Absent => With(list, id, components) \in EntityData
    BY <1>4, <1>7, MapOperations DEF EntityData
  <2>2. QED
    BY <2>1 DEF Put
<1> HIDE DEF id, updated
<1>8. DraftTyped'
  <2>1. /\ draft.frame.creates \in EntityData \cup {Absent}
        /\ draft.frame.updates \in EntityData \cup {Absent}
        /\ draft.frame.upserts \in EntityData /\ draft.frame.destroys \subseteq 1 .. MaxId
        /\ draft.frame = [upserts |-> draft.frame.upserts, destroys |-> draft.frame.destroys,
                          creates |-> draft.frame.creates, updates |-> draft.frame.updates]
    BY DEF Typed, DraftTyped
  <2>2. draft'.frame \in [upserts : EntityData, destroys : SUBSET (1 .. MaxId),
                          creates : EntityData \cup {Absent},
                          updates : EntityData \cup {Absent}]
    <3>1. Put(draft.frame.creates, id, world[e]) \in EntityData \cup {Absent}
      BY <2>1, <1>5, <1>7
    <3>2. Put(draft.frame.updates, id, updated) \in EntityData \cup {Absent}
      BY <2>1, <1>6, <1>7
    <3>3. QED
      BY <2>1, <3>1, <3>2, <1>2
  <2>3. draft'.todo \subseteq draft.todo /\ draft' = [todo |-> draft'.todo, frame |-> draft'.frame]
    BY <1>2
  <2>4. draft.todo \subseteq Entities
    BY DEF Typed, DraftTyped
  <2>5. EntityData' = EntityData /\ Creating' = Creating /\ Updating' = Updating
    BY <1>1, SchemaUnchanged DEF Creating, Updating
  <2>6. QED
    BY <2>2, <2>3, <2>4, <2>5, <1>3 DEF DraftTyped
<1>9. HistoryTyped'
  <2>1. UNCHANGED history \/ OutOfStep
    BY <1>1
  <2>2. CASE UNCHANGED history
    BY <2>2, <1>1, PartsUnchanged DEF history
  <2>3. CASE OutOfStep
    <3>1. UNCHANGED <<failed, repaired>>
      BY <2>3, <1>1 DEF OutOfStep
    <3>2. QED
      BY <2>3, <3>1 DEF OutOfStep, Typed, HistoryTyped
  <2>4. QED
    BY <2>1, <2>2, <2>3
<1>10. QED
  BY <1>1, <1>4, <1>8, <1>9, PartsUnchanged DEF Typed

(* The rest of the server's tick. *)
LEMMA ServerTyped ==
  ASSUME Typed, Extract \/ Send \/ EncodeFails \/ EndFrame
  PROVE  Typed'
<1>1. CASE Extract
  <2>1. /\ phase = "change" /\ frames < MaxFrames /\ phase' = "extract"
        /\ draft' = [todo |-> Creating \cup Updating,
                     frame |-> [Nothing EXCEPT !.destroys = Destroying]]
        /\ UNCHANGED <<order, faults, frames, edits, world, unborn, trackers, ids, net>>
        /\ UNCHANGED <<applying, failed, replica, spawned, client_ids>>
        /\ UNCHANGED <<synced, repaired, orphaned, strays>>
    BY <1>1 DEF Extract, clientVars, history
  <2>2. TickTyped'
    BY <2>1 DEF Typed, TickTyped
  <2>3. Destroying \subseteq 1 .. MaxId
    <3>1. \A e \in DOMAIN ids.to_id : ids.to_id[e] \in 1 .. MaxId
      BY MapIs DEF Typed, IdsTyped
    <3>2. QED
      BY <3>1 DEF Destroying, Known
  <2>4. Creating \cup Updating \subseteq Entities
    BY DEF Typed, WorldTyped, Creating, Updating, EntitiesIn
  <2>5. <<>> \in EntityData
    BY EmptyMapIs DEF EntityData
  <2>6. /\ EntityData' = EntityData /\ Creating' = Creating /\ Updating' = Updating
    BY <2>1, SchemaUnchanged DEF Creating, Updating
  <2>7. DraftTyped'
    BY <2>1, <2>3, <2>4, <2>5, <2>6 DEF DraftTyped, Nothing
  <2>8. QED
    BY <2>1, <2>2, <2>7, PartsUnchanged DEF Typed
<1>2. ASSUME phase = "extract", phase' = "sent", draft' = NoDraft,
             UNCHANGED <<order, faults, frames, edits, world, unborn, trackers, ids>>,
             UNCHANGED <<applying, failed, replica, spawned, client_ids>>,
             LinkTyped', HistoryTyped'
      PROVE  Typed'
  <2>1. TickTyped'
    BY <1>2 DEF Typed, TickTyped
  <2>2. DraftTyped'
    BY <1>2, EmptyMapIs, SchemaUnchanged DEF DraftTyped, NoDraft, Nothing, EntityData
  <2>3. QED
    BY <2>1, <2>2, <1>2, PartsUnchanged DEF Typed
<1>3. CASE Send
  <2>1. /\ phase = "extract" /\ phase' = "sent" /\ draft' = NoDraft
        /\ Encodes(draft.frame) /\ Len(net) < MaxInFlight
        /\ net' = Append(net, draft.frame)
        /\ UNCHANGED <<order, faults, frames, edits, world, unborn, trackers, ids>>
        /\ UNCHANGED <<applying, failed, replica, spawned, client_ids>>
        /\ UNCHANGED <<synced, repaired>>
    BY <1>3 DEF Send, clientVars
  <2>2. draft.frame \in Frame
    BY <2>1, Assumed DEF Typed, DraftTyped, Encodes
  <2>3. LinkTyped'
    <3>1. Frame' = Frame
      BY <2>1, SchemaUnchanged
    <3>2. net \in Seq(Frame)
      BY DEF Typed, LinkTyped
    <3>3. net' \in Seq(Frame) /\ Len(net') = Len(net) + 1 /\ Len(net) \in Nat
      BY <2>1, <2>2, <3>2, AppendProperties
    <3>4. QED
      BY <2>1, <3>1, <3>3, ReplicationAssumption DEF Typed, LinkTyped
  <2>4. orphaned' \subseteq 1 .. MaxId
    <3>1. draft.frame.destroys \subseteq 1 .. MaxId /\ orphaned \subseteq 1 .. MaxId
      BY DEF Typed, DraftTyped, HistoryTyped
    <3>2. QED
      BY <3>1, <1>3 DEF Send
  <2>5. strays' \in Nat
    <3>1. DOMAIN draft.frame.creates \subseteq 1 .. MaxId
      <4>1. draft.frame.creates \in EntityData
        <5>1. draft.frame \in Frame /\ order \in Registered
          BY <2>2 DEF Typed
        <5>2. QED
          BY ONLY <5>1, FrameHas
      <4>2. draft.frame.creates \in MapsOf(1 .. MaxId, ComponentValues)
        BY ONLY <4>1 DEF EntityData
      <4>3. QED
        BY ONLY <4>2, MapHas
    <3>2. IsFiniteSet(1 .. MaxId)
      BY MaxIdAssumption, FS_Interval
    <3>3. CreatedAgain(draft.frame) \subseteq 1 .. MaxId
      BY <3>1 DEF CreatedAgain
    <3>4. Cardinality(CreatedAgain(draft.frame)) \in Nat
      BY <3>2, <3>3, FS_Subset, FS_CardinalityType
    <3>5. QED
      BY <1>3, <3>4 DEF Send, Typed, HistoryTyped
  <2>6. QED
    BY <2>1, <2>3, <2>4, <2>5, <1>2 DEF Typed, HistoryTyped
<1>4. CASE EncodeFails
  <2>1. LinkTyped'
    BY <1>4, PartsUnchanged DEF EncodeFails, Typed
  <2>2. HistoryTyped'
    BY <1>4 DEF EncodeFails, OutOfStep, Typed, HistoryTyped, clientVars
  <2>3. QED
    BY <2>1, <2>2, <1>2, <1>4 DEF EncodeFails, clientVars
<1>5. CASE EndFrame
  <2>1. /\ phase = "sent" /\ phase' = "change" /\ frames' = frames + 1
        /\ trackers' = NoTrackers
        /\ UNCHANGED <<order, faults, edits, world, unborn, ids, draft, net>>
        /\ UNCHANGED <<applying, failed, replica, spawned, client_ids>>
        /\ UNCHANGED <<synced, repaired, orphaned, strays>>
    BY <1>5 DEF EndFrame, clientVars, history
  <2>2. TickTyped'
    BY <2>1, ReplicationAssumption DEF Typed, TickTyped
  <2>3. WorldTyped' /\ TrackedIsLive'
    BY <2>1, SchemaUnchanged DEF Typed, WorldTyped, TrackedIsLive, NoTrackers
  <2>4. DraftTyped'
    BY <2>1, SchemaUnchanged DEF Typed, DraftTyped
  <2>5. QED
    BY <2>1, <2>2, <2>3, <2>4, PartsUnchanged DEF Typed
<1>6. QED
  BY <1>1, <1>3, <1>4, <1>5

(* The link takes frames away or changes their order. *)
LEMMA LinkTypedLemma ==
  ASSUME Typed, Lose \/ Swap
  PROVE  Typed'
<1>1. /\ faults < MaxFaults /\ faults' = faults + 1 /\ OutOfStep
      /\ UNCHANGED <<order, phase, frames, edits, world, unborn, trackers, ids, draft>>
      /\ UNCHANGED <<applying, failed, replica, spawned, client_ids>>
  BY DEF Lose, Swap, LinkFault, serverVars, clientVars
<1>2. net \in Seq(Frame) /\ Len(net) <= MaxInFlight /\ Frame' = Frame
  BY <1>1, SchemaUnchanged DEF Typed, LinkTyped
<1>3. net' \in Seq(Frame) /\ Len(net') <= MaxInFlight
  <2>1. CASE Lose
    <3>1. Len(Tail(net)) = Len(net) - 1 /\ Tail(net) \in Seq(Frame) /\ Len(net) \in Nat
      BY <2>1, <1>2, HeadTailProperties DEF Lose
    <3>2. QED
      BY <2>1, <3>1, <1>2, ReplicationAssumption DEF Lose
  <2>2. CASE Swap
    <3>1. Len(net) = 2 /\ net' = <<net[2], net[1]>>
      BY <2>2 DEF Swap
    <3>2. net[1] \in Frame /\ net[2] \in Frame
      BY <3>1, <1>2, ElementOfSeq
    <3>3. QED
      BY <3>1, <3>2, <1>2
  <2>3. QED
    BY <2>1, <2>2
<1>4. LinkTyped'
  BY <1>1, <1>2, <1>3, ReplicationAssumption DEF Typed, LinkTyped
<1>5. HistoryTyped'
  BY <1>1 DEF OutOfStep, Typed, HistoryTyped
<1>6. QED
  BY <1>1, <1>4, <1>5, PartsUnchanged DEF Typed

(* build_sdec_snapshot_for_ids: the snapshot of a resync. *)
LEMMA SnapshotTyped ==
  ASSUME Typed
  PROVE  Snapshot \in EntityData
<1>1. DOMAIN ids.to_entity \subseteq 1 .. MaxId
  <2>1. ids.to_entity \in MapsOf(1 .. MaxId, Entities)
    BY DEF Typed, IdsTyped
  <2>2. QED
    BY <2>1, MapIs
<1>2. \A e \in Live : world[e] \in ComponentValues
  BY DEF Typed, WorldTyped, Live
<1>3. Snapshot = [x \in DOMAIN Snapshot |-> Snapshot[x]]
  BY DEF Snapshot
<1>4. DOMAIN Snapshot \subseteq 1 .. MaxId
  BY <1>1 DEF Snapshot
<1>5. \A x \in DOMAIN Snapshot : Snapshot[x] \in ComponentValues
  BY <1>2 DEF Snapshot
<1> HIDE DEF Snapshot
<1>6. QED
  BY <1>3, <1>4, <1>5, MapIs DEF EntityData

(* A frame that is taken from the link, or a full snapshot, is begun. *)
LEMMA BeginTyped ==
  ASSUME Typed, Deliver \/ DecodeFails \/ Resync \/ NoResync \/ ApplyDone
  PROVE  Typed'
<1>1. /\ UNCHANGED <<order, faults>>
      /\ UNCHANGED <<phase, frames, edits, world, unborn, trackers, ids, draft>>
      /\ UNCHANGED <<replica, spawned, client_ids>>
  BY DEF Deliver, DecodeFails, FrameFails, Resync, NoResync, ApplyDone, serverVars
<1>2. /\ Frame' = Frame /\ ComponentValues' = ComponentValues
      /\ Frame = [upserts : EntityData, destroys : SUBSET (1 .. MaxId),
                  creates : EntityData, updates : EntityData]
  BY <1>1, SchemaUnchanged, Assumed DEF Typed
<1>3. net \in Seq(Frame) /\ Len(net) \in Nat /\ Len(net) <= MaxInFlight
  BY DEF Typed, LinkTyped
<1>4. net # <<>> => /\ Head(net) \in Frame
                    /\ Tail(net) \in Seq(Frame) /\ Len(Tail(net)) = Len(net) - 1
  BY <1>3, HeadTailProperties
<1>5. LinkTyped'
  <2>1. net' = net \/ (net # <<>> /\ net' = Tail(net))
    BY DEF Deliver, DecodeFails, Resync, NoResync, ApplyDone
  <2>2. net' \in Seq(Frame) /\ Len(net') <= MaxInFlight
    BY <2>1, <1>3, <1>4, ReplicationAssumption
  <2>3. QED
    BY <2>2, <1>1, <1>2 DEF Typed, LinkTyped
<1>6. applying' \in Frame \cup {Absent}
  <2>1. CASE Deliver
    BY <2>1, <1>4 DEF Deliver
  <2>2. CASE DecodeFails \/ ApplyDone
    BY <2>2 DEF DecodeFails, FrameFails, ApplyDone
  <2>3. CASE NoResync
    BY <2>3 DEF NoResync, Typed, ClientTyped
  <2>4. CASE Resync
    <3>1. Snapshot \in EntityData
      BY SnapshotTyped
    <3>2. DOMAIN client_ids.to_entity \subseteq 1 .. MaxId
      <4>1. client_ids.to_entity \in MapsOf(1 .. MaxId, 1 .. spawned)
        BY DEF Typed, ClientTyped
      <4>2. QED
        BY <4>1, MapIs
    <3>3. <<>> \in EntityData
      BY EmptyMapIs DEF EntityData
    <3>4. applying' = [upserts |-> Snapshot,
                       destroys |-> DOMAIN client_ids.to_entity \ DOMAIN Snapshot,
                       creates |-> <<>>, updates |-> <<>>]
      BY <2>4 DEF Resync, Nothing
    <3> HIDE DEF Snapshot
    <3>5. QED
      BY <3>1, <3>2, <3>3, <3>4, <1>2
  <2>5. QED
    BY <2>1, <2>2, <2>3, <2>4
<1>7. ClientTyped'
  BY <1>1, <1>2, <1>6 DEF Typed, ClientTyped
<1>8. HistoryTyped'
  <2>1. CASE Deliver \/ ApplyDone
    BY <2>1, <1>1, PartsUnchanged DEF Deliver, ApplyDone, history
  <2>2. CASE DecodeFails
    BY <2>2 DEF DecodeFails, FrameFails, OutOfStep, Typed, HistoryTyped
  <2>3. CASE NoResync
    BY <2>3 DEF NoResync, history, Typed, HistoryTyped
  <2>4. CASE Resync
    <3>1. synced' \in BOOLEAN
      BY <2>4 DEF Resync
    <3>2. failed' = FALSE /\ repaired' = TRUE /\ orphaned' = {} /\ strays' = strays
      BY <2>4 DEF Resync
    <3>3. QED
      BY <3>1, <3>2 DEF Typed, HistoryTyped
  <2>5. QED
    BY <2>1, <2>2, <2>3, <2>4
<1>9. QED
  BY <1>1, <1>5, <1>7, <1>8, PartsUnchanged DEF Typed

(* A new entity of the client. *)
LEMMA SpawnTyped ==
  ASSUME ClientTyped, order \in Registered,
         NEW id \in 1 .. MaxId, NEW components \in ComponentValues,
         replica' = With(replica, Handle, components),
         client_ids' = Register(client_ids, id, Handle),
         spawned' = Handle
  PROVE  /\ spawned' \in Nat
         /\ replica' \in MapsOf(1 .. spawned', ComponentValues)
         /\ client_ids' \in [next_id : Nat, to_id : MapsOf(1 .. spawned', 1 .. MaxId),
                             to_entity : MapsOf(1 .. MaxId, 1 .. spawned')]
         /\ DOMAIN client_ids'.to_entity \subseteq 1 .. client_ids'.next_id
<1>1. Handle \in Nat /\ Handle \in 1 .. Handle /\ 1 .. spawned \subseteq 1 .. Handle
  BY DEF ClientTyped, Handle
<1>2. \A D, E, R, S, f : D \subseteq E /\ R \subseteq S /\ f \in MapsOf(D, R) => f \in MapsOf(E, S)
  BY MapIs
<1>3. replica \in MapsOf(1 .. Handle, ComponentValues)
  BY <1>1, <1>2 DEF ClientTyped
<1>4. /\ client_ids.to_id \in MapsOf(1 .. Handle, 1 .. MaxId)
      /\ client_ids.to_entity \in MapsOf(1 .. MaxId, 1 .. Handle)
  BY <1>1, <1>2 DEF ClientTyped
<1>5. With(replica, Handle, components) \in MapsOf(1 .. Handle, ComponentValues)
  BY <1>1, <1>3, MapOperations
<1>6. /\ With(client_ids.to_id, Handle, id) \in MapsOf(1 .. Handle, 1 .. MaxId)
      /\ With(client_ids.to_entity, id, Handle) \in MapsOf(1 .. MaxId, 1 .. Handle)
  BY <1>1, <1>4, MapOperations
<1>7. /\ client_ids'.next_id \in Nat /\ client_ids.next_id <= client_ids'.next_id
      /\ client_ids.next_id \in Nat /\ id <= client_ids'.next_id
  BY MaxIdAssumption DEF ClientTyped, Register, AtLeast
<1>8. DOMAIN client_ids'.to_entity = DOMAIN client_ids.to_entity \cup {id}
  BY DEF Register, With
<1>9. DOMAIN client_ids'.to_entity \subseteq 1 .. client_ids'.next_id
  BY <1>7, <1>8, MaxIdAssumption DEF ClientTyped
<1>10. /\ client_ids'.to_id = With(client_ids.to_id, Handle, id)
       /\ client_ids'.to_entity = With(client_ids.to_entity, id, Handle)
       /\ client_ids' = [next_id |-> client_ids'.next_id, to_id |-> client_ids'.to_id,
                         to_entity |-> client_ids'.to_entity]
  BY DEF Register
<1>11. QED
  BY <1>1, <1>5, <1>6, <1>7, <1>9, <1>10

(* One round of one of the loops of apply_changes. *)
LEMMA RoundTyped ==
  ASSUME Typed, Upsert \/ ApplyDestroy \/ ApplyCreate \/ ApplyUpdate \/ ApplyFails
  PROVE  Typed'
<1>1. /\ UNCHANGED <<order, faults, net>>
      /\ UNCHANGED <<phase, frames, edits, world, unborn, trackers, ids, draft>>
  BY DEF Upsert, ApplyDestroy, ApplyCreate, ApplyUpdate, ApplyFails, Round, FrameFails, serverVars
<1>2. /\ Frame' = Frame /\ ComponentValues' = ComponentValues
      /\ Frame = [upserts : EntityData, destroys : SUBSET (1 .. MaxId),
                  creates : EntityData, updates : EntityData]
      /\ order \in Registered
  BY <1>1, SchemaUnchanged, Assumed DEF Typed
<1>3. applying \in Frame
  BY DEF Typed, ClientTyped, Upsert, ApplyDestroy, ApplyCreate, ApplyUpdate, ApplyFails, Updatable
<1>4. /\ applying.upserts \in EntityData /\ applying.creates \in EntityData
      /\ applying.updates \in EntityData /\ applying.destroys \subseteq 1 .. MaxId
  BY <1>2, <1>3
<1>5. ASSUME NEW f \in EntityData, f # <<>>
      PROVE  First(DOMAIN f) \in DOMAIN f /\ First(DOMAIN f) \in 1 .. MaxId
             /\ f[First(DOMAIN f)] \in ComponentValues
  <2>1. f \in MapsOf(1 .. MaxId, ComponentValues)
    BY DEF EntityData
  <2>2. DOMAIN f # {}
    BY <2>1, <1>5, EmptyMapIs
  <2>3. DOMAIN f \subseteq 1 .. MaxId /\ \A i \in DOMAIN f : f[i] \in ComponentValues
    BY <2>1, MapIs
  <2>4. First(DOMAIN f) \in DOMAIN f
    BY <2>2, <2>3, FirstIsIn
  <2>5. QED
    BY <2>3, <2>4
<1>6. /\ spawned \in Nat
      /\ replica \in MapsOf(1 .. spawned, ComponentValues)
      /\ client_ids \in [next_id : Nat, to_id : MapsOf(1 .. spawned, 1 .. MaxId),
                         to_entity : MapsOf(1 .. MaxId, 1 .. spawned)]
      /\ DOMAIN client_ids.to_entity \subseteq 1 .. client_ids.next_id
  BY DEF Typed, ClientTyped
<1>7. \A f \in EntityData : \A i : Without(f, i) \in EntityData
  BY MapOperations DEF EntityData
<1>8. CASE Upsert
  <2> DEFINE id == First(DOMAIN applying.upserts)
             components == applying.upserts[id]
             entity == client_ids.to_entity[id]
  <2>1. id \in 1 .. MaxId /\ components \in ComponentValues
    BY <1>4, <1>5, <1>8 DEF Upsert
  <2>2. applying' = [applying EXCEPT !.upserts = Without(applying.upserts, id)]
        /\ UNCHANGED <<failed, synced, repaired, orphaned, strays>>
    BY <1>8 DEF Upsert, Round, history
  <2>3. applying' \in Frame'
    BY <2>2, <1>2, <1>3, <1>4, <1>7
  <2>4. CASE id \in DOMAIN client_ids.to_entity
    <3>1. /\ replica' = [replica EXCEPT ![entity] = Over(components, @)]
          /\ UNCHANGED <<client_ids, spawned>>
      BY <1>8, <2>4 DEF Upsert, Round
    <3> HIDE DEF id
    <3>2. \A h \in DOMAIN replica : Over(components, replica[h]) \in ComponentValues
      <4>1. \A h \in DOMAIN replica : replica[h] \in ComponentValues
        BY <1>6, MapIs
      <4>2. QED
        BY <2>1, <4>1, MapOperations DEF ComponentValues
    <3>3. /\ DOMAIN replica' = DOMAIN replica
          /\ \A h \in DOMAIN replica :
               replica'[h] = IF h = entity THEN Over(components, replica[h]) ELSE replica[h]
          /\ replica' = [h \in DOMAIN replica |-> replica'[h]]
      BY <3>1
    <3>4. replica' \in MapsOf(1 .. spawned, ComponentValues)
      <4>1. /\ DOMAIN replica \subseteq 1 .. spawned
            /\ \A h \in DOMAIN replica : replica[h] \in ComponentValues
        BY <1>6, MapHas
      <4>2. \A h \in DOMAIN replica' : replica'[h] \in ComponentValues
        BY ONLY <3>2, <3>3, <4>1
      <4>3. QED
        BY ONLY <3>3, <4>1, <4>2, MapIs
    <3>5. ClientTyped'
      BY <2>3, <3>1, <3>4, <1>2, <1>6 DEF ClientTyped
    <3>6. QED
      BY <2>2, <3>5, <1>1, PartsUnchanged DEF Typed
  <2>5. CASE id \notin DOMAIN client_ids.to_entity
    <3>1. /\ replica' = With(replica, Handle, components)
          /\ client_ids' = Register(client_ids, id, Handle)
          /\ spawned' = Handle
      BY <1>8, <2>5 DEF Upsert, Round
    <3> HIDE DEF id, components
    <3>2. ClientTyped'
      BY <2>1, <2>3, <3>1, <1>2, SpawnTyped DEF ClientTyped, Typed
    <3>3. QED
      BY <2>2, <3>2, <1>1, PartsUnchanged DEF Typed
  <2>6. QED
    BY <2>4, <2>5
<1>9. CASE ApplyDestroy
  <2> DEFINE id == First(applying.destroys)
             entity == client_ids.to_entity[id]
  <2>1. /\ applying' = [applying EXCEPT !.destroys = applying.destroys \ {id}]
        /\ UNCHANGED <<spawned, failed, synced, repaired, orphaned, strays>>
    BY <1>9 DEF ApplyDestroy, Round, history
  <2>2. applying' \in Frame'
    BY <2>1, <1>2, <1>3, <1>4
  <2>3. CASE id \in DOMAIN client_ids.to_entity
    <3>1. /\ replica' = Without(replica, entity)
          /\ client_ids' = [next_id |-> client_ids.next_id,
                            to_id |-> Without(client_ids.to_id, entity),
                            to_entity |-> Without(client_ids.to_entity, id)]
      BY <1>9, <2>3 DEF ApplyDestroy, Round, Unregister
    <3> HIDE DEF id, entity
    <3>2. /\ Without(replica, entity) \in MapsOf(1 .. spawned, ComponentValues)
          /\ Without(client_ids.to_id, entity) \in MapsOf(1 .. spawned, 1 .. MaxId)
          /\ Without(client_ids.to_entity, id) \in MapsOf(1 .. MaxId, 1 .. spawned)
      BY <1>6, MapOperations
    <3>3. DOMAIN Without(client_ids.to_entity, id) \subseteq DOMAIN client_ids.to_entity
      BY DEF Without
    <3>4. ClientTyped'
      BY <2>1, <2>2, <3>1, <3>2, <3>3, <1>2, <1>6 DEF ClientTyped
    <3>5. QED
      BY <2>1, <3>4, <1>1, PartsUnchanged DEF Typed
  <2>4. CASE id \notin DOMAIN client_ids.to_entity
    <3>1. UNCHANGED <<replica, client_ids>>
      BY <1>9, <2>4 DEF ApplyDestroy, Round
    <3>2. ClientTyped'
      BY <2>1, <2>2, <3>1, <1>2, <1>6 DEF ClientTyped
    <3>3. QED
      BY <2>1, <3>2, <1>1, PartsUnchanged DEF Typed
  <2>5. QED
    BY <2>3, <2>4
<1>10. CASE ApplyCreate
  <2> DEFINE id == First(DOMAIN applying.creates)
             components == applying.creates[id]
  <2>1. id \in 1 .. MaxId /\ components \in ComponentValues
    BY <1>4, <1>5, <1>10 DEF ApplyCreate
  <2>2. /\ applying' = [applying EXCEPT !.creates = Without(applying.creates, id)]
        /\ replica' = With(replica, Handle, components)
        /\ client_ids' = Register(client_ids, id, Handle)
        /\ spawned' = Handle
        /\ UNCHANGED <<failed, synced, repaired, orphaned, strays>>
    BY <1>10 DEF ApplyCreate, Round, history
  <2>3. applying' \in Frame'
    BY <2>2, <1>2, <1>3, <1>4, <1>7
  <2> HIDE DEF id, components
  <2>4. ClientTyped'
    BY <2>1, <2>2, <2>3, <1>2, SpawnTyped DEF ClientTyped, Typed
  <2>5. QED
    BY <2>2, <2>4, <1>1, PartsUnchanged DEF Typed
<1>11. ASSUME NEW id \in DOMAIN applying.updates, NEW cs \in SUBSET DOMAIN applying.updates[id]
       PROVE  WithUpdate(id, cs) \in MapsOf(1 .. spawned, ComponentValues)
  <2>1. CASE id \notin DOMAIN client_ids.to_entity
    BY <2>1, <1>6 DEF WithUpdate
  <2>2. CASE id \in DOMAIN client_ids.to_entity
    <3> DEFINE entity == client_ids.to_entity[id]
               u == applying.updates[id]
               w == WithUpdate(id, cs)
               changed(h) == [c \in DOMAIN replica[h] |->
                                IF c \in cs THEN u[c] ELSE replica[h][c]]
    <3>1. /\ DOMAIN w = DOMAIN replica
          /\ \A h \in DOMAIN replica : w[h] = IF h = entity THEN changed(h) ELSE replica[h]
          /\ w = [h \in DOMAIN replica |-> w[h]]
      BY <2>2 DEF WithUpdate
    <3>2. u \in ComponentValues
      BY <1>4, MapIs DEF EntityData
    <3>3. ASSUME NEW h \in DOMAIN replica
          PROVE  changed(h) \in ComponentValues
      <4>1. replica[h] \in ComponentValues
        BY <1>6, MapIs
      <4>2. /\ DOMAIN replica[h] \subseteq Components
            /\ \A c \in DOMAIN replica[h] : replica[h][c] \in Values
            /\ \A c \in DOMAIN u : u[c] \in Values
        BY <3>2, <4>1, MapIs DEF ComponentValues
      <4> HIDE DEF u
      <4>3. cs \subseteq DOMAIN u
        BY <1>11 DEF u
      <4>4. changed(h) \in MapsOf(Components, Values)
        BY <4>2, <4>3, MapIs
      <4>5. QED
        BY <4>4 DEF ComponentValues
    <3> HIDE DEF w, changed
    <3>4. \A h \in DOMAIN w : w[h] \in ComponentValues
      BY <3>1, <3>3, <1>6, MapIs
    <3>5. QED
      BY <3>1, <3>4, <1>6, MapIs DEF w
  <2>3. QED
    BY <2>1, <2>2
<1>12. CASE ApplyUpdate
  <2> DEFINE id == First(DOMAIN applying.updates)
  <2>1. /\ applying' = [applying EXCEPT !.updates = Without(applying.updates, id)]
        /\ replica' = WithUpdate(id, DOMAIN applying.updates[id])
        /\ UNCHANGED <<client_ids, spawned, failed, synced, repaired, orphaned, strays>>
    BY <1>12 DEF ApplyUpdate, Round, history
  <2>2. applying' \in Frame'
    BY <2>1, <1>2, <1>3, <1>4, <1>7
  <2>3. id \in DOMAIN applying.updates
    BY <1>4, <1>5, <1>12 DEF ApplyUpdate, Updatable
  <2> HIDE DEF id
  <2>4. replica' \in MapsOf(1 .. spawned, ComponentValues)
    BY <2>1, <2>3, <1>11
  <2>5. ClientTyped'
    BY <2>1, <2>2, <2>4, <1>2, <1>6 DEF ClientTyped
  <2>6. QED
    BY <2>1, <2>5, <1>1, PartsUnchanged DEF Typed
<1>13. CASE ApplyFails
  <2> DEFINE id == First(DOMAIN applying.updates)
             cs == {c \in DOMAIN applying.updates[id] :
                      \A m \in MissingIn(id) : Place(c) < Place(m)}
  <2>1. /\ applying' = Absent /\ failed' = TRUE /\ OutOfStep
        /\ replica' = WithUpdate(id, cs)
        /\ UNCHANGED <<client_ids, spawned>>
    BY <1>13 DEF ApplyFails, FrameFails
  <2>2. id \in DOMAIN applying.updates
    BY <1>4, <1>5, <1>13 DEF ApplyFails, Updatable
  <2>3. cs \in SUBSET DOMAIN applying.updates[id]
    OBVIOUS
  <2> HIDE DEF id, cs
  <2>4. replica' \in MapsOf(1 .. spawned, ComponentValues)
    BY <2>1, <2>2, <2>3, <1>11
  <2>5. ClientTyped'
    BY <2>1, <2>4, <1>2, <1>6 DEF ClientTyped
  <2>6. HistoryTyped'
    BY <2>1 DEF OutOfStep, Typed, HistoryTyped
  <2>7. QED
    BY <2>5, <2>6, <1>1, PartsUnchanged DEF Typed
<1>14. QED
  BY <1>8, <1>9, <1>10, <1>12, <1>13

(* Every step keeps the types. *)
LEMMA NextTyped == Typed /\ [Next]_vars => Typed'
<1> SUFFICES ASSUME Typed, [Next]_vars PROVE Typed'
  OBVIOUS
<1>1. CASE ChangeWorld
  BY <1>1, ChangeWorldTyped
<1>2. ASSUME NEW e \in draft.todo, Collect(e)
      PROVE  Typed'
  BY <1>2, CollectTyped
<1>3. CASE Extract \/ Send \/ EncodeFails \/ EndFrame
  BY <1>3, ServerTyped
<1>4. CASE Lose \/ Swap
  BY <1>4, LinkTypedLemma
<1>5. CASE Deliver \/ DecodeFails \/ Resync \/ NoResync \/ ApplyDone
  BY <1>5, BeginTyped
<1>6. CASE Upsert \/ ApplyDestroy \/ ApplyCreate \/ ApplyUpdate \/ ApplyFails
  BY <1>6, RoundTyped
<1>7. CASE UNCHANGED vars
  BY <1>7, PartsUnchanged DEF vars, serverVars, clientVars, history, Typed
<1>8. QED
  BY <1>1, <1>2, <1>3, <1>4, <1>5, <1>6, <1>7 DEF Next, Server, ClientStep

(* Every variable of the two worlds, their maps and the frames between     *)
(* them keeps its type, also when frames fail half way or ids run out.     *)
THEOREM ReplicationTypeCorrect == Spec => []TypeOK
  BY InitTyped, NextTyped, TypedIsTypeOK, PTL DEF Spec

-----------------------------------------------------------------------------
(***************************************************************************)
(* The client follows the server (src/sdec-bevy/src/extract.rs, apply.rs): *)
(* while no frame was lost, refused or put out of order no frame fails     *)
(* half way, and once every frame is applied the client has what the       *)
(* server has, for any entities, components, limits and number of frames.  *)
(*                                                                         *)
(* The proof follows the copies: what the client will have after each of   *)
(* the frames under way.  The last of these is what the server's trackers  *)
(* are about.                                                              *)
(***************************************************************************)
(* What the client has under each id. *)
Copies == [id \in DOMAIN client_ids.to_entity |-> replica[client_ids.to_entity[id]]]

(* The components of an id once a frame has upserted, destroyed and        *)
(* created, and then updated.                                              *)
Placed(copies, frame, id) ==
  IF id \in DOMAIN frame.creates THEN frame.creates[id]
  ELSE IF id \notin DOMAIN frame.upserts THEN copies[id]
  ELSE IF id \in DOMAIN copies THEN Over(frame.upserts[id], copies[id])
  ELSE frame.upserts[id]

Updated(components, update) ==
  [c \in DOMAIN components |-> IF c \in DOMAIN update THEN update[c] ELSE components[c]]

AppliedIds(copies, frame) ==
  ((DOMAIN copies \cup DOMAIN frame.upserts) \ frame.destroys) \cup DOMAIN frame.creates

Applied(copies, frame) ==
  [id \in AppliedIds(copies, frame) |->
     IF id \in DOMAIN frame.updates
     THEN Updated(Placed(copies, frame, id), frame.updates[id])
     ELSE Placed(copies, frame, id)]

(* The updates of a frame that led to copies named what was there.         *)
Fits(copies, frame) ==
  \A id \in DOMAIN frame.updates \cap DOMAIN copies :
    DOMAIN frame.updates[id] \subseteq DOMAIN copies[id]

(* Ids a frame creates although it finds them.                             *)
Again(copies, frame) == DOMAIN frame.creates \cap (DOMAIN copies \ frame.destroys)

-----------------------------------------------------------------------------
(* A frame leaves well-formed copies. *)
LEMMA AppliedTyped ==
  ASSUME order \in Registered, NEW copies \in EntityData, NEW frame \in Frame
  PROVE  Applied(copies, frame) \in EntityData
<1>1. /\ frame.upserts \in EntityData /\ frame.creates \in EntityData
      /\ frame.updates \in EntityData
  BY FrameHas
<1>2. \A f \in EntityData : /\ DOMAIN f \subseteq 1 .. MaxId
                            /\ \A id \in DOMAIN f : f[id] \in ComponentValues
  BY MapIs DEF EntityData
<1>3. ASSUME NEW id \in AppliedIds(copies, frame)
      PROVE  id \in 1 .. MaxId /\ Placed(copies, frame, id) \in ComponentValues
  <2>1. \A u, c \in ComponentValues : Over(u, c) \in ComponentValues
    BY MapOperations DEF ComponentValues
  <2>2. QED
    BY <1>1, <1>2, <1>3, <2>1 DEF AppliedIds, Placed
<1>4. ASSUME NEW components \in ComponentValues, NEW update \in ComponentValues
      PROVE  Updated(components, update) \in ComponentValues
  <2>1. /\ DOMAIN components \subseteq Components
        /\ \A c \in DOMAIN components : components[c] \in Values
        /\ \A c \in DOMAIN update : update[c] \in Values
    BY MapIs DEF ComponentValues
  <2>2. Updated(components, update) \in MapsOf(Components, Values)
    BY <2>1, MapIs DEF Updated
  <2>3. QED
    BY <2>2 DEF ComponentValues
<1> DEFINE a == Applied(copies, frame)
<1>5. a = [id \in DOMAIN a |-> a[id]] /\ DOMAIN a = AppliedIds(copies, frame)
  BY DEF Applied
<1>6. \A id \in DOMAIN a : a[id] \in ComponentValues
  BY <1>1, <1>2, <1>3, <1>4 DEF Applied
<1>7. DOMAIN a \subseteq 1 .. MaxId
  BY <1>3, <1>5
<1> HIDE DEF a
<1>8. a \in MapsOf(1 .. MaxId, ComponentValues)
  BY <1>5, <1>6, <1>7, MapIs
<1>9. QED
  BY <1>8 DEF EntityData, a

(* Two frames on two copies that place the same components under the same  *)
(* ids, and then update them alike, come to the same.                      *)
LEMMA SameApplied ==
  ASSUME NEW copies, NEW frame, NEW copies2, NEW frame2,
         AppliedIds(copies2, frame2) = AppliedIds(copies, frame),
         \A id \in AppliedIds(copies, frame) :
           Applied(copies2, frame2)[id] = Applied(copies, frame)[id]
  PROVE  Applied(copies2, frame2) = Applied(copies, frame)
<1> DEFINE a == Applied(copies, frame)
           b == Applied(copies2, frame2)
<1>1. a = [id \in AppliedIds(copies, frame) |-> a[id]]
  BY DEF Applied
<1>2. b = [id \in AppliedIds(copies, frame) |-> b[id]]
  BY DEF Applied
<1> HIDE DEF a, b
<1>3. \A id \in AppliedIds(copies, frame) : b[id] = a[id]
  BY DEF a, b
<1>4. a = b
  BY <1>1, <1>2, <1>3
<1>5. QED
  BY <1>4 DEF a, b

(* One round of a loop of apply_changes, done ahead, changes nothing of    *)
(* what the frame comes to.                                                *)
LEMMA UpsertAhead ==
  ASSUME NEW copies, NEW frame \in Frame, order \in Registered,
         NEW id \in DOMAIN frame.upserts,
         frame.creates = <<>>, frame.updates = <<>>
  PROVE  LET components == IF id \in DOMAIN copies
                           THEN Over(frame.upserts[id], copies[id]) ELSE frame.upserts[id]
             left == [frame EXCEPT !.upserts = Without(@, id)] IN
         Applied(With(copies, id, components), left) = Applied(copies, frame)
<1> DEFINE components == IF id \in DOMAIN copies
                         THEN Over(frame.upserts[id], copies[id]) ELSE frame.upserts[id]
           left == [frame EXCEPT !.upserts = Without(@, id)]
           ahead == With(copies, id, components)
<1>1. /\ left.upserts = Without(frame.upserts, id) /\ left.destroys = frame.destroys
      /\ left.creates = frame.creates /\ left.updates = frame.updates
  BY Assumed
<1>2. /\ DOMAIN ahead = DOMAIN copies \cup {id}
      /\ \A i \in DOMAIN ahead : ahead[i] = IF i = id THEN components ELSE copies[i]
  BY DEF With
<1>3. /\ DOMAIN left.upserts = DOMAIN frame.upserts \ {id}
      /\ \A i \in DOMAIN left.upserts : left.upserts[i] = frame.upserts[i]
  BY <1>1 DEF Without
<1>4. DOMAIN <<>> = {}
  BY EmptyMapIs
<1> HIDE DEF left, ahead
<1>5. AppliedIds(ahead, left) = AppliedIds(copies, frame)
  BY <1>1, <1>2, <1>3 DEF AppliedIds
<1>6. ASSUME NEW i \in AppliedIds(copies, frame)
      PROVE  Placed(ahead, left, i) = Placed(copies, frame, i)
  <2>1. CASE i = id
    BY <2>1, <1>1, <1>2, <1>3, <1>4 DEF Placed
  <2>2. CASE i # id
    BY <2>2, <1>1, <1>2, <1>3, <1>4, <1>6 DEF Placed, AppliedIds
  <2>3. QED
    BY <2>1, <2>2
<1>7. \A i \in AppliedIds(copies, frame) : Applied(ahead, left)[i] = Applied(copies, frame)[i]
  BY <1>1, <1>5, <1>6 DEF Applied
<1>8. Applied(ahead, left) = Applied(copies, frame)
  BY <1>5, <1>7, SameApplied
<1>9. QED
  BY <1>8 DEF ahead, left

LEMMA DestroyAhead ==
  ASSUME NEW copies, NEW frame \in Frame, order \in Registered,
         NEW id \in frame.destroys, frame.upserts = <<>>
  PROVE  LET left == [frame EXCEPT !.destroys = @ \ {id}] IN
         /\ Applied(Without(copies, id), left) = Applied(copies, frame)
         /\ id \notin DOMAIN copies => Applied(copies, left) = Applied(copies, frame)
         /\ Again(Without(copies, id), left) = Again(copies, frame)
         /\ id \notin DOMAIN copies => Again(copies, left) = Again(copies, frame)
<1> DEFINE left == [frame EXCEPT !.destroys = @ \ {id}]
<1>1. /\ left.upserts = frame.upserts /\ left.destroys = frame.destroys \ {id}
      /\ left.creates = frame.creates /\ left.updates = frame.updates
  BY Assumed
<1>2. DOMAIN frame.upserts = {}
  BY EmptyMapIs
<1>3. ASSUME NEW ahead,
             \/ DOMAIN ahead = DOMAIN copies \ {id}
             \/ id \notin DOMAIN copies /\ DOMAIN ahead = DOMAIN copies,
             \A i \in DOMAIN ahead : ahead[i] = copies[i]
      PROVE  /\ Applied(ahead, left) = Applied(copies, frame)
             /\ Again(ahead, left) = Again(copies, frame)
  <2> HIDE DEF left
  <2>1. AppliedIds(ahead, left) = AppliedIds(copies, frame)
    BY <1>1, <1>2, <1>3 DEF AppliedIds
  <2>2. ASSUME NEW i \in AppliedIds(copies, frame)
        PROVE  Placed(ahead, left, i) = Placed(copies, frame, i)
    BY <1>1, <1>2, <1>3, <2>2 DEF Placed, AppliedIds
  <2>3. \A i \in AppliedIds(copies, frame) :
          Applied(ahead, left)[i] = Applied(copies, frame)[i]
    BY <1>1, <2>1, <2>2 DEF Applied
  <2>4. Again(ahead, left) = Again(copies, frame)
    BY <1>1, <1>3 DEF Again
  <2>5. QED
    BY <2>1, <2>3, <2>4, SameApplied
<1> HIDE DEF left
<1>4. /\ DOMAIN Without(copies, id) = DOMAIN copies \ {id}
      /\ \A i \in DOMAIN Without(copies, id) : Without(copies, id)[i] = copies[i]
  BY DEF Without
<1>5. /\ Applied(Without(copies, id), left) = Applied(copies, frame)
      /\ Again(Without(copies, id), left) = Again(copies, frame)
  BY <1>3, <1>4
<1>6. id \notin DOMAIN copies => /\ Applied(copies, left) = Applied(copies, frame)
                                 /\ Again(copies, left) = Again(copies, frame)
  BY <1>3
<1>7. QED
  BY <1>5, <1>6 DEF left

LEMMA CreateAhead ==
  ASSUME NEW copies, NEW frame \in Frame, order \in Registered,
         NEW id \in DOMAIN frame.creates, frame.upserts = <<>>, frame.destroys = {},
         NEW left, left = [frame EXCEPT !.creates = Without(@, id)],
         NEW ahead, ahead = With(copies, id, frame.creates[id])
  PROVE  /\ Applied(ahead, left) = Applied(copies, frame)
         /\ Again(ahead, left) = Again(copies, frame) \ {id}
<1>1. /\ left.upserts = frame.upserts /\ left.destroys = frame.destroys
      /\ left.creates = Without(frame.creates, id) /\ left.updates = frame.updates
  BY Assumed
<1>2. /\ DOMAIN ahead = DOMAIN copies \cup {id}
      /\ \A i \in DOMAIN ahead : ahead[i] = IF i = id THEN frame.creates[id] ELSE copies[i]
  BY DEF With
<1>3. /\ DOMAIN left.creates = DOMAIN frame.creates \ {id}
      /\ \A i \in DOMAIN left.creates : left.creates[i] = frame.creates[i]
  BY <1>1 DEF Without
<1>4. DOMAIN frame.upserts = {}
  BY EmptyMapIs
<1>5. AppliedIds(ahead, left) = AppliedIds(copies, frame)
  BY <1>1, <1>2, <1>3 DEF AppliedIds
<1>6. ASSUME NEW i \in AppliedIds(copies, frame)
      PROVE  Placed(ahead, left, i) = Placed(copies, frame, i)
  BY <1>1, <1>2, <1>3, <1>4, <1>6 DEF Placed, AppliedIds
<1>7. \A i \in AppliedIds(copies, frame) : Applied(ahead, left)[i] = Applied(copies, frame)[i]
  BY <1>1, <1>5, <1>6 DEF Applied
<1>8. Again(ahead, left) = Again(copies, frame) \ {id}
  BY <1>1, <1>2, <1>3 DEF Again
<1>9. Applied(ahead, left) = Applied(copies, frame)
  BY <1>5, <1>7, SameApplied
<1>10. QED
  BY <1>8, <1>9

LEMMA UpdateAhead ==
  ASSUME NEW copies, NEW frame \in Frame, order \in Registered,
         NEW id \in DOMAIN frame.updates,
         frame.upserts = <<>>, frame.destroys = {}, frame.creates = <<>>
  PROVE  LET left == [frame EXCEPT !.updates = Without(@, id)] IN
         /\ IF id \in DOMAIN copies
            THEN Applied(With(copies, id, Updated(copies[id], frame.updates[id])), left)
                   = Applied(copies, frame)
            ELSE Applied(copies, left) = Applied(copies, frame)
         /\ \A any : Again(any, left) = {} /\ Again(any, frame) = {}
<1> DEFINE left == [frame EXCEPT !.updates = Without(@, id)]
           ahead == With(copies, id, Updated(copies[id], frame.updates[id]))
<1>1. /\ left.upserts = frame.upserts /\ left.destroys = frame.destroys
      /\ left.creates = frame.creates /\ left.updates = Without(frame.updates, id)
  BY Assumed
<1>2. DOMAIN <<>> = {}
  BY EmptyMapIs
<1>3. /\ DOMAIN left.updates = DOMAIN frame.updates \ {id}
      /\ \A i \in DOMAIN left.updates : left.updates[i] = frame.updates[i]
  BY <1>1 DEF Without
<1>4. \A any, i : AppliedIds(any, left) = DOMAIN any /\ AppliedIds(any, frame) = DOMAIN any
                  /\ Placed(any, left, i) = any[i] /\ Placed(any, frame, i) = any[i]
  BY <1>1, <1>2 DEF AppliedIds, Placed
<1>5. ASSUME id \in DOMAIN copies
      PROVE  Applied(ahead, left) = Applied(copies, frame)
  <2>1. /\ DOMAIN ahead = DOMAIN copies
        /\ \A i \in DOMAIN ahead :
             ahead[i] = IF i = id THEN Updated(copies[id], frame.updates[id]) ELSE copies[i]
    BY <1>5 DEF With
  <2> HIDE DEF left, ahead
  <2>2. ASSUME NEW i \in DOMAIN copies
        PROVE  Applied(ahead, left)[i] = Applied(copies, frame)[i]
    <3>1. Applied(ahead, left)[i] = IF i \in DOMAIN left.updates
                                    THEN Updated(ahead[i], left.updates[i]) ELSE ahead[i]
      BY <1>4, <2>1 DEF Applied
    <3>2. Applied(copies, frame)[i] = IF i \in DOMAIN frame.updates
                                      THEN Updated(copies[i], frame.updates[i]) ELSE copies[i]
      BY <1>4 DEF Applied
    <3>3. QED
      BY <3>1, <3>2, <2>1, <1>3
  <2>3. QED
    BY <1>4, <2>1, <2>2, SameApplied
<1>6. ASSUME id \notin DOMAIN copies
      PROVE  Applied(copies, left) = Applied(copies, frame)
  <2> HIDE DEF left
  <2>1. \A i \in DOMAIN copies : Applied(copies, left)[i] = Applied(copies, frame)[i]
    BY <1>3, <1>4, <1>6 DEF Applied
  <2>2. QED
    BY <1>4, <2>1, SameApplied
<1>7. \A any : Again(any, left) = {} /\ Again(any, frame) = {}
  BY <1>1, <1>2 DEF Again
<1>8. QED
  BY <1>5, <1>6, <1>7

(* Nothing left changes nothing. *)
LEMMA NothingApplied ==
  ASSUME NEW copies \in EntityData
  PROVE  Applied(copies, Nothing) = copies /\ Again(copies, Nothing) = {}
<1>1. DOMAIN <<>> = {}
  BY EmptyMapIs
<1>2. AppliedIds(copies, Nothing) = DOMAIN copies
  BY <1>1 DEF AppliedIds, Nothing
<1>3. \A i \in DOMAIN copies : Applied(copies, Nothing)[i] = copies[i]
  BY <1>1, <1>2 DEF Applied, Placed, Nothing
<1>4. copies = [i \in DOMAIN copies |-> copies[i]]
  BY MapIs DEF EntityData
<1>5. Applied(copies, Nothing) = [i \in DOMAIN copies |-> Applied(copies, Nothing)[i]]
  BY <1>2 DEF Applied
<1>6. Applied(copies, Nothing) = copies
  BY <1>3, <1>4, <1>5
<1>7. QED
  BY <1>1, <1>6 DEF Again, Nothing
-----------------------------------------------------------------------------
(* The invariant.  v[0] is what the client has when it is done with the    *)
(* frame it applies, v[i] after the i-th frame under way.                  *)
Replays(v) ==
  /\ v \in [0 .. Len(net) -> EntityData]
  /\ IF applying = Absent THEN v[0] = Copies
     ELSE v[0] = Applied(Copies, applying) /\ Fits(v[0], applying)
  /\ \A i \in 1 .. Len(net) : v[i] = Applied(v[i - 1], net[i]) /\ Fits(v[i], net[i])

(* s[i] counts the creates, up to there, of ids the client had.            *)
AgainNow == IF applying = Absent THEN {} ELSE Again(Copies, applying)

Counts(v, s) ==
  /\ s \in [0 .. Len(net) -> Nat]
  /\ Cardinality(DOMAIN replica) + Cardinality(AgainNow)
       = Cardinality(DOMAIN client_ids.to_entity) + s[0]
  /\ \A i \in 1 .. Len(net) : s[i] = s[i - 1] + Cardinality(Again(v[i - 1], net[i]))
  /\ s[Len(net)] = strays

(* The server gives out every id once, while they last.                    *)
IdsAreExact ==
  \A e \in DOMAIN ids.to_id :
    ids.to_id[e] \in DOMAIN ids.to_entity /\ ids.to_entity[ids.to_id[e]] = e

IdsInOrder ==
  /\ ids.next_id = AtMost(Cardinality(DOMAIN ids.to_id), MaxId)
  /\ Cardinality(DOMAIN ids.to_id) <= MaxId => IdsAreExact
  /\ \A e \in unborn : ~ Known(ids, e)
  /\ synced => Cardinality(DOMAIN ids.to_id) <= MaxId

(* An entity gets its id in the tick in which it gets its components.      *)
AllAdded(e) == \A c \in DOMAIN world[e] : <<e, c>> \in trackers.added

UnknownIsNew ==
  /\ \A e \in Live : ~ Known(ids, e) =>
       IF phase = "sent" THEN world[e] = <<>> ELSE AllAdded(e)
  /\ phase = "extract" => \A e \in Creating \cup Updating : e \in draft.todo \/ Known(ids, e)

(* The client is idle unless the server waits, and only resyncs upsert.    *)
Shapes ==
  /\ ~ Idle => phase = "sent"
  /\ failed => ~ synced /\ applying = Absent
  /\ draft.frame.upserts = <<>>
  /\ \A i \in 1 .. Len(net) : net[i].upserts = <<>>
  /\ applying # Absent =>
       \/ applying.upserts = <<>>
       \/ repaired /\ applying.creates = <<>> /\ applying.updates = <<>>

(* When the server has sent: copies are what ClientFollows says.           *)
InStep(copies) ==
  /\ DOMAIN copies = LiveIds \ orphaned
  /\ \A id \in DOMAIN copies :
       LET now == world[ids.to_entity[id]] IN
       IF repaired THEN \A c \in DOMAIN now : c \in DOMAIN copies[id] /\ copies[id][c] = now[c]
       ELSE copies[id] = now

(* Before: what copies lack, and what they have too much, is tracked.      *)
Lags(e, copy) ==
  /\ e \in EntitiesIn(trackers.removed) \/ (e \in Live /\ world[e] # <<>>)
  /\ e \in Live => \A c \in DOMAIN world[e] :
       \/ <<e, c>> \in trackers.added
       \/ c \in DOMAIN copy /\ (<<e, c>> \in trackers.changed \/ copy[c] = world[e][c])
  /\ ~ repaired =>
       /\ copy # <<>>
       /\ \A c \in DOMAIN copy :
            \/ <<e, c>> \in trackers.removed
            \/ e \in Live /\ c \in DOMAIN world[e] /\ <<e, c>> \notin trackers.added

Tracks(copies) ==
  /\ DOMAIN copies \subseteq DOMAIN ids.to_entity \ orphaned
  /\ \A id \in DOMAIN copies : Lags(ids.to_entity[id], copies[id])
  /\ \A e \in Live : (Known(ids, e) /\ ids.to_id[e] \notin DOMAIN copies) =>
       ids.to_id[e] \in orphaned \/ AllAdded(e)

(* Between: the change set has what was tracked of the entities collected. *)
Drafted(copies) ==
  LET frame == draft.frame IN
  /\ \A id \in DOMAIN copies :
       id \in frame.destroys <=> ids.to_entity[id] \in EntitiesIn(trackers.removed)
  /\ frame.creates # Absent =>
       /\ \A id \in DOMAIN frame.creates :
            /\ id \in DOMAIN ids.to_entity
            /\ ids.to_entity[id] \in Creating
            /\ frame.creates[id] = world[ids.to_entity[id]]
       /\ \A e \in Creating \ draft.todo : ids.to_id[e] \in DOMAIN frame.creates
  /\ frame.updates # Absent =>
       /\ \A id \in DOMAIN frame.updates :
            /\ id \in DOMAIN ids.to_entity
            /\ ids.to_entity[id] \in Updating
            /\ frame.updates[id] = [c \in ChangedOf(ids.to_entity[id]) |->
                                      world[ids.to_entity[id]][c]]
       /\ \A e \in Updating \ draft.todo : ids.to_id[e] \in DOMAIN frame.updates

Reached(copies) ==
  IF phase = "sent" THEN InStep(copies)
  ELSE Tracks(copies) /\ (phase = "extract" => Drafted(copies))

Following ==
  \E v, last :
    /\ Replays(v)
    /\ last = v[Len(net)] /\ Reached(last)
    /\ ~ repaired => \E s : Counts(v, s)

FollowInv ==
  /\ Typed /\ IInv
  /\ IdsInOrder /\ UnknownIsNew /\ Shapes
  /\ synced => Following

-----------------------------------------------------------------------------
(* The client's copies, and what a round makes of them. *)
LEMMA CopiesTyped ==
  ASSUME Typed, IInv
  PROVE  Copies \in EntityData
<1>1. /\ replica \in MapsOf(1 .. spawned, ComponentValues)
      /\ client_ids.to_entity \in MapsOf(1 .. MaxId, 1 .. spawned)
  BY DEF Typed, ClientTyped
<1>2. /\ DOMAIN client_ids.to_entity \subseteq 1 .. MaxId
      /\ \A h \in DOMAIN replica : replica[h] \in ComponentValues
  BY <1>1, MapIs
<1>3. \A id \in DOMAIN client_ids.to_entity : client_ids.to_entity[id] \in DOMAIN replica
  BY DEF IInv, MapsAgree
<1>4. /\ Copies = [id \in DOMAIN Copies |-> Copies[id]]
      /\ DOMAIN Copies \subseteq 1 .. MaxId
      /\ \A id \in DOMAIN Copies : Copies[id] \in ComponentValues
  BY <1>2, <1>3 DEF Copies
<1>5. QED
  BY <1>4, MapIs DEF EntityData

LEMMA CopiesSpawn ==
  ASSUME IInv, NEW id, NEW components,
         replica' = With(replica, Handle, components),
         client_ids' = Register(client_ids, id, Handle)
  PROVE  Copies' = With(Copies, id, components)
<1>1. /\ DOMAIN client_ids'.to_entity = DOMAIN client_ids.to_entity \cup {id}
      /\ \A i \in DOMAIN client_ids'.to_entity :
           client_ids'.to_entity[i] = IF i = id THEN Handle ELSE client_ids.to_entity[i]
  BY DEF Register, With
<1>2. \A i \in DOMAIN client_ids.to_entity :
        /\ client_ids.to_entity[i] \in DOMAIN replica
        /\ client_ids.to_entity[i] # Handle
  BY DEF IInv, MapsAgree, Agree, HandlesUsed, Handle
<1>3. \A h \in DOMAIN replica : h # Handle => replica'[h] = replica[h]
  BY DEF With
<1>4. replica'[Handle] = components
  BY DEF With
<1>5. \A i \in DOMAIN client_ids.to_entity \cup {id} :
        replica'[client_ids'.to_entity[i]] = IF i = id THEN components ELSE Copies[i]
  BY <1>1, <1>2, <1>3, <1>4 DEF Copies
<1>6. QED
  BY <1>1, <1>5 DEF Copies, With

LEMMA CopiesChange ==
  ASSUME IInv, NEW id \in DOMAIN client_ids.to_entity, NEW components,
         client_ids' = client_ids,
         \A h \in DOMAIN replica :
           replica'[h] = IF h = client_ids.to_entity[id] THEN components ELSE replica[h]
  PROVE  Copies' = With(Copies, id, components)
<1>1. \A i \in DOMAIN client_ids.to_entity :
        /\ client_ids.to_entity[i] \in DOMAIN replica
        /\ i # id => client_ids.to_entity[i] # client_ids.to_entity[id]
  BY DEF IInv, MapsAgree, Agree
<1>2. \A i \in DOMAIN client_ids.to_entity :
        replica'[client_ids'.to_entity[i]] = IF i = id THEN components ELSE Copies[i]
  BY <1>1 DEF Copies
<1>3. DOMAIN client_ids.to_entity \cup {id} = DOMAIN client_ids.to_entity
  OBVIOUS
<1>4. QED
  BY <1>2, <1>3 DEF Copies, With

LEMMA CopiesDestroy ==
  ASSUME IInv, NEW id \in DOMAIN client_ids.to_entity,
         replica' = Without(replica, client_ids.to_entity[id]),
         client_ids' = Unregister(client_ids, id)
  PROVE  Copies' = Without(Copies, id)
<1>1. /\ DOMAIN client_ids'.to_entity = DOMAIN client_ids.to_entity \ {id}
      /\ \A i \in DOMAIN client_ids'.to_entity :
           client_ids'.to_entity[i] = client_ids.to_entity[i]
  BY DEF Unregister, Without
<1>2. \A i \in DOMAIN client_ids'.to_entity :
        /\ client_ids.to_entity[i] \in DOMAIN replica
        /\ client_ids.to_entity[i] # client_ids.to_entity[id]
  BY <1>1 DEF IInv, MapsAgree, Agree
<1>3. \A i \in DOMAIN client_ids'.to_entity : replica'[client_ids'.to_entity[i]] = Copies[i]
  BY <1>1, <1>2 DEF Copies, Without
<1>4. QED
  BY <1>1, <1>3 DEF Copies, Without

LEMMA CopiesUnchanged ==
  ASSUME UNCHANGED <<replica, client_ids>>
  PROVE  Copies' = Copies
  BY DEF Copies

-----------------------------------------------------------------------------
(* A round of the client's loops: what the frame comes to stays, and so    *)
(* does everything after it.                                               *)
LEMMA RoundReplays ==
  ASSUME NEW v, Replays(v), order' = order, net' = net,
         applying # Absent, applying' # Absent,
         Applied(Copies', applying') = Applied(Copies, applying),
         DOMAIN applying'.updates \subseteq DOMAIN applying.updates,
         \A i \in DOMAIN applying'.updates : applying'.updates[i] = applying.updates[i]
  PROVE  Replays(v)'
<1>1. EntityData' = EntityData
  BY SchemaUnchanged
<1>2. v[0] = Applied(Copies', applying') /\ Fits(v[0], applying')
  BY DEF Replays, Fits
<1>3. /\ v \in [0 .. Len(net') -> EntityData']
      /\ \A i \in 1 .. Len(net') : v[i] = Applied(v[i - 1], net'[i]) /\ Fits(v[i], net'[i])
  BY <1>1 DEF Replays
<1>4. QED
  BY <1>2, <1>3 DEF Replays

LEMMA RoundCounts ==
  ASSUME NEW v, NEW s, Counts(v, s), net' = net, strays' = strays,
         Cardinality(DOMAIN replica') + Cardinality(AgainNow')
             + Cardinality(DOMAIN client_ids.to_entity)
           = Cardinality(DOMAIN replica) + Cardinality(AgainNow)
             + Cardinality(DOMAIN client_ids'.to_entity),
         Cardinality(DOMAIN replica) \in Nat, Cardinality(DOMAIN replica') \in Nat,
         Cardinality(AgainNow) \in Nat, Cardinality(AgainNow') \in Nat,
         Cardinality(DOMAIN client_ids.to_entity) \in Nat,
         Cardinality(DOMAIN client_ids'.to_entity) \in Nat
  PROVE  Counts(v, s)'
<1>1. s[0] \in Nat
  BY DEF Counts
<1>2. Cardinality(DOMAIN replica') + Cardinality(AgainNow')
        = Cardinality(DOMAIN client_ids'.to_entity) + s[0]
  <2>1. Cardinality(DOMAIN replica) + Cardinality(AgainNow)
          = Cardinality(DOMAIN client_ids.to_entity) + s[0]
    BY DEF Counts
  <2> DEFINE a == Cardinality(DOMAIN replica)
             b == Cardinality(AgainNow)
             c == Cardinality(DOMAIN client_ids.to_entity)
             x == Cardinality(DOMAIN replica')
             y == Cardinality(AgainNow')
             z == Cardinality(DOMAIN client_ids'.to_entity)
  <2>2. /\ a \in Nat /\ b \in Nat /\ c \in Nat /\ x \in Nat /\ y \in Nat /\ z \in Nat
        /\ a + b = c + s[0] /\ x + y + c = a + b + z
    BY <2>1
  <2> HIDE DEF a, b, c, x, y, z
  <2>3. x + y = z + s[0]
    BY <1>1, <2>2
  <2>4. QED
    BY <2>3 DEF x, y, z
<1>3. /\ s \in [0 .. Len(net') -> Nat] /\ s[Len(net')] = strays'
      /\ \A i \in 1 .. Len(net') : s[i] = s[i - 1] + Cardinality(Again(v[i - 1], net'[i]))
  BY DEF Counts
<1>4. QED
  BY <1>2, <1>3 DEF Counts

LEMMA MapFinite ==
  ASSUME NEW n \in Nat, NEW R, NEW f \in MapsOf(1 .. n, R), NEW S \in SUBSET DOMAIN f
  PROVE  IsFiniteSet(S) /\ Cardinality(S) \in Nat
<1>1. IsFiniteSet(1 .. n)
  BY FS_Interval
<1>2. S \subseteq 1 .. n
  BY MapIs
<1>3. QED
  BY <1>1, <1>2, FS_Subset, FS_CardinalityType

(* What Reached is about.                                                  *)
LEMMA ReachedUnchanged ==
  ASSUME NEW copies, UNCHANGED <<order, phase, world, trackers, ids, draft, orphaned, repaired>>
  PROVE  Reached(copies)' <=> Reached(copies)
<1>1. /\ LiveIds' = LiveIds /\ Live' = Live /\ Creating' = Creating /\ Updating' = Updating
      /\ Components' = Components
  BY DEF LiveIds, Live, Known, Creating, Updating, Components, EntitiesIn
<1>2. InStep(copies)' <=> InStep(copies)
  BY <1>1 DEF InStep
<1>3. Tracks(copies)' <=> Tracks(copies)
  BY <1>1 DEF Tracks, Lags, AllAdded, Known, EntitiesIn
<1>4. Drafted(copies)' <=> Drafted(copies)
  BY <1>1 DEF Drafted, ChangedOf, EntitiesIn
<1>5. QED
  BY <1>2, <1>3, <1>4 DEF Reached

LEMMA ServerUnchanged ==
  ASSUME UNCHANGED <<order, phase, world, unborn, trackers, ids, draft>>
  PROVE  /\ IdsInOrder /\ (synced' => synced) => IdsInOrder'
         /\ UnknownIsNew => UnknownIsNew'
<1>1. IdsInOrder /\ (synced' => synced) => IdsInOrder'
  BY DEF IdsInOrder, IdsAreExact, Known
<1>2. Live' = Live /\ Creating' = Creating /\ Updating' = Updating
  BY DEF Live, Creating, Updating, EntitiesIn
<1>3. UnknownIsNew => UnknownIsNew'
  BY <1>2 DEF UnknownIsNew, AllAdded, Known
<1>4. QED
  BY <1>1, <1>3

(* A round of one of the loops: the frame comes to what it would have, and *)
(* the entities the client keeps without an id are counted.                *)
LEMMA RoundFollows ==
  ASSUME FollowInv, Typed', synced, Upsert \/ ApplyDestroy \/ ApplyCreate \/ ApplyUpdate
  PROVE  Following'
<1>1. /\ UNCHANGED <<order, phase, world, trackers, ids, draft, orphaned, repaired, net, strays>>
      /\ applying # Absent /\ applying' # Absent
  <2>1. /\ UNCHANGED <<order, phase, world, trackers, ids, draft, orphaned, repaired, net, strays>>
        /\ applying # Absent
    BY DEF Upsert, ApplyDestroy, ApplyCreate, ApplyUpdate, Updatable, Round, serverVars, history
  <2>2. applying \in Frame /\ Absent \notin Frame
    BY <2>1, Assumed DEF FollowInv, Typed, ClientTyped
  <2>3. applying' \in Frame
    <3>1. order \in Registered
      BY DEF FollowInv, Typed
    <3>2. /\ applying.upserts \in EntityData /\ applying.creates \in EntityData
          /\ applying.updates \in EntityData /\ applying.destroys \subseteq 1 .. MaxId
      BY <2>2, <3>1, FrameHas
    <3>3. \A f \in EntityData : \A id : Without(f, id) \in EntityData
      BY MapOperations DEF EntityData
    <3>4. \/ \E id : applying' = [applying EXCEPT !.upserts = Without(applying.upserts, id)]
          \/ \E id : applying' = [applying EXCEPT !.destroys = applying.destroys \ {id}]
          \/ \E id : applying' = [applying EXCEPT !.creates = Without(applying.creates, id)]
          \/ \E id : applying' = [applying EXCEPT !.updates = Without(applying.updates, id)]
      BY DEF Upsert, ApplyDestroy, ApplyCreate, ApplyUpdate, Round
    <3>5. Frame = [upserts : EntityData, destroys : SUBSET (1 .. MaxId),
                   creates : EntityData, updates : EntityData]
      BY <3>1, Assumed
    <3>6. QED
      BY ONLY <2>2, <3>2, <3>3, <3>4, <3>5
  <2>4. QED
    BY <2>1, <2>2, <2>3
<1>2. /\ applying \in Frame /\ order \in Registered /\ Copies \in EntityData /\ IInv
      /\ applying.upserts \in EntityData /\ applying.creates \in EntityData
      /\ applying.updates \in EntityData /\ applying.destroys \subseteq 1 .. MaxId
      /\ \/ applying.upserts = <<>>
         \/ repaired /\ applying.creates = <<>> /\ applying.updates = <<>>
  <2>1. applying \in Frame /\ order \in Registered
    BY <1>1 DEF FollowInv, Typed, ClientTyped
  <2>2. IInv /\ Copies \in EntityData
    BY CopiesTyped DEF FollowInv
  <2>3. /\ applying.upserts \in EntityData /\ applying.creates \in EntityData
        /\ applying.updates \in EntityData /\ applying.destroys \subseteq 1 .. MaxId
    BY <2>1, FrameHas
  <2>4. \/ applying.upserts = <<>>
        \/ repaired /\ applying.creates = <<>> /\ applying.updates = <<>>
    BY <1>1 DEF FollowInv, Shapes
  <2>5. QED
    BY <2>1, <2>2, <2>3, <2>4
<1>3. /\ spawned \in Nat /\ replica \in MapsOf(1 .. spawned, ComponentValues)
      /\ client_ids.to_entity \in MapsOf(1 .. MaxId, 1 .. spawned)
      /\ MaxId \in Nat
  BY MaxIdAssumption DEF FollowInv, Typed, ClientTyped
<1>4. ASSUME NEW f \in EntityData, f # <<>>
      PROVE  First(DOMAIN f) \in DOMAIN f
  <2>1. f \in MapsOf(1 .. MaxId, ComponentValues)
    BY DEF EntityData
  <2>2. DOMAIN f # {}
    BY <2>1, <1>4, EmptyMapIs
  <2>3. DOMAIN f \subseteq 1 .. MaxId
    BY <2>1, MapIs
  <2>4. DOMAIN f \subseteq Nat
    BY <2>3
  <2>5. QED
    BY <2>2, <2>4, FirstIsIn
<1>5. ASSUME Applied(Copies', applying') = Applied(Copies, applying),
             DOMAIN applying'.updates \subseteq DOMAIN applying.updates,
             \A i \in DOMAIN applying'.updates : applying'.updates[i] = applying.updates[i],
             ~ repaired =>
               Cardinality(DOMAIN replica') + Cardinality(AgainNow')
                   + Cardinality(DOMAIN client_ids.to_entity)
                 = Cardinality(DOMAIN replica) + Cardinality(AgainNow)
                   + Cardinality(DOMAIN client_ids'.to_entity)
      PROVE  Following'
  <2>1. PICK v, last : /\ Replays(v)
                       /\ last = v[Len(net)] /\ Reached(last)
                       /\ ~ repaired => \E s : Counts(v, s)
    BY DEF FollowInv, Following
  <2>2. Replays(v)'
    BY <1>1, <1>5, <2>1, RoundReplays
  <2>3. last = v[Len(net')] /\ Reached(last)'
    BY <1>1, <2>1, ReachedUnchanged
  <2>4. ASSUME ~ repaired, NEW s, Counts(v, s)
        PROVE  Counts(v, s)'
    <3>1. /\ Cardinality(DOMAIN replica) \in Nat
          /\ Cardinality(DOMAIN client_ids.to_entity) \in Nat
      BY <1>3, MapFinite
    <3>2. /\ spawned' \in Nat /\ replica' \in MapsOf(1 .. spawned', ComponentValues')
          /\ client_ids'.to_entity \in MapsOf(1 .. MaxId, 1 .. spawned')
          /\ applying' \in Frame'
      BY <1>1 DEF Typed, ClientTyped
    <3>3. /\ Cardinality(DOMAIN replica') \in Nat
          /\ Cardinality(DOMAIN client_ids'.to_entity) \in Nat
      BY <3>2, <1>3, MapFinite
    <3>4. ASSUME NEW f \in Frame, NEW any
          PROVE  Cardinality(Again(any, f)) \in Nat
      <4>1. f.creates \in MapsOf(1 .. MaxId, ComponentValues)
        BY <1>2, FrameHas DEF EntityData
      <4>2. Again(any, f) \in SUBSET DOMAIN f.creates
        BY DEF Again
      <4>3. QED
        BY <4>1, <4>2, <1>3, MapFinite
    <3>5. Frame' = Frame
      BY <1>1, SchemaUnchanged
    <3>6. Cardinality(AgainNow) \in Nat /\ Cardinality(AgainNow') \in Nat
      <4>1. AgainNow = Again(Copies, applying) /\ AgainNow' = Again(Copies', applying')
        BY <1>1 DEF AgainNow
      <4>2. QED
        BY <4>1, <3>2, <3>4, <3>5, <1>2
    <3>7. QED
      BY <3>1, <3>3, <3>6, <2>4, <1>1, <1>5, RoundCounts
  <2>5. QED
    BY <1>1, <2>1, <2>2, <2>3, <2>4 DEF Following
<1>6. AgainNow = Again(Copies, applying) /\ AgainNow' = Again(Copies', applying')
  BY <1>1 DEF AgainNow
<1>7. CASE Upsert
  <2> DEFINE id == First(DOMAIN applying.upserts)
             components == IF id \in DOMAIN Copies
                           THEN Over(applying.upserts[id], Copies[id]) ELSE applying.upserts[id]
  <2>1. /\ applying.upserts # <<>>
        /\ applying' = [applying EXCEPT !.upserts = Without(@, id)]
    BY <1>7 DEF Upsert, Round
  <2>2. id \in DOMAIN applying.upserts
    BY <1>2, <1>4, <2>1
  <2>3. DOMAIN Copies = DOMAIN client_ids.to_entity
    BY DEF Copies
  <2>4. Copies' = With(Copies, id, components)
    <3>1. CASE id \in DOMAIN client_ids.to_entity
      <4>1. /\ replica' = [replica EXCEPT ![client_ids.to_entity[id]] =
                             Over(applying.upserts[id], @)]
            /\ client_ids' = client_ids
        BY <1>7, <3>1 DEF Upsert, Round
      <4>2. components = Over(applying.upserts[id], replica[client_ids.to_entity[id]])
        BY <3>1, <2>3 DEF Copies
      <4>3. client_ids.to_entity[id] \in DOMAIN replica
        BY <1>2, <3>1 DEF IInv, MapsAgree
      <4> HIDE DEF id, components
      <4>4. \A h \in DOMAIN replica :
              replica'[h] = IF h = client_ids.to_entity[id] THEN components ELSE replica[h]
        BY <4>1, <4>2, <4>3
      <4>5. QED
        BY <1>2, <3>1, <4>1, <4>4, CopiesChange
    <3>2. CASE id \notin DOMAIN client_ids.to_entity
      <4>1. /\ replica' = With(replica, Handle, applying.upserts[id])
            /\ client_ids' = Register(client_ids, id, Handle)
        BY <1>7, <3>2 DEF Upsert, Round
      <4>2. components = applying.upserts[id]
        BY <3>2, <2>3
      <4> HIDE DEF id, components
      <4>3. QED
        BY <1>2, <4>1, <4>2, CopiesSpawn
    <3>3. QED
      BY <3>1, <3>2
  <2>5. applying.creates = <<>> /\ applying.updates = <<>> /\ repaired
    BY <1>2, <2>1
  <2>6. Applied(Copies', applying') = Applied(Copies, applying)
    BY <1>2, <2>1, <2>2, <2>4, <2>5, UpsertAhead
  <2>7. applying'.updates = applying.updates
    BY <1>2, <2>1, Assumed
  <2>8. QED
    BY <1>5, <2>5, <2>6, <2>7
<1>8. CASE ApplyDestroy
  <2> DEFINE id == First(applying.destroys)
  <2>1. /\ applying.upserts = <<>> /\ applying.destroys # {}
        /\ applying' = [applying EXCEPT !.destroys = @ \ {id}]
    BY <1>8 DEF ApplyDestroy, Round
  <2>2. id \in applying.destroys
    <3>1. applying.destroys \subseteq Nat
      BY <1>2, <1>3
    <3>2. QED
      BY <3>1, <2>1, FirstIsIn
  <2>3. applying'.updates = applying.updates
    BY <1>2, <2>1, Assumed
  <2>4. CASE id \in DOMAIN client_ids.to_entity
    <3>1. /\ replica' = Without(replica, client_ids.to_entity[id])
          /\ client_ids' = Unregister(client_ids, id)
      BY <1>8, <2>4 DEF ApplyDestroy, Round
    <3> HIDE DEF id
    <3>2. Copies' = Without(Copies, id)
      BY <1>2, <2>4, <3>1, CopiesDestroy
    <3>3. /\ Applied(Copies', applying') = Applied(Copies, applying)
          /\ AgainNow' = AgainNow
      BY <1>2, <1>6, <2>1, <2>2, <3>2, DestroyAhead
    <3>4. /\ DOMAIN replica' = DOMAIN replica \ {client_ids.to_entity[id]}
          /\ client_ids.to_entity[id] \in DOMAIN replica
          /\ DOMAIN client_ids'.to_entity = DOMAIN client_ids.to_entity \ {id}
      BY <1>2, <2>4, <3>1 DEF IInv, MapsAgree, Unregister, Without
    <3>5. /\ IsFiniteSet(DOMAIN replica) /\ IsFiniteSet(DOMAIN client_ids.to_entity)
          /\ Cardinality(DOMAIN replica) \in Nat
          /\ Cardinality(DOMAIN client_ids.to_entity) \in Nat
      BY <1>3, MapFinite
    <3>6. /\ Cardinality(DOMAIN replica') = Cardinality(DOMAIN replica) - 1
          /\ Cardinality(DOMAIN client_ids'.to_entity)
               = Cardinality(DOMAIN client_ids.to_entity) - 1
      <4>1. Cardinality(DOMAIN replica') = Cardinality(DOMAIN replica) - 1
        <5> DEFINE h == client_ids.to_entity[id]
        <5> HIDE DEF h
        <5>1. h \in DOMAIN replica /\ DOMAIN replica' = DOMAIN replica \ {h}
          BY <3>4 DEF h
        <5>2. QED
          BY <3>5, <5>1, FS_RemoveElement
      <4>2. Cardinality(DOMAIN client_ids'.to_entity)
              = Cardinality(DOMAIN client_ids.to_entity) - 1
        BY <2>4, <3>4, <3>5, FS_RemoveElement
      <4>3. QED
        BY <4>1, <4>2
    <3>7. ASSUME NEW n, Cardinality(AgainNow) = n, n \in Nat
          PROVE  Following'
      BY <1>5, <2>3, <3>3, <3>5, <3>6, <3>7
    <3>8. Cardinality(AgainNow) \in Nat
      <4>1. applying.creates \in MapsOf(1 .. MaxId, ComponentValues)
        BY <1>2 DEF EntityData
      <4>2. QED
        BY <1>3, <1>6, <4>1, MapFinite DEF Again
    <3>9. QED
      BY <3>7, <3>8
  <2>5. CASE id \notin DOMAIN client_ids.to_entity
    <3>1. replica' = replica /\ client_ids' = client_ids
      BY <1>8, <2>5 DEF ApplyDestroy, Round
    <3> HIDE DEF id
    <3>2. Copies' = Copies /\ id \notin DOMAIN Copies
      BY <2>5, <3>1 DEF Copies
    <3>3. /\ Applied(Copies', applying') = Applied(Copies, applying)
          /\ AgainNow' = AgainNow
      BY <1>2, <1>6, <2>1, <2>2, <3>2, DestroyAhead
    <3>4. QED
      BY <1>5, <2>3, <3>1, <3>3
  <2>6. QED
    BY <2>4, <2>5
<1>9. CASE ApplyCreate
  <2> DEFINE id == First(DOMAIN applying.creates)
  <2>1. /\ applying.creates # <<>> /\ applying.destroys = {}
        /\ applying' = [applying EXCEPT !.creates = Without(@, id)]
        /\ replica' = With(replica, Handle, applying.creates[id])
        /\ client_ids' = Register(client_ids, id, Handle)
    BY <1>9 DEF ApplyCreate, Round
  <2>2. id \in DOMAIN applying.creates
    BY <1>2, <1>4, <2>1
  <2>3. applying.upserts = <<>> /\ applying'.updates = applying.updates
    BY <1>2, <2>1, Assumed
  <2> HIDE DEF id
  <2>4. Copies' = With(Copies, id, applying.creates[id])
    BY <1>2, <2>1, CopiesSpawn
  <2>5. /\ Applied(Copies', applying') = Applied(Copies, applying)
        /\ AgainNow' = AgainNow \ {id}
    <3>1. applying \in Frame /\ order \in Registered /\ id \in DOMAIN applying.creates
          /\ applying.upserts = <<>> /\ applying.destroys = {}
          /\ applying' = [applying EXCEPT !.creates = Without(@, id)]
      BY <1>2, <2>1, <2>2, <2>3
    <3>2. QED
      BY <3>1, <1>6, <2>4, CreateAhead
  <2>6. /\ DOMAIN replica' = DOMAIN replica \cup {Handle}
        /\ DOMAIN client_ids'.to_entity = DOMAIN client_ids.to_entity \cup {id}
        /\ id \in AgainNow <=> id \in DOMAIN client_ids.to_entity
    BY <1>6, <2>1, <2>2 DEF With, Register, Again, Copies
  <2>7. Handle \notin DOMAIN replica
    <3>1. DOMAIN replica \subseteq 1 .. spawned
      BY <1>3, MapIs
    <3>2. QED
      BY <3>1, <1>3 DEF Handle
  <2>8. /\ IsFiniteSet(DOMAIN replica) /\ IsFiniteSet(DOMAIN client_ids.to_entity)
        /\ Cardinality(DOMAIN replica) \in Nat
        /\ Cardinality(DOMAIN client_ids.to_entity) \in Nat
    BY <1>3, MapFinite
  <2>9. IsFiniteSet(AgainNow) /\ Cardinality(AgainNow) \in Nat
    <3>1. applying.creates \in MapsOf(1 .. MaxId, ComponentValues)
      BY <1>2 DEF EntityData
    <3>2. AgainNow \in SUBSET DOMAIN applying.creates
      BY <1>6 DEF Again
    <3>3. QED
      BY <1>3, <3>1, <3>2, MapFinite
  <2>10. Cardinality(DOMAIN replica') = Cardinality(DOMAIN replica) + 1
    BY <2>6, <2>7, <2>8, FS_AddElement
  <2>11. CASE id \in DOMAIN client_ids.to_entity
    <3>1. DOMAIN client_ids'.to_entity = DOMAIN client_ids.to_entity
      BY <2>6, <2>11
    <3>2. Cardinality(AgainNow') = Cardinality(AgainNow) - 1
      BY <2>5, <2>6, <2>9, <2>11, FS_RemoveElement
    <3>3. Cardinality(DOMAIN replica') + Cardinality(AgainNow')
              + Cardinality(DOMAIN client_ids.to_entity)
            = Cardinality(DOMAIN replica) + Cardinality(AgainNow)
              + Cardinality(DOMAIN client_ids'.to_entity)
      BY <2>8, <2>9, <2>10, <3>1, <3>2
    <3>4. QED
      BY <1>5, <2>3, <2>5, <3>3
  <2>12. CASE id \notin DOMAIN client_ids.to_entity
    <3>1. AgainNow' = AgainNow
      BY <2>5, <2>6, <2>12
    <3>2. Cardinality(DOMAIN client_ids'.to_entity)
            = Cardinality(DOMAIN client_ids.to_entity) + 1
      BY <2>6, <2>8, <2>12, FS_AddElement
    <3>3. Cardinality(DOMAIN replica') + Cardinality(AgainNow')
              + Cardinality(DOMAIN client_ids.to_entity)
            = Cardinality(DOMAIN replica) + Cardinality(AgainNow)
              + Cardinality(DOMAIN client_ids'.to_entity)
      BY <2>8, <2>9, <2>10, <3>1, <3>2
    <3>4. QED
      BY <1>5, <2>3, <2>5, <3>3
  <2>13. QED
    BY <2>11, <2>12
<1>10. CASE ApplyUpdate
  <2> DEFINE id == First(DOMAIN applying.updates)
             update == applying.updates[id]
  <2>1. /\ applying.updates # <<>> /\ applying.creates = <<>> /\ applying.destroys = {}
        /\ applying' = [applying EXCEPT !.updates = Without(@, id)]
        /\ replica' = WithUpdate(id, DOMAIN update)
        /\ client_ids' = client_ids
    BY <1>10 DEF ApplyUpdate, Updatable, Round
  <2>2. id \in DOMAIN applying.updates
    BY <1>2, <1>4, <2>1
  <2>3. applying.upserts = <<>> /\ applying'.updates = Without(applying.updates, id)
    BY <1>2, <2>1, Assumed
  <2>4. /\ DOMAIN applying'.updates \subseteq DOMAIN applying.updates
        /\ \A i \in DOMAIN applying'.updates : applying'.updates[i] = applying.updates[i]
    BY <2>3 DEF Without
  <2>5. DOMAIN replica' = DOMAIN replica
    BY <2>1, WithUpdateDomain
  <2> HIDE DEF id
  <2>6. AgainNow' = AgainNow
    BY <1>2, <1>6, <2>1, <2>2, <2>3, UpdateAhead
  <2>7. Applied(Copies', applying') = Applied(Copies, applying)
    <3>1. CASE id \in DOMAIN client_ids.to_entity
      <4> DEFINE entity == client_ids.to_entity[id]
      <4>1. \A h \in DOMAIN replica :
              replica'[h] = IF h = entity THEN Updated(replica[h], update) ELSE replica[h]
        BY <2>1, <3>1 DEF WithUpdate, Updated
      <4>2. Copies[id] = replica[entity] /\ id \in DOMAIN Copies
        BY <3>1 DEF Copies
      <4> HIDE DEF update
      <4>3. Copies' = With(Copies, id, Updated(Copies[id], update))
        BY <1>2, <2>1, <3>1, <4>1, <4>2, CopiesChange
      <4>4. QED
        BY <1>2, <2>1, <2>2, <2>3, <4>2, <4>3, UpdateAhead DEF update
    <3>2. CASE id \notin DOMAIN client_ids.to_entity
      <4>1. Copies' = Copies /\ id \notin DOMAIN Copies
        BY <2>1, <3>2 DEF Copies, WithUpdate
      <4>2. Applied(Copies, [applying EXCEPT !.updates = Without(@, id)]) = Applied(Copies, applying)
        BY ONLY <1>2, <2>1, <2>2, <2>3, <4>1, UpdateAhead
      <4>3. QED
        BY ONLY <2>1, <4>1, <4>2
    <3>3. QED
      BY <3>1, <3>2
  <2>8. QED
    BY <1>5, <2>1, <2>4, <2>5, <2>6, <2>7
<1>11. QED
  BY <1>7, <1>8, <1>9, <1>10

(* The frame is done with: it has come to what it was to come to.          *)
LEMMA DoneFollows ==
  ASSUME FollowInv, synced, ApplyDone
  PROVE  Following'
<1>1. /\ UNCHANGED <<order, phase, world, trackers, ids, draft, orphaned, repaired, net, strays>>
      /\ UNCHANGED <<replica, client_ids>>
      /\ applying = Nothing /\ applying' = Absent
  BY DEF ApplyDone, serverVars, history
<1>2. Copies' = Copies /\ Copies \in EntityData
  BY <1>1, CopiesUnchanged, CopiesTyped DEF FollowInv
<1>3. PICK v, last : /\ Replays(v)
                     /\ last = v[Len(net)] /\ Reached(last)
                     /\ ~ repaired => \E s : Counts(v, s)
  BY DEF FollowInv, Following
<1>4. applying # Absent
  BY <1>1, Assumed DEF FollowInv, Typed
<1>5. EntityData' = EntityData
  BY <1>1, SchemaUnchanged
<1>6. Replays(v)'
  <2>1. v[0] = Applied(Copies, Nothing)
    BY <1>1, <1>3, <1>4 DEF Replays
  <2>2. v[0] = Copies'
    BY <1>2, <2>1, NothingApplied
  <2>3. /\ v \in [0 .. Len(net') -> EntityData']
        /\ \A i \in 1 .. Len(net') : v[i] = Applied(v[i - 1], net'[i]) /\ Fits(v[i], net'[i])
    BY <1>1, <1>3, <1>5 DEF Replays
  <2>4. QED
    BY <1>1, <2>2, <2>3 DEF Replays
<1>7. ASSUME NEW s, Counts(v, s)
      PROVE  Counts(v, s)'
  <2>1. AgainNow = {} /\ AgainNow' = {}
    BY <1>1, <1>2, <1>4, NothingApplied DEF AgainNow
  <2>2. Cardinality(DOMAIN replica') + Cardinality(AgainNow')
          = Cardinality(DOMAIN client_ids'.to_entity) + s[0]
    BY <1>1, <1>7, <2>1 DEF Counts
  <2>3. /\ s \in [0 .. Len(net') -> Nat] /\ s[Len(net')] = strays'
        /\ \A i \in 1 .. Len(net') : s[i] = s[i - 1] + Cardinality(Again(v[i - 1], net'[i]))
    BY <1>1, <1>7 DEF Counts
  <2>4. QED
    BY <2>2, <2>3 DEF Counts
<1>8. last = v[Len(net')] /\ Reached(last)'
  BY <1>1, <1>3, ReachedUnchanged
<1>9. QED
  BY <1>1, <1>3, <1>6, <1>7, <1>8 DEF Following

(* A frame arrives: it is now the one that is applied.                     *)
LEMMA DeliverFollows ==
  ASSUME FollowInv, synced, Deliver
  PROVE  Following'
<1>1. /\ UNCHANGED <<order, phase, world, trackers, ids, draft, orphaned, repaired, strays>>
      /\ UNCHANGED <<replica, client_ids>>
      /\ applying = Absent /\ net # <<>>
      /\ applying' = Head(net) /\ net' = Tail(net)
  BY DEF Deliver, Idle, serverVars, history
<1>2. Copies' = Copies
  BY <1>1, CopiesUnchanged
<1>3. PICK v, last : /\ Replays(v)
                     /\ last = v[Len(net)] /\ Reached(last)
                     /\ ~ repaired => \E s : Counts(v, s)
  BY DEF FollowInv, Following
<1>4. /\ Len(net) \in Nat \ {0} /\ Len(net') = Len(net) - 1
      /\ applying' = net[1] /\ net[1] \in Frame
      /\ \A i \in 1 .. Len(net') : net'[i] = net[i + 1]
  BY <1>1, HeadTailProperties DEF FollowInv, Typed, LinkTyped
<1>5. applying' # Absent
  BY <1>4, Assumed DEF FollowInv, Typed
<1>6. EntityData' = EntityData
  BY <1>1, SchemaUnchanged
<1>7. /\ v \in [0 .. Len(net) -> EntityData]
      /\ v[0] = Copies
      /\ \A i \in 1 .. Len(net) : v[i] = Applied(v[i - 1], net[i]) /\ Fits(v[i], net[i])
  BY <1>1, <1>3 DEF Replays
<1>0. PICK w : w = [i \in 0 .. Len(net') |-> v[i + 1]]
  OBVIOUS
<1>8. w[0] = v[1] /\ w[Len(net')] = v[Len(net)]
  BY <1>4, <1>0
<1>9. Replays(w)'
  <2>1. w \in [0 .. Len(net') -> EntityData']
    BY <1>4, <1>6, <1>7, <1>0
  <2>2. v[1] = Applied(v[0], net[1]) /\ Fits(v[1], net[1])
    BY <1>4, <1>7
  <2>3. w[0] = Applied(Copies', applying') /\ Fits(w[0], applying')
    BY <1>2, <1>4, <1>7, <1>8, <2>2
  <2>4. ASSUME NEW i \in 1 .. Len(net')
        PROVE  w[i] = Applied(w[i - 1], net'[i]) /\ Fits(w[i], net'[i])
    <3>1. w[i] = v[i + 1] /\ w[i - 1] = v[i] /\ i + 1 \in 1 .. Len(net)
          /\ (i + 1) - 1 = i /\ net'[i] = net[i + 1]
      BY <1>4, <1>0
    <3>2. v[i + 1] = Applied(v[(i + 1) - 1], net[i + 1]) /\ Fits(v[i + 1], net[i + 1])
      BY <1>7, <3>1
    <3>3. QED
      BY <3>1, <3>2
  <2>5. QED
    BY <1>5, <2>1, <2>3, <2>4 DEF Replays
<1>10. ASSUME NEW s, Counts(v, s)
       PROVE  \E t : Counts(w, t)'
  <2>0. PICK t : t = [i \in 0 .. Len(net') |-> s[i + 1]]
    OBVIOUS
  <2>1. /\ s \in [0 .. Len(net) -> Nat] /\ s[Len(net)] = strays
        /\ \A i \in 1 .. Len(net) : s[i] = s[i - 1] + Cardinality(Again(v[i - 1], net[i]))
        /\ Cardinality(DOMAIN replica) + Cardinality(AgainNow)
             = Cardinality(DOMAIN client_ids.to_entity) + s[0]
    BY <1>10 DEF Counts
  <2>2. t \in [0 .. Len(net') -> Nat] /\ t[0] = s[1] /\ t[Len(net')] = strays'
    BY <1>1, <1>4, <2>1, <2>0
  <2>3. ASSUME NEW i \in 1 .. Len(net')
        PROVE  t[i] = t[i - 1] + Cardinality(Again(w[i - 1], net'[i]))
    <3>1. /\ t[i] = s[i + 1] /\ t[i - 1] = s[i] /\ w[i - 1] = v[i]
          /\ i + 1 \in 1 .. Len(net) /\ (i + 1) - 1 = i /\ net'[i] = net[i + 1]
      BY <1>4, <1>0, <2>0
    <3>2. s[i + 1] = s[(i + 1) - 1] + Cardinality(Again(v[(i + 1) - 1], net[i + 1]))
      BY <2>1, <3>1
    <3>3. QED
      BY <3>1, <3>2
  <2>4. AgainNow = {} /\ AgainNow' = Again(v[0], net[1])
    BY <1>1, <1>2, <1>4, <1>5, <1>7 DEF AgainNow
  <2>5. s[1] = s[0] + Cardinality(AgainNow')
    BY <1>4, <2>1, <2>4
  <2>6. Cardinality(DOMAIN replica') + Cardinality(AgainNow')
          = Cardinality(DOMAIN client_ids'.to_entity) + t[0]
    <3>1. Cardinality(DOMAIN replica) = Cardinality(DOMAIN client_ids.to_entity) + s[0]
      <4>1. Cardinality({}) = 0
        BY FS_EmptySet
      <4>2. Cardinality(DOMAIN replica) \in Nat
        BY MapFinite DEF FollowInv, Typed, ClientTyped
      <4>3. QED
        BY <2>1, <2>4, <4>1, <4>2
    <3>2. Cardinality(DOMAIN client_ids.to_entity) \in Nat
      BY MapFinite, MaxIdAssumption DEF FollowInv, Typed, ClientTyped
    <3>3. s[0] \in Nat /\ s[1] \in Nat
      BY <1>4, <2>1
    <3>4. Cardinality(AgainNow') \in Nat
      <4>1. net[1].creates \in MapsOf(1 .. MaxId, ComponentValues)
        BY <1>4, FrameHas DEF FollowInv, Typed, EntityData
      <4>2. AgainNow' \in SUBSET DOMAIN net[1].creates
        BY <2>4 DEF Again
      <4>3. QED
        BY <4>1, <4>2, MaxIdAssumption, MapFinite
    <3> DEFINE a == Cardinality(DOMAIN replica)
               c == Cardinality(DOMAIN client_ids.to_entity)
               y == Cardinality(AgainNow')
    <3> HIDE DEF a, c, y
    <3>5. a + y = c + s[1]
      BY <2>5, <3>1, <3>2, <3>3, <3>4 DEF a, c, y
    <3>6. QED
      BY <1>1, <2>2, <3>5 DEF a, c, y
  <2>7. Counts(w, t)'
    BY <2>2, <2>3, <2>6 DEF Counts
  <2>8. QED
    BY <2>7
<1>11. last = w[Len(net')] /\ Reached(last)'
  BY <1>1, <1>3, <1>8, ReachedUnchanged
<1>12. QED
  BY <1>1, <1>3, <1>9, <1>10, <1>11 DEF Following

(* A resync with no frame under way: the upserts and destroys will give    *)
(* the client what the server has.                                         *)
LEMMA ResyncFollows ==
  ASSUME FollowInv, Resync, synced'
  PROVE  Following'
<1> DEFINE frame == [upserts |-> Snapshot,
                     destroys |-> DOMAIN client_ids.to_entity \ DOMAIN Snapshot,
                     creates |-> <<>>, updates |-> <<>>]
<1>1. /\ UNCHANGED <<order, phase, world, ids, net, replica, client_ids>>
      /\ applying' = frame
      /\ net = <<>> /\ Cardinality(DOMAIN ids.to_id) <= MaxId
      /\ phase = "sent" /\ orphaned' = {} /\ repaired' = TRUE
  BY DEF Resync, Nothing, serverVars, FollowInv, Shapes, Idle
<1>2. IdsAreExact /\ Agree(ids) /\ Typed
  BY <1>1 DEF FollowInv, IdsInOrder, IInv, MapsAgree
<1>3. frame \in Frame /\ order \in Registered /\ Absent \notin Frame
  <2>1. Snapshot \in EntityData /\ <<>> \in EntityData
    BY <1>2, SnapshotTyped, EmptyMapIs DEF EntityData
  <2>2. client_ids.to_entity \in MapsOf(1 .. MaxId, 1 .. spawned) /\ order \in Registered
    BY <1>2 DEF Typed, ClientTyped
  <2>3. DOMAIN client_ids.to_entity \subseteq 1 .. MaxId
    BY <2>2, MapIs
  <2>4. Frame = [upserts : EntityData, destroys : SUBSET (1 .. MaxId),
                 creates : EntityData, updates : EntityData]
    BY <2>2, Assumed
  <2>5. frame \in Frame
    BY <2>1, <2>3, <2>4
  <2>6. QED
    BY <2>2, <2>5, Assumed
<1>4. Copies' = Copies /\ Copies \in EntityData /\ EntityData' = EntityData
  BY <1>1, CopiesUnchanged, CopiesTyped, SchemaUnchanged DEF FollowInv
<1>5. PICK last : last = Applied(Copies, frame)
  OBVIOUS
<1>6. PICK v : v = [i \in 0 .. 0 |-> last]
  OBVIOUS
<1>7. v \in [0 .. 0 -> EntityData] /\ v[0] = last /\ Len(net') = 0
  BY <1>1, <1>3, <1>4, <1>5, <1>6, AppliedTyped
<1>8. /\ frame.upserts = Snapshot /\ frame.creates = <<>> /\ frame.updates = <<>>
      /\ frame.destroys = DOMAIN client_ids.to_entity \ DOMAIN Snapshot
  OBVIOUS
<1> HIDE DEF frame
<1>9. DOMAIN <<>> = {}
  BY EmptyMapIs
<1>10. Replays(v)'
  <2>1. applying' # Absent
    BY <1>1, <1>3
  <2>2. v[0] = Applied(Copies', applying') /\ Fits(v[0], applying')
    BY <1>1, <1>4, <1>5, <1>7, <1>8, <1>9 DEF Fits
  <2>3. QED
    BY <1>4, <1>7, <2>1, <2>2 DEF Replays
<1>11. DOMAIN last = DOMAIN Snapshot
  BY <1>5, <1>8, <1>9 DEF Applied, AppliedIds, Copies
<1>12. DOMAIN Snapshot = LiveIds
  <2>1. ASSUME NEW id \in DOMAIN Snapshot
        PROVE  id \in LiveIds
    BY <1>2, <2>1 DEF Snapshot, LiveIds, Agree, Known
  <2>2. ASSUME NEW id \in LiveIds
        PROVE  id \in DOMAIN Snapshot
    BY <1>2, <2>2 DEF Snapshot, LiveIds, IdsAreExact, Known
  <2>3. QED
    BY <2>1, <2>2
<1>13. ASSUME NEW id \in DOMAIN last, NEW c \in DOMAIN world[ids.to_entity[id]]
       PROVE  c \in DOMAIN last[id] /\ last[id][c] = world[ids.to_entity[id]][c]
  <2>1. Snapshot[id] = world[ids.to_entity[id]]
    BY <1>11 DEF Snapshot
  <2>2. last[id] = IF id \in DOMAIN Copies THEN Over(Snapshot[id], Copies[id]) ELSE Snapshot[id]
    BY <1>5, <1>8, <1>9, <1>11 DEF Applied, Placed
  <2>3. QED
    BY <2>1, <2>2, <1>13 DEF Over
<1>14. Reached(last)'
  <2>1. LiveIds' = LiveIds
    BY <1>1 DEF LiveIds, Live, Known
  <2>2. QED
    BY <1>1, <1>11, <1>12, <1>13, <2>1 DEF Reached, InStep
<1>15. QED
  BY <1>1, <1>7, <1>10, <1>14 DEF Following

-----------------------------------------------------------------------------
(* The server.  Its steps leave the copies alone, but for Send.            *)
LEMMA PipelineUnchanged ==
  ASSUME UNCHANGED <<order, net, applying, replica, client_ids, strays>>, NEW v
  PROVE  /\ Replays(v) => Replays(v)'
         /\ \A s : Counts(v, s) => Counts(v, s)'
<1>1. Copies' = Copies /\ EntityData' = EntityData
  BY CopiesUnchanged, SchemaUnchanged
<1>2. Replays(v) => Replays(v)'
  BY <1>1 DEF Replays
<1>3. AgainNow' = AgainNow
  BY <1>1 DEF AgainNow
<1>4. ASSUME NEW s, Counts(v, s)
      PROVE  Counts(v, s)'
  BY <1>3, <1>4 DEF Counts
<1>5. QED
  BY <1>2, <1>4

LEMMA ServerFollows ==
  ASSUME FollowInv, synced,
         UNCHANGED <<order, net, applying, replica, client_ids, strays, repaired>>,
         \A copies \in EntityData : Reached(copies) => Reached(copies)'
  PROVE  Following'
<1>1. PICK v, last : /\ Replays(v)
                     /\ last = v[Len(net)] /\ Reached(last)
                     /\ ~ repaired => \E s : Counts(v, s)
  BY DEF FollowInv, Following
<1>2. last \in EntityData
  <2>1. net \in Seq(Frame)
    BY DEF FollowInv, Typed, LinkTyped
  <2>2. Len(net) \in 0 .. Len(net)
    BY <2>1
  <2>3. QED
    BY <1>1, <2>2 DEF Replays
<1>3. Replays(v)' /\ (~ repaired' => \E s : Counts(v, s)')
  BY <1>1, PipelineUnchanged
<1>4. QED
  BY <1>1, <1>2, <1>3 DEF Following

LEMMA InitFollows == Init => FollowInv
<1> SUFFICES ASSUME Init PROVE FollowInv
  OBVIOUS
<1>1. Typed /\ IInv
  BY InitTyped, InitIInv
<1>2. DOMAIN <<>> = {} /\ <<>> \in EntityData
  BY EmptyMapIs DEF EntityData
<1>3. Live = {}
  BY DEF Init, Live
<1>4. IdsInOrder
  BY <1>2, FS_EmptySet, MaxIdAssumption DEF Init, IdsInOrder, IdsAreExact, EmptyMap, AtMost, Known
<1>5. UnknownIsNew /\ Shapes
  BY <1>2, <1>3 DEF Init, UnknownIsNew, Shapes, Idle, NoDraft, Nothing
<1>6. Copies = <<>>
  <2>1. DOMAIN Copies = {} /\ Copies \in EntityData
    BY <1>1, <1>2, CopiesTyped DEF Init, Copies, EmptyMap
  <2>2. QED
    BY <2>1, EmptyMapIs DEF EntityData
<1>7. Following
  <2>1. PICK v : v = [i \in 0 .. 0 |-> <<>>]
    OBVIOUS
  <2>2. PICK s : s = [i \in 0 .. 0 |-> 0]
    OBVIOUS
  <2>3. net = <<>> /\ Len(net) = 0 /\ applying = Absent
    BY DEF Init
  <2>4. Replays(v)
    BY <1>2, <1>6, <2>1, <2>3 DEF Replays
  <2>5. Counts(v, s)
    BY <1>2, <2>2, <2>3, FS_EmptySet DEF Counts, AgainNow, Init, EmptyMap
  <2>6. Reached(<<>>)
    BY <1>2, <1>3 DEF Reached, Tracks, Init
  <2>7. QED
    BY <2>1, <2>3, <2>4, <2>5, <2>6 DEF Following
<1>8. QED
  BY <1>1, <1>4, <1>5, <1>7 DEF FollowInv

LEMMA InTracked ==
  ASSUME NEW S \in SUBSET (Entities \X Components), NEW e
  PROVE  e \in EntitiesIn(S) <=> \E c \in Components : <<e, c>> \in S
<1>1. ASSUME NEW c \in Components, <<e, c>> \in S
      PROVE  e \in EntitiesIn(S)
  <2>1. <<e, c>>[1] = e
    OBVIOUS
  <2>2. QED
    BY <1>1, <2>1 DEF EntitiesIn
<1>2. ASSUME NEW pair \in S, e = pair[1]
      PROVE  \E c \in Components : <<e, c>> \in S
  <2>1. pair = <<pair[1], pair[2]>> /\ pair[2] \in Components
    OBVIOUS
  <2>2. QED
    BY <1>2, <2>1
<1>3. QED
  BY <1>1, <1>2 DEF EntitiesIn

(* A change of one entity, the others' components and trackers left alone. *)
LEMMA WorldFollows ==
  ASSUME FollowInv, Typed', NEW e \in Entities, NEW components, NEW t,
         ServerWorld(e, components, t), unborn' \subseteq unborn,
         \A x, c : x # e =>
           /\ <<x, c>> \in t.added <=> <<x, c>> \in trackers.added
           /\ <<x, c>> \in t.changed <=> <<x, c>> \in trackers.changed
           /\ <<x, c>> \in t.removed <=> <<x, c>> \in trackers.removed,
         e \in Live' =>
           IF e \in Live THEN AllAdded(e) => AllAdded(e)'
           ELSE ~ Known(ids, e) /\ AllAdded(e)',
         \A copy \in ComponentValues : Known(ids, e) /\ Lags(e, copy) => Lags(e, copy)'
  PROVE  FollowInv'
<1>1. /\ phase = "change" /\ phase' = "change"
      /\ world' = [world EXCEPT ![e] = components] /\ trackers' = t
      /\ UNCHANGED <<order, phase, ids, draft, net>>
      /\ UNCHANGED <<applying, failed, replica, spawned, client_ids>>
      /\ UNCHANGED <<synced, repaired, orphaned, strays>>
  BY DEF ServerWorld, clientVars, history
<1>2. /\ world \in [Entities -> ComponentValues \cup {Absent}]
      /\ Components' = Components
      /\ trackers.removed \in SUBSET (Entities \X Components)
      /\ t.removed \in SUBSET (Entities \X Components)
  BY <1>1, SchemaUnchanged DEF FollowInv, Typed, WorldTyped
<1>3. \A x \in Entities : x # e => world'[x] = world[x] /\ (x \in Live' <=> x \in Live)
  BY <1>1, <1>2 DEF Live
<1>4. IInv'
  <2>1. Agree(ids') /\ UNCHANGED ClientPart
    BY <1>1 DEF FollowInv, IInv, MapsAgree, ClientPart, Agree
  <2>2. QED
    BY <2>1, ServerKeepsIInv DEF FollowInv
<1>5. IdsInOrder'
  BY <1>1 DEF FollowInv, IdsInOrder, IdsAreExact, Known
<1>6. \A x \in Entities : x # e => (AllAdded(x) <=> AllAdded(x)')
  BY <1>1, <1>3 DEF AllAdded
<1>7. UnknownIsNew'
  <2>1. ASSUME NEW x \in Live', ~ Known(ids, x)
        PROVE  AllAdded(x)'
    <3>1. x \in Entities
      BY DEF Live
    <3>2. CASE x = e
      BY <2>1, <3>2, <1>1 DEF FollowInv, UnknownIsNew
    <3>3. CASE x # e
      BY <2>1, <3>1, <3>3, <1>1, <1>3, <1>6 DEF FollowInv, UnknownIsNew
    <3>4. QED
      BY <3>2, <3>3
  <2>2. QED
    BY <2>1, <1>1 DEF UnknownIsNew, Known
<1>8. Shapes'
  BY <1>1 DEF FollowInv, Shapes, Idle
<1>9. ASSUME NEW copies \in EntityData, Tracks(copies)
      PROVE  Tracks(copies)'
  <2>1. /\ DOMAIN copies \subseteq DOMAIN ids.to_entity \ orphaned
        /\ \A id \in DOMAIN copies : copies[id] \in ComponentValues
    <3>1. copies \in MapsOf(1 .. MaxId, ComponentValues)
      BY DEF EntityData
    <3>2. QED
      BY <3>1, <1>9, MapIs DEF Tracks
  <2>2. ASSUME NEW id \in DOMAIN copies
        PROVE  Lags(ids.to_entity[id], copies[id])'
    <3>0. PICK x : x = ids.to_entity[id]
      OBVIOUS
    <3>1. x \in DOMAIN ids.to_id /\ x \in Entities
      <4>1. Agree(ids) /\ ids.to_entity \in MapsOf(1 .. MaxId, Entities)
        BY DEF FollowInv, IInv, MapsAgree, Typed, IdsTyped
      <4>2. QED
        BY <2>1, <3>0, <4>1, MapIs DEF Agree
    <3>2. Lags(x, copies[id])
      BY <1>9, <3>0 DEF Tracks
    <3>3. CASE x = e
      BY <1>1, <2>1, <3>0, <3>1, <3>2, <3>3 DEF Known
    <3>4. CASE x # e
      <4>1. x \in EntitiesIn(t.removed) <=> x \in EntitiesIn(trackers.removed)
        BY <1>2, <3>4, InTracked
      <4>2. /\ world'[x] = world[x] /\ (x \in Live' <=> x \in Live) /\ repaired' = repaired
            /\ \A c : /\ <<x, c>> \in trackers'.added <=> <<x, c>> \in trackers.added
                      /\ <<x, c>> \in trackers'.changed <=> <<x, c>> \in trackers.changed
                      /\ <<x, c>> \in trackers'.removed <=> <<x, c>> \in trackers.removed
            /\ x \in EntitiesIn(trackers'.removed) <=> x \in EntitiesIn(trackers.removed)
        BY <1>1, <1>3, <3>1, <3>4, <4>1
      <4>3. PICK copy : copy = copies[id]
        OBVIOUS
      <4>4. Lags(x, copy)'
        BY <3>2, <4>2, <4>3 DEF Lags
      <4>5. QED
        BY <1>1, <3>0, <4>3, <4>4
    <3>5. QED
      BY <3>3, <3>4
  <2>3. ASSUME NEW x \in Live', Known(ids, x), ids.to_id[x] \notin DOMAIN copies
        PROVE  ids.to_id[x] \in orphaned \/ AllAdded(x)'
    <3>1. x \in Entities
      BY DEF Live
    <3>2. CASE x = e
      BY <1>9, <2>3, <3>2 DEF Tracks
    <3>3. CASE x # e
      BY <1>3, <1>6, <1>9, <2>3, <3>1, <3>3 DEF Tracks
    <3>4. QED
      BY <3>2, <3>3
  <2>4. QED
    BY <1>1, <2>1, <2>2, <2>3 DEF Tracks, Known
<1>10. \A copies \in EntityData : Reached(copies) => Reached(copies)'
  BY <1>1, <1>9 DEF Reached
<1>11. synced' => Following'
  BY <1>1, <1>10, ServerFollows
<1>12. QED
  BY <1>4, <1>5, <1>7, <1>8, <1>11 DEF FollowInv

(* What a change adds to the trackers and takes out of them.               *)
LEMMA TrackersAfter ==
  ASSUME WorldTyped, NEW e, NEW cs
  PROVE  /\ \A x, d :
              /\ <<x, d>> \in Inserted(e, cs).added
                   <=> <<x, d>> \in trackers.added \/ (x = e /\ d \in cs)
              /\ <<x, d>> \in Inserted(e, cs).changed
                   <=> <<x, d>> \in trackers.changed \/ (x = e /\ d \in cs)
              /\ <<x, d>> \in Removed(e, cs).added
                   <=> <<x, d>> \in trackers.added /\ ~ (x = e /\ d \in cs)
              /\ <<x, d>> \in Removed(e, cs).changed
                   <=> <<x, d>> \in trackers.changed /\ ~ (x = e /\ d \in cs)
              /\ <<x, d>> \in Removed(e, cs).removed
                   <=> <<x, d>> \in trackers.removed \/ (x = e /\ d \in cs)
         /\ Inserted(e, cs).removed = trackers.removed
<1>1. DOMAIN trackers = {"added", "changed", "removed"}
  BY DEF WorldTyped
<1>2. /\ Inserted(e, cs).added = trackers.added \cup Tracked(e, cs)
      /\ Inserted(e, cs).changed = trackers.changed \cup Tracked(e, cs)
      /\ Inserted(e, cs).removed = trackers.removed
  BY <1>1 DEF Inserted
<1>3. \A x, d : <<x, d>> \in Tracked(e, cs) <=> x = e /\ d \in cs
  BY DEF Tracked
<1>4. QED
  BY <1>2, <1>3 DEF Removed

LEMMA ChangeWorldFollows ==
  ASSUME FollowInv, Typed', ChangeWorld
  PROVE  FollowInv'
<1>1. /\ WorldTyped /\ order' = order
      /\ \A e \in unborn : e \in Entities /\ e \notin Live /\ ~ Known(ids, e)
      /\ \A e \in Live : e \in Entities /\ world[e] \in ComponentValues
      /\ DOMAIN <<>> = {}
      /\ \A f \in ComponentValues : f # <<>> => DOMAIN f # {}
      /\ \A f \in ComponentValues : DOMAIN f \subseteq Components
  <2>1. order' = order
    BY DEF ChangeWorld, Spawn, Despawn, AddComponent, RemoveComponent, SetValue, ServerWorld
  <2>2. \A f \in ComponentValues : (f # <<>> => DOMAIN f # {}) /\ DOMAIN f \subseteq Components
    BY EmptyMapIs, MapIs DEF ComponentValues
  <2>3. QED
    BY <2>1, <2>2, EmptyMapIs DEF FollowInv, Typed, WorldTyped, Live, IdsInOrder
<1>2. /\ world \in [Entities -> ComponentValues \cup {Absent}]
      /\ trackers.removed \in SUBSET (Entities \X Components)
      /\ trackers'.removed \in SUBSET (Entities \X Components)
  BY <1>1, SchemaUnchanged DEF FollowInv, Typed, WorldTyped
<1>3. ASSUME NEW e \in Entities, NEW components, NEW t, ServerWorld(e, components, t)
      PROVE  /\ world'[e] = components /\ trackers' = t /\ repaired' = repaired
             /\ e \in Live' <=> components # Absent
  BY <1>2, <1>3 DEF ServerWorld, history, Live
<1>4. ASSUME NEW e \in Entities, NEW cs \in SUBSET Components \ {{}}, Spawn(e, cs)
      PROVE  FollowInv'
  <2>1. /\ ServerWorld(e, Initial(cs), Inserted(e, cs)) /\ unborn' \subseteq unborn
        /\ e \notin Live /\ ~ Known(ids, e)
    BY <1>1, <1>4 DEF Spawn
  <2>2. AllAdded(e)'
    <3>1. DOMAIN Initial(cs) = cs
      BY DEF Initial
    <3>2. QED
      BY <1>1, <1>3, <2>1, <3>1, TrackersAfter DEF AllAdded
  <2>3. \A x, c : x # e =>
          /\ <<x, c>> \in Inserted(e, cs).added <=> <<x, c>> \in trackers.added
          /\ <<x, c>> \in Inserted(e, cs).changed <=> <<x, c>> \in trackers.changed
          /\ <<x, c>> \in Inserted(e, cs).removed <=> <<x, c>> \in trackers.removed
    BY <1>1, TrackersAfter
  <2>4. QED
    BY <2>1, <2>2, <2>3, WorldFollows
<1>5. ASSUME NEW e \in Entities, Despawn(e)
      PROVE  FollowInv'
  <2> DEFINE cs == DOMAIN world[e]
  <2>1. /\ ServerWorld(e, Absent, Removed(e, cs)) /\ unborn' \subseteq unborn
        /\ e \in Live
    BY <1>5 DEF Despawn
  <2>2. e \notin Live' /\ trackers' = Removed(e, cs) /\ repaired' = repaired
    BY <1>3, <2>1
  <2>3. \A x, c :
          /\ x # e =>
               /\ <<x, c>> \in Removed(e, cs).added <=> <<x, c>> \in trackers.added
               /\ <<x, c>> \in Removed(e, cs).changed <=> <<x, c>> \in trackers.changed
          /\ <<x, c>> \in Removed(e, cs).removed
               <=> <<x, c>> \in trackers.removed \/ (x = e /\ c \in cs)
    <3> HIDE DEF cs
    <3>1. \A x, c :
            /\ <<x, c>> \in Removed(e, cs).added
                 <=> <<x, c>> \in trackers.added /\ ~ (x = e /\ c \in cs)
            /\ <<x, c>> \in Removed(e, cs).changed
                 <=> <<x, c>> \in trackers.changed /\ ~ (x = e /\ c \in cs)
            /\ <<x, c>> \in Removed(e, cs).removed
                 <=> <<x, c>> \in trackers.removed \/ (x = e /\ c \in cs)
      BY <1>1, TrackersAfter
    <3>2. QED
      BY <3>1
  <2> HIDE DEF cs
  <2>4. ASSUME NEW copy \in ComponentValues, Lags(e, copy)
        PROVE  Lags(e, copy)'
    <3>1. e \in EntitiesIn(trackers.removed) \/ world[e] # <<>>
      BY <2>4 DEF Lags
    <3>2. \E c \in Components : <<e, c>> \in trackers'.removed
      <4>1. CASE world[e] # <<>>
        BY <1>1, <2>1, <2>2, <2>3, <4>1 DEF cs
      <4>2. CASE e \in EntitiesIn(trackers.removed)
        BY <1>2, <2>2, <2>3, <4>2, InTracked
      <4>3. QED
        BY <3>1, <4>1, <4>2
    <3>3. e \in EntitiesIn(trackers'.removed)
      BY <1>2, <3>2, InTracked
    <3>4. \A c \in DOMAIN copy : ~ repaired => <<e, c>> \in trackers'.removed
      BY <2>2, <2>3, <2>4 DEF Lags, cs
    <3>5. QED
      BY <2>2, <2>4, <3>3, <3>4 DEF Lags
  <2>5. QED
    BY <2>1, <2>2, <2>3, <2>4, WorldFollows
<1>6. ASSUME NEW e \in Entities, NEW c \in Components, AddComponent(e, c)
      PROVE  FollowInv'
  <2> DEFINE w == Over(Initial({c}), world[e])
             t == Inserted(e, {c})
  <2>1. /\ ServerWorld(e, w, t) /\ unborn' \subseteq unborn
        /\ e \in Live /\ c \notin DOMAIN world[e]
    BY <1>6 DEF AddComponent
  <2>2. /\ DOMAIN w = DOMAIN world[e] \cup {c}
        /\ \A d \in DOMAIN world[e] : w[d] = world[e][d]
    BY <2>1 DEF Over, Initial
  <2>3. \A x, d : /\ <<x, d>> \in t.added <=> <<x, d>> \in trackers.added \/ (x = e /\ d = c)
                  /\ <<x, d>> \in t.changed <=> <<x, d>> \in trackers.changed \/ (x = e /\ d = c)
                  /\ <<x, d>> \in t.removed <=> <<x, d>> \in trackers.removed
    <3> DEFINE cs == {c}
    <3> HIDE DEF cs
    <3>1. /\ \A x, d : /\ <<x, d>> \in Inserted(e, cs).added
                            <=> <<x, d>> \in trackers.added \/ (x = e /\ d \in cs)
                       /\ <<x, d>> \in Inserted(e, cs).changed
                            <=> <<x, d>> \in trackers.changed \/ (x = e /\ d \in cs)
          /\ Inserted(e, cs).removed = trackers.removed
      BY <1>1, TrackersAfter
    <3>2. \A d : d \in cs <=> d = c
      BY DEF cs
    <3>3. t = Inserted(e, cs)
      BY DEF cs
    <3> HIDE DEF t
    <3>4. QED
      BY <3>1, <3>2, <3>3
  <2>4. w # Absent
    <3>1. (CHOOSE v \in Values : TRUE) \in Values
      BY ReplicationAssumption
    <3>2. Initial({c}) \in MapsOf(Components, Values) /\ world[e] \in MapsOf(Components, Values)
      BY <1>1, <2>1, <3>1, MapIs DEF Initial, ComponentValues
    <3>3. w \in MapsOf(Components, Values)
      BY <3>2, MapOperations
    <3>4. QED
      BY <3>3, Assumed DEF FollowInv, Typed, ComponentValues
  <2> HIDE DEF w, t
  <2>5. /\ world'[e] = w /\ trackers' = t /\ repaired' = repaired /\ e \in Live'
        /\ EntitiesIn(t.removed) = EntitiesIn(trackers.removed)
    <3>1. t.removed = trackers.removed
      BY <1>1, TrackersAfter DEF t
    <3>2. QED
      BY <1>3, <2>1, <2>4, <3>1
  <2>6. AllAdded(e) => AllAdded(e)'
    BY <2>2, <2>3, <2>5 DEF AllAdded
  <2>7. ASSUME NEW copy \in ComponentValues, Lags(e, copy)
        PROVE  Lags(e, copy)'
    <3>1. w # <<>>
      BY <1>1, <2>2
    <3>2. ASSUME NEW d \in DOMAIN w
          PROVE  \/ <<e, d>> \in t.added
                 \/ d \in DOMAIN copy /\ (<<e, d>> \in t.changed \/ copy[d] = w[d])
      BY <2>1, <2>2, <2>3, <2>7 DEF Lags
    <3>3. ASSUME ~ repaired, NEW d \in DOMAIN copy
          PROVE  <<e, d>> \in t.removed \/ (d \in DOMAIN w /\ <<e, d>> \notin t.added)
      BY <2>1, <2>2, <2>3, <2>7, <3>3 DEF Lags
    <3>4. QED
      BY <2>5, <2>7, <3>1, <3>2, <3>3 DEF Lags
  <2>8. QED
    BY <2>1, <2>3, <2>5, <2>6, <2>7, WorldFollows
<1>7. ASSUME NEW e \in Entities, NEW c \in Components, RemoveComponent(e, c)
      PROVE  FollowInv'
  <2> DEFINE w == Without(world[e], c)
             t == Removed(e, {c})
  <2>1. /\ ServerWorld(e, w, t) /\ unborn' \subseteq unborn
        /\ e \in Live /\ c \in DOMAIN world[e]
    BY <1>7 DEF RemoveComponent
  <2>2. /\ DOMAIN w = DOMAIN world[e] \ {c}
        /\ \A d \in DOMAIN w : w[d] = world[e][d]
    BY DEF Without
  <2>3. \A x, d : /\ <<x, d>> \in t.added <=> <<x, d>> \in trackers.added /\ ~ (x = e /\ d = c)
                  /\ <<x, d>> \in t.changed <=> <<x, d>> \in trackers.changed /\ ~ (x = e /\ d = c)
                  /\ <<x, d>> \in t.removed <=> <<x, d>> \in trackers.removed \/ (x = e /\ d = c)
    <3> DEFINE cs == {c}
    <3> HIDE DEF cs
    <3>1. \A x, d :
            /\ <<x, d>> \in Removed(e, cs).added
                 <=> <<x, d>> \in trackers.added /\ ~ (x = e /\ d \in cs)
            /\ <<x, d>> \in Removed(e, cs).changed
                 <=> <<x, d>> \in trackers.changed /\ ~ (x = e /\ d \in cs)
            /\ <<x, d>> \in Removed(e, cs).removed
                 <=> <<x, d>> \in trackers.removed \/ (x = e /\ d \in cs)
      BY <1>1, TrackersAfter
    <3>2. \A d : d \in cs <=> d = c
      BY DEF cs
    <3>3. t = Removed(e, cs)
      BY DEF cs
    <3> HIDE DEF t
    <3>4. QED
      BY <3>1, <3>2, <3>3
  <2>4. w # Absent
    BY <1>1, <2>1, MapOperations, Assumed DEF FollowInv, Typed, ComponentValues
  <2> HIDE DEF w, t
  <2>5. /\ world'[e] = w /\ trackers' = t /\ repaired' = repaired /\ e \in Live'
        /\ e \in EntitiesIn(trackers'.removed)
    <3>1. world'[e] = w /\ trackers' = t /\ repaired' = repaired /\ e \in Live'
      BY <1>3, <2>1, <2>4
    <3>2. <<e, c>> \in trackers'.removed
      BY <2>3, <3>1
    <3>3. QED
      BY <1>2, <3>1, <3>2, InTracked
  <2>6. AllAdded(e) => AllAdded(e)'
    BY <2>2, <2>3, <2>5 DEF AllAdded
  <2>7. ASSUME NEW copy \in ComponentValues, Lags(e, copy)
        PROVE  Lags(e, copy)'
    <3>1. ASSUME NEW d \in DOMAIN w
          PROVE  \/ <<e, d>> \in t.added
                 \/ d \in DOMAIN copy /\ (<<e, d>> \in t.changed \/ copy[d] = w[d])
      BY <2>1, <2>2, <2>3, <2>7 DEF Lags
    <3>2. ASSUME ~ repaired, NEW d \in DOMAIN copy
          PROVE  <<e, d>> \in t.removed \/ (d \in DOMAIN w /\ <<e, d>> \notin t.added)
      BY <2>1, <2>2, <2>3, <2>7, <3>2 DEF Lags
    <3>3. QED
      BY <2>5, <2>7, <3>1, <3>2 DEF Lags
  <2>8. QED
    BY <2>1, <2>3, <2>5, <2>6, <2>7, WorldFollows
<1>8. ASSUME NEW e \in Entities, NEW c \in Components, NEW v \in Values, SetValue(e, c, v)
      PROVE  FollowInv'
  <2> DEFINE w == [world[e] EXCEPT ![c] = v]
             t == [trackers EXCEPT !.changed = @ \cup Tracked(e, {c})]
  <2>1. /\ ServerWorld(e, w, t) /\ unborn' \subseteq unborn
        /\ e \in Live /\ c \in DOMAIN world[e]
    BY <1>8 DEF SetValue
  <2>2. /\ DOMAIN w = DOMAIN world[e]
        /\ \A d \in DOMAIN w : d # c => w[d] = world[e][d]
    OBVIOUS
  <2>3. /\ t.added = trackers.added /\ t.removed = trackers.removed
        /\ \A x, d : <<x, d>> \in t.changed <=> <<x, d>> \in trackers.changed \/ (x = e /\ d = c)
    <3>1. DOMAIN trackers = {"added", "changed", "removed"}
      BY <1>1 DEF WorldTyped
    <3>2. t.changed = trackers.changed \cup Tracked(e, {c})
      BY <3>1
    <3>3. QED
      BY <3>1, <3>2 DEF Tracked
  <2>4. w # Absent
    <3>1. w \in ComponentValues
      BY <1>1, <2>1, MapIs DEF ComponentValues
    <3>2. QED
      BY <3>1, Assumed DEF FollowInv, Typed
  <2> HIDE DEF w, t
  <2>5. /\ world'[e] = w /\ trackers' = t /\ repaired' = repaired /\ e \in Live'
        /\ EntitiesIn(t.removed) = EntitiesIn(trackers.removed)
    BY <1>3, <2>1, <2>3, <2>4
  <2>6. AllAdded(e) => AllAdded(e)'
    BY <2>2, <2>3, <2>5 DEF AllAdded
  <2>7. ASSUME NEW copy \in ComponentValues, Lags(e, copy)
        PROVE  Lags(e, copy)'
    <3>1. w # <<>>
      BY <1>1, <2>1, <2>2
    <3>2. ASSUME NEW d \in DOMAIN w
          PROVE  \/ <<e, d>> \in t.added
                 \/ d \in DOMAIN copy /\ (<<e, d>> \in t.changed \/ copy[d] = w[d])
      BY <2>1, <2>2, <2>3, <2>7 DEF Lags
    <3>3. ASSUME ~ repaired, NEW d \in DOMAIN copy
          PROVE  <<e, d>> \in t.removed \/ (d \in DOMAIN w /\ <<e, d>> \notin t.added)
      BY <2>1, <2>2, <2>3, <2>7, <3>3 DEF Lags
    <3>4. QED
      BY <2>5, <2>7, <3>1, <3>2, <3>3 DEF Lags
  <2>8. QED
    BY <2>1, <2>3, <2>5, <2>6, <2>7, WorldFollows
<1>9. QED
  BY <1>4, <1>5, <1>6, <1>7, <1>8 DEF ChangeWorld

-----------------------------------------------------------------------------
(* What the steps of extract_changes start from. *)
LEMMA ExtractFollows ==
  ASSUME FollowInv, Extract
  PROVE  FollowInv'
<1>1. /\ phase = "change" /\ phase' = "extract"
      /\ draft' = [todo |-> Creating \cup Updating,
                   frame |-> [Nothing EXCEPT !.destroys = Destroying]]
      /\ UNCHANGED <<order, world, unborn, trackers, ids, net>>
      /\ UNCHANGED <<applying, failed, replica, spawned, client_ids>>
      /\ UNCHANGED <<synced, repaired, orphaned, strays>>
  BY DEF Extract, clientVars, history
<1>2. Typed'
  BY ServerTyped DEF FollowInv
<1>3. IInv'
  BY <1>1, ServerKeepsIInv DEF ClientPart, FollowInv, IInv, MapsAgree, Agree
<1>4. IdsInOrder'
  BY <1>1 DEF FollowInv, IdsInOrder, IdsAreExact, Known
<1>5. /\ Creating' = Creating /\ Updating' = Updating /\ Live' = Live
      /\ Destroying' = Destroying
  BY <1>1 DEF Creating, Updating, Live, Destroying, EntitiesIn, Known
<1>6. draft'.todo = Creating \cup Updating
      /\ draft'.frame = [upserts |-> <<>>, destroys |-> Destroying,
                         creates |-> <<>>, updates |-> <<>>]
  BY <1>1 DEF Nothing
<1>7. UnknownIsNew'
  BY <1>1, <1>5, <1>6 DEF FollowInv, UnknownIsNew, AllAdded, Known
<1>8. Shapes'
  BY <1>1, <1>6 DEF FollowInv, Shapes, Idle
<1>9. ASSUME synced, NEW copies \in EntityData, Tracks(copies)
      PROVE  Tracks(copies)' /\ Drafted(copies)'
  <2>1. Tracks(copies)'
    BY <1>1, <1>5, <1>9 DEF Tracks, Lags, AllAdded, Known
  <2>2. IdsAreExact /\ Agree(ids)
    BY <1>9 DEF FollowInv, IdsInOrder, IInv, MapsAgree
  <2>3. ASSUME NEW id \in DOMAIN copies
        PROVE  id \in Destroying <=> ids.to_entity[id] \in EntitiesIn(trackers.removed)
    <3>1. id \in DOMAIN ids.to_entity
      BY <1>9 DEF Tracks
    <3>2. /\ ids.to_entity[id] \in DOMAIN ids.to_id
          /\ ids.to_id[ids.to_entity[id]] = id
      BY <2>2, <3>1 DEF Agree
    <3>3. \A x \in DOMAIN ids.to_id : ids.to_id[x] = id => x = ids.to_entity[id]
      BY <2>2 DEF IdsAreExact
    <3>4. QED
      BY <3>2, <3>3 DEF Destroying, Known
  <2>4. DOMAIN <<>> = {}
    BY EmptyMapIs
  <2>5. Drafted(copies)'
    BY <1>1, <1>5, <1>6, <2>3, <2>4 DEF Drafted
  <2>6. QED
    BY <2>1, <2>5
<1>10. ASSUME synced'
       PROVE  Following'
  <2>1. \A copies \in EntityData : Reached(copies) => Reached(copies)'
    BY <1>1, <1>9, <1>10 DEF Reached
  <2>2. QED
    BY <1>1, <1>10, <2>1, ServerFollows
<1>11. QED
  BY <1>2, <1>3, <1>4, <1>7, <1>8, <1>10 DEF FollowInv

(* A change set is complete: every entity with components has its id.      *)
LEMMA DraftedIsKnown ==
  ASSUME FollowInv, phase = "extract", draft.todo = {}
  PROVE  \A e \in Live : ~ Known(ids, e) => world[e] = <<>>
<1> SUFFICES ASSUME NEW e \in Live, ~ Known(ids, e)
             PROVE  world[e] = <<>>
  OBVIOUS
<1>1. world[e] \in MapsOf(Components, Values) /\ e \in Entities
      /\ trackers.added \in SUBSET (Entities \X Components)
  BY DEF FollowInv, Typed, WorldTyped, Live, ComponentValues
<1>2. e \notin Creating /\ AllAdded(e)
  BY DEF FollowInv, UnknownIsNew
<1>3. DOMAIN world[e] \subseteq Components
  BY <1>1, MapIs
<1>4. \A c \in DOMAIN world[e] : e \in EntitiesIn(trackers.added)
  BY <1>1, <1>2, <1>3, InTracked DEF AllAdded
<1>5. DOMAIN world[e] = {}
  BY <1>2, <1>4 DEF Creating
<1>6. QED
  BY <1>1, <1>5, EmptyMapIs

LEMMA EncodeFailsFollows ==
  ASSUME FollowInv, EncodeFails
  PROVE  FollowInv'
<1>1. /\ phase = "extract" /\ phase' = "sent" /\ draft.todo = {} /\ draft' = NoDraft
      /\ UNCHANGED <<order, world, unborn, trackers, ids, net>>
      /\ UNCHANGED <<applying, failed, replica, spawned, client_ids>>
      /\ synced' = FALSE /\ UNCHANGED repaired
  BY DEF EncodeFails, clientVars, OutOfStep
<1>2. Typed'
  BY ServerTyped DEF FollowInv
<1>3. IInv'
  BY <1>1, ServerKeepsIInv DEF ClientPart, FollowInv, IInv, MapsAgree, Agree
<1>4. IdsInOrder'
  BY <1>1 DEF FollowInv, IdsInOrder, IdsAreExact, Known
<1>5. UnknownIsNew'
  BY <1>1, DraftedIsKnown DEF UnknownIsNew, Live, Known
<1>6. Shapes'
  BY <1>1 DEF FollowInv, Shapes, Idle, NoDraft, Nothing
<1>7. QED
  BY <1>1, <1>2, <1>3, <1>4, <1>5, <1>6 DEF FollowInv

(* The trackers are cleared: nothing is left to track.                     *)
LEMMA EndFrameFollows ==
  ASSUME FollowInv, EndFrame
  PROVE  FollowInv'
<1>1. /\ phase = "sent" /\ phase' = "change" /\ Idle /\ trackers' = NoTrackers
      /\ UNCHANGED <<order, world, unborn, draft, ids, net>>
      /\ UNCHANGED <<applying, failed, replica, spawned, client_ids>>
      /\ UNCHANGED <<synced, repaired, orphaned, strays>>
  BY DEF EndFrame, clientVars, history
<1>2. Typed'
  BY ServerTyped DEF FollowInv
<1>3. IInv'
  BY <1>1, ServerKeepsIInv DEF ClientPart, FollowInv, IInv, MapsAgree, Agree
<1>4. IdsInOrder'
  BY <1>1 DEF FollowInv, IdsInOrder, IdsAreExact, Known
<1>5. DOMAIN <<>> = {}
  BY EmptyMapIs
<1>6. UnknownIsNew'
  BY <1>1, <1>5 DEF FollowInv, UnknownIsNew, Live, Known, AllAdded
<1>7. Shapes'
  BY <1>1 DEF FollowInv, Shapes, Idle
<1>8. ASSUME synced, NEW copies \in EntityData, InStep(copies)
      PROVE  Tracks(copies)'
  <2>1. IdsAreExact
    BY <1>8 DEF FollowInv, IdsInOrder
  <2>2. ASSUME NEW id \in DOMAIN copies
        PROVE  /\ id \in DOMAIN ids.to_entity /\ id \notin orphaned
               /\ ids.to_entity[id] \in Live /\ world[ids.to_entity[id]] # <<>>
    <3>1. PICK e \in Live : Known(ids, e) /\ world[e] # <<>> /\ id = ids.to_id[e]
      BY <1>8 DEF InStep, LiveIds
    <3>2. id \in DOMAIN ids.to_entity /\ ids.to_entity[id] = e
      BY <2>1, <3>1 DEF IdsAreExact, Known
    <3>3. QED
      BY <1>8, <3>1, <3>2 DEF InStep
  <2>3. ASSUME NEW id \in DOMAIN copies
        PROVE  Lags(ids.to_entity[id], copies[id])'
    <3>1. PICK e, copy : e = ids.to_entity[id] /\ copy = copies[id]
      OBVIOUS
    <3>2. e \in Live /\ world[e] # <<>>
      BY <2>2, <3>1
    <3>3. e \in Live' /\ world'[e] = world[e] /\ repaired' = repaired
      BY <1>1, <3>2 DEF Live
    <3>4. IF repaired
          THEN \A c \in DOMAIN world[e] : c \in DOMAIN copy /\ copy[c] = world[e][c]
          ELSE copy = world[e]
      BY <1>8, <3>1 DEF InStep
    <3>5. Lags(e, copy)'
      BY <1>1, <3>2, <3>3, <3>4 DEF Lags, NoTrackers
    <3>6. QED
      BY <1>1, <3>1, <3>5
  <2>4. ASSUME NEW e \in Live, Known(ids, e), ids.to_id[e] \notin DOMAIN copies
        PROVE  ids.to_id[e] \in orphaned \/ AllAdded(e)'
    <3>1. CASE world[e] = <<>>
      BY <1>1, <1>5, <3>1 DEF AllAdded
    <3>2. CASE world[e] # <<>>
      BY <1>8, <2>4, <3>2 DEF InStep, LiveIds
    <3>3. QED
      BY <3>1, <3>2
  <2>5. Live' = Live
    BY <1>1 DEF Live
  <2>6. QED
    BY <1>1, <2>2, <2>3, <2>4, <2>5 DEF Tracks, Known
<1>9. ASSUME synced'
      PROVE  Following'
  <2>1. \A copies \in EntityData : Reached(copies) => Reached(copies)'
    BY <1>1, <1>8, <1>9 DEF Reached
  <2>2. QED
    BY <1>1, <1>9, <2>1, ServerFollows
<1>10. QED
  BY <1>2, <1>3, <1>4, <1>6, <1>7, <1>9 DEF FollowInv

(* entity_id: the ids stay in order, and the ones given out stay.          *)
LEMMA CollectIds ==
  ASSUME FollowInv, NEW e \in draft.todo, Collect(e)
  PROVE  /\ IdsInOrder' /\ Known(ids, e)'
         /\ \A x \in DOMAIN ids.to_id :
              x \in DOMAIN ids'.to_id /\ ids'.to_id[x] = ids.to_id[x]
         /\ \A x \in DOMAIN ids'.to_id : x \in DOMAIN ids.to_id \/ x = e
         /\ synced' => \A i \in DOMAIN ids.to_entity :
              i \in DOMAIN ids'.to_entity /\ ids'.to_entity[i] = ids.to_entity[i]
<1>1. /\ ids' = EntityId(ids, e) /\ UNCHANGED unborn
      /\ phase = "extract" /\ e \in Creating \cup Updating
      /\ IF Known(ids, e) \/ ids.next_id < MaxId THEN UNCHANGED synced ELSE synced' = FALSE
  BY DEF Collect, OutOfStep, history, FollowInv, Typed, DraftTyped
<1>2. e \in Entities /\ e \notin unborn
  <2>1. trackers.added \in SUBSET (Entities \X Components)
        /\ trackers.changed \in SUBSET (Entities \X Components)
    BY DEF FollowInv, Typed, WorldTyped
  <2>2. \E c \in Components : <<e, c>> \in trackers.added \cup trackers.changed
    BY <1>1, <2>1, InTracked DEF Creating, Updating
  <2>3. e \in Entities
    BY <2>1, <2>2
  <2>4. QED
    BY <2>2, <2>3 DEF FollowInv, Typed, TrackedIsLive, WorldTyped, Live
<1>3. CASE Known(ids, e)
  <2>1. ids' = ids /\ synced' = synced
    BY <1>1, <1>3 DEF EntityId
  <2>2. QED
    BY <1>1, <1>3, <2>1 DEF FollowInv, IdsInOrder, IdsAreExact, Known
<1>4. CASE ~ Known(ids, e)
  <2> DEFINE next == AtMost(ids.next_id + 1, MaxId)
  <2>1. /\ ids'.next_id = next /\ ids'.to_id = With(ids.to_id, e, next)
        /\ ids'.to_entity = With(ids.to_entity, next, e)
    BY <1>1, <1>4 DEF EntityId
  <2> HIDE DEF next
  <2>2. /\ DOMAIN ids'.to_id = DOMAIN ids.to_id \cup {e}
        /\ \A x \in DOMAIN ids'.to_id :
             ids'.to_id[x] = IF x = e THEN next ELSE ids.to_id[x]
        /\ DOMAIN ids'.to_entity = DOMAIN ids.to_entity \cup {next}
        /\ \A i \in DOMAIN ids'.to_entity :
             ids'.to_entity[i] = IF i = next THEN e ELSE ids.to_entity[i]
    BY <2>1 DEF With
  <2>3. IsFiniteSet(DOMAIN ids.to_id)
    <3>1. ids.to_id \in MapsOf(Entities, 1 .. MaxId)
      BY DEF FollowInv, Typed, IdsTyped
    <3>2. DOMAIN ids.to_id \subseteq Entities
      BY <3>1, MapIs
    <3>3. QED
      BY <3>2, ReplicationAssumption, FS_Subset
  <2>4. PICK n : n = Cardinality(DOMAIN ids.to_id)
    OBVIOUS
  <2>5. n \in Nat /\ Cardinality(DOMAIN ids'.to_id) = n + 1
    BY <1>4, <2>2, <2>3, <2>4, FS_AddElement, FS_CardinalityType DEF Known
  <2>6. /\ MaxId \in Nat \ {0} /\ ids.next_id = AtMost(n, MaxId)
        /\ ids.next_id \in 0 .. MaxId
        /\ n <= MaxId => IdsAreExact
        /\ DOMAIN ids.to_entity \subseteq 1 .. ids.next_id
    BY <2>4, MaxIdAssumption DEF FollowInv, IdsInOrder, Typed, IdsTyped, NextIdIsLast
  <2>7. ids'.next_id = AtMost(n + 1, MaxId)
    BY <2>1, <2>5, <2>6 DEF AtMost, next
  <2>8. n + 1 <= MaxId => next \notin DOMAIN ids.to_entity
    BY <2>5, <2>6 DEF AtMost, next
  <2>9. n + 1 <= MaxId => IdsAreExact'
    <3> SUFFICES ASSUME n + 1 <= MaxId, NEW x \in DOMAIN ids'.to_id
                 PROVE  /\ ids'.to_id[x] \in DOMAIN ids'.to_entity
                        /\ ids'.to_entity[ids'.to_id[x]] = x
      BY DEF IdsAreExact
    <3>1. CASE x = e
      BY <2>2, <3>1
    <3>2. CASE x # e
      <4>1. IdsAreExact
        BY <2>5, <2>6
      <4>2. /\ x \in DOMAIN ids.to_id /\ ids.to_id[x] \in DOMAIN ids.to_entity
            /\ ids.to_entity[ids.to_id[x]] = x
        BY <2>2, <3>2, <4>1 DEF IdsAreExact
      <4>3. QED
        BY <2>2, <2>8, <3>2, <4>2
    <3>3. QED
      BY <3>1, <3>2
  <2>10. synced' => n + 1 <= MaxId
    <3>1. ids.next_id < MaxId => n + 1 <= MaxId
      BY <2>5, <2>6 DEF AtMost
    <3>2. QED
      BY <1>1, <1>4, <3>1
  <2>11. \A x \in unborn' : ~ Known(ids', x)
    BY <1>1, <1>2, <2>2 DEF FollowInv, IdsInOrder, Known
  <2>12. IdsInOrder'
    BY <2>5, <2>7, <2>9, <2>10, <2>11 DEF IdsInOrder, Known
  <2>13. QED
    BY <1>4, <2>2, <2>8, <2>10, <2>12 DEF Known
<1>5. QED
  BY <1>3, <1>4

LEMMA CollectFollows ==
  ASSUME FollowInv, NEW e \in draft.todo, Collect(e)
  PROVE  FollowInv'
<1>1. /\ phase = "extract" /\ phase' = "extract"
      /\ e \in Creating \cup Updating
      /\ UNCHANGED <<order, world, unborn, trackers, net>>
      /\ UNCHANGED <<applying, failed, replica, spawned, client_ids>>
      /\ synced' => synced /\ UNCHANGED <<repaired, orphaned, strays>>
  BY DEF Collect, clientVars, OutOfStep, history, FollowInv, Typed, DraftTyped
<1>2. Typed'
  BY CollectTyped DEF FollowInv
<1>3. IInv'
  <2>1. Agree(ids') /\ UNCHANGED ClientPart
    BY <1>1, EntityIdAgrees DEF Collect, FollowInv, IInv, MapsAgree, ClientPart
  <2>2. QED
    BY <2>1, ServerKeepsIInv DEF FollowInv
<1>4. PICK id : id = ids'.to_id[e]
  OBVIOUS
<1>5. /\ draft'.todo = draft.todo \ {e}
      /\ draft'.frame.upserts = draft.frame.upserts
      /\ draft'.frame.destroys = draft.frame.destroys
      /\ draft'.frame.creates = IF e \in Creating THEN Put(draft.frame.creates, id, world[e])
                                ELSE draft.frame.creates
      /\ draft'.frame.updates =
           IF e \in Creating THEN draft.frame.updates
           ELSE Put(draft.frame.updates, id, [c \in ChangedOf(e) |-> world[e][c]])
  <2>1. draft.frame \in [upserts : EntityData, destroys : SUBSET (1 .. MaxId),
                         creates : EntityData \cup {Absent}, updates : EntityData \cup {Absent}]
    BY DEF FollowInv, Typed, DraftTyped
  <2>2. draft' = [todo |-> draft.todo \ {e},
                  frame |->
                    IF e \in Creating
                    THEN [draft.frame EXCEPT !.creates = Put(@, id, world[e])]
                    ELSE [draft.frame EXCEPT !.updates =
                            Put(@, id, [c \in ChangedOf(e) |-> world[e][c]])]]
    BY <1>4 DEF Collect
  <2>3. CASE e \in Creating
    BY <2>1, <2>2, <2>3
  <2>4. CASE e \notin Creating
    BY <2>1, <2>2, <2>4
  <2>5. QED
    BY <2>3, <2>4
<1>6. /\ Creating' = Creating /\ Updating' = Updating /\ Live' = Live
      /\ \A x : ChangedOf(x)' = ChangedOf(x)
  BY <1>1 DEF Creating, Updating, Live, EntitiesIn, ChangedOf, Components
<1>7. UnknownIsNew'
  <2>1. ASSUME NEW x \in Live, ~ Known(ids', x)
        PROVE  AllAdded(x)'
    <3>1. ~ Known(ids, x)
      BY <2>1, CollectIds DEF Known
    <3>2. QED
      BY <1>1, <3>1 DEF FollowInv, UnknownIsNew, AllAdded
  <2>2. ASSUME NEW x \in Creating \cup Updating
        PROVE  x \in draft'.todo \/ Known(ids', x)
    BY <1>1, <1>5, CollectIds DEF FollowInv, UnknownIsNew, Known
  <2>3. QED
    BY <1>1, <1>6, <2>1, <2>2 DEF UnknownIsNew
<1>8. Shapes'
  BY <1>1, <1>5 DEF FollowInv, Shapes, Idle
<1>9. ASSUME synced', NEW copies \in EntityData, Tracks(copies), Drafted(copies)
      PROVE  Tracks(copies)' /\ Drafted(copies)'
  <2>1. /\ \A i \in DOMAIN ids.to_entity :
             i \in DOMAIN ids'.to_entity /\ ids'.to_entity[i] = ids.to_entity[i]
        /\ DOMAIN copies \subseteq DOMAIN ids.to_entity
    BY <1>9, CollectIds DEF Tracks
  <2>2. Tracks(copies)'
    <3>1. ASSUME NEW i \in DOMAIN copies
          PROVE  Lags(ids.to_entity[i], copies[i])'
      <4>1. PICK x, copy : x = ids.to_entity[i] /\ copy = copies[i]
        OBVIOUS
      <4>2. Lags(x, copy)'
        BY <1>1, <1>6, <1>9, <4>1 DEF Tracks, Lags
      <4>3. ids'.to_entity[i] = x
        BY <2>1, <4>1
      <4>4. QED
        BY <4>1, <4>2, <4>3
    <3>2. ASSUME NEW x \in Live, Known(ids', x), ids'.to_id[x] \notin DOMAIN copies
          PROVE  ids'.to_id[x] \in orphaned \/ AllAdded(x)'
      <4>1. CASE Known(ids, x)
        <5>1. ids'.to_id[x] = ids.to_id[x]
          BY <4>1, CollectIds DEF Known
        <5>2. QED
          BY <1>1, <1>9, <3>2, <4>1, <5>1 DEF Tracks, AllAdded
      <4>2. CASE ~ Known(ids, x)
        BY <1>1, <4>2 DEF FollowInv, UnknownIsNew, AllAdded
      <4>3. QED
        BY <4>1, <4>2
    <3>3. /\ DOMAIN copies \subseteq DOMAIN ids'.to_entity \ orphaned'
          /\ \A i \in DOMAIN copies : Lags(ids.to_entity[i], copies[i])'
      BY <1>1, <1>9, <2>1, <3>1 DEF Tracks
    <3>4. QED
      BY <1>1, <1>6, <1>9, <3>2, <3>3 DEF Tracks, Known
  <2>3. id \in DOMAIN ids'.to_entity /\ ids'.to_entity[id] = e
    BY <1>4, <1>9, CollectIds DEF IdsInOrder, IdsAreExact, Known
  <2>4. ASSUME NEW x \in (Creating \cup Updating) \ draft.todo
        PROVE  ids'.to_id[x] = ids.to_id[x]
    BY <1>1, <2>4, CollectIds DEF FollowInv, UnknownIsNew, Known
  <2>5. ASSUME draft'.frame.creates # Absent
        PROVE  /\ \A i \in DOMAIN draft'.frame.creates :
                    /\ i \in DOMAIN ids'.to_entity
                    /\ ids'.to_entity[i] \in Creating
                    /\ draft'.frame.creates[i] = world[ids'.to_entity[i]]
               /\ \A x \in Creating \ draft'.todo :
                    ids'.to_id[x] \in DOMAIN draft'.frame.creates
    <3>1. CASE e \notin Creating
      BY <1>5, <1>9, <2>1, <2>4, <2>5, <3>1 DEF Drafted
    <3>2. CASE e \in Creating
      <4>1. /\ draft.frame.creates # Absent
            /\ draft'.frame.creates = With(draft.frame.creates, id, world[e])
        BY <1>5, <2>5, <3>2 DEF Put
      <4>2. /\ DOMAIN draft'.frame.creates = DOMAIN draft.frame.creates \cup {id}
            /\ \A i \in DOMAIN draft'.frame.creates : draft'.frame.creates[i] =
                 IF i = id THEN world[e] ELSE draft.frame.creates[i]
        BY <4>1 DEF With
      <4>3. QED
        BY <1>4, <1>5, <1>9, <2>1, <2>3, <2>4, <3>2, <4>1, <4>2 DEF Drafted
    <3>3. QED
      BY <3>1, <3>2
  <2>6. ASSUME draft'.frame.updates # Absent
        PROVE  /\ \A i \in DOMAIN draft'.frame.updates :
                    /\ i \in DOMAIN ids'.to_entity
                    /\ ids'.to_entity[i] \in Updating
                    /\ draft'.frame.updates[i] = [c \in ChangedOf(ids'.to_entity[i]) |->
                                                    world[ids'.to_entity[i]][c]]
               /\ \A x \in Updating \ draft'.todo :
                    ids'.to_id[x] \in DOMAIN draft'.frame.updates
    <3> DEFINE update(x) == [c \in ChangedOf(x) |-> world[x][c]]
    <3>1. CASE e \in Creating
      <4>1. draft'.frame.updates = draft.frame.updates /\ e \notin Updating
        BY <1>5, <3>1 DEF Updating
      <4>2. /\ \A i \in DOMAIN draft.frame.updates :
                 /\ i \in DOMAIN ids.to_entity
                 /\ ids.to_entity[i] \in Updating
                 /\ draft.frame.updates[i] = update(ids.to_entity[i])
            /\ \A x \in Updating \ draft.todo : ids.to_id[x] \in DOMAIN draft.frame.updates
        BY <1>9, <2>6, <4>1 DEF Drafted
      <4> HIDE DEF update
      <4>3. /\ \A i \in DOMAIN draft'.frame.updates :
                 /\ i \in DOMAIN ids'.to_entity
                 /\ ids'.to_entity[i] \in Updating
                 /\ draft'.frame.updates[i] = update(ids'.to_entity[i])
            /\ \A x \in Updating \ draft'.todo :
                 ids'.to_id[x] \in DOMAIN draft'.frame.updates
        BY <1>5, <2>1, <2>4, <4>1, <4>2
      <4>4. QED
        BY <4>3 DEF update
    <3>2. CASE e \notin Creating
      <4>1. /\ draft.frame.updates # Absent
            /\ draft'.frame.updates = With(draft.frame.updates, id, update(e))
        BY <1>5, <2>6, <3>2 DEF Put
      <4>2. /\ \A i \in DOMAIN draft.frame.updates :
                 /\ i \in DOMAIN ids.to_entity
                 /\ ids.to_entity[i] \in Updating
                 /\ draft.frame.updates[i] = update(ids.to_entity[i])
            /\ \A x \in Updating \ draft.todo : ids.to_id[x] \in DOMAIN draft.frame.updates
        BY <1>9, <4>1 DEF Drafted
      <4> HIDE DEF update
      <4>3. /\ DOMAIN draft'.frame.updates = DOMAIN draft.frame.updates \cup {id}
            /\ \A i \in DOMAIN draft'.frame.updates : draft'.frame.updates[i] =
                 IF i = id THEN update(e) ELSE draft.frame.updates[i]
        BY <4>1 DEF With
      <4>4. /\ \A i \in DOMAIN draft'.frame.updates :
                 /\ i \in DOMAIN ids'.to_entity
                 /\ ids'.to_entity[i] \in Updating
                 /\ draft'.frame.updates[i] = update(ids'.to_entity[i])
            /\ \A x \in Updating \ draft'.todo :
                 ids'.to_id[x] \in DOMAIN draft'.frame.updates
        BY <1>1, <1>4, <1>5, <2>1, <2>3, <2>4, <3>2, <4>2, <4>3
      <4>5. QED
        BY <4>4 DEF update
    <3>3. QED
      BY <3>1, <3>2
  <2>7. Drafted(copies)'
    <3>1. \A i \in DOMAIN copies :
            i \in draft'.frame.destroys
              <=> ids'.to_entity[i] \in EntitiesIn(trackers.removed)
      BY <1>5, <1>9, <2>1 DEF Drafted
    <3>2. EntitiesIn(trackers'.removed) = EntitiesIn(trackers.removed)
      BY <1>1
    <3>3. QED
      BY <1>1, <1>6, <2>5, <2>6, <3>1, <3>2 DEF Drafted
  <2>8. QED
    BY <2>2, <2>7
<1>10. ASSUME synced'
       PROVE  Following'
  <2>1. \A copies \in EntityData : Reached(copies) => Reached(copies)'
    BY <1>1, <1>9, <1>10 DEF Reached
  <2>2. QED
    BY <1>1, <1>10, <2>1, ServerFollows
<1>11. QED
  BY <1>2, <1>3, <1>7, <1>8, <1>10, CollectIds DEF FollowInv

(* The change set of a tick, applied to the copies before it, gives the    *)
(* copies ClientFollows speaks of; and its updates fit.                    *)
LEMMA DraftGives ==
  ASSUME FollowInv, synced, phase = "extract", draft.todo = {}, Encodes(draft.frame),
         NEW copies \in EntityData, Tracks(copies), Drafted(copies),
         NEW frame, frame = draft.frame
  PROVE  LET orphans == (orphaned \cup (frame.destroys \cap LiveIds)) \ DOMAIN frame.creates
             new == Applied(copies, frame) IN
         /\ frame \in Frame
         /\ DOMAIN new = LiveIds \ orphans
         /\ \A id \in DOMAIN new :
              LET now == world[ids.to_entity[id]] IN
              IF repaired THEN \A c \in DOMAIN now : c \in DOMAIN new[id] /\ new[id][c] = now[c]
              ELSE new[id] = now
         /\ Fits(new, frame)
         /\ ~ repaired => CreatedAgain(frame) = Again(copies, frame)
<1> DEFINE orphans == (orphaned \cup (frame.destroys \cap LiveIds)) \ DOMAIN frame.creates
<1>1. /\ frame \in Frame /\ order \in Registered
      /\ frame.upserts = <<>> /\ DOMAIN frame.upserts = {}
      /\ frame.creates # Absent /\ frame.updates # Absent
  <2>1. draft.frame \in [upserts : EntityData, destroys : SUBSET (1 .. MaxId),
                         creates : EntityData \cup {Absent}, updates : EntityData \cup {Absent}]
    BY DEF FollowInv, Typed, DraftTyped
  <2>2. frame.creates # Absent /\ frame.updates # Absent /\ order \in Registered
    BY DEF Encodes, FollowInv, Typed
  <2>3. Frame = [upserts : EntityData, destroys : SUBSET (1 .. MaxId),
                 creates : EntityData, updates : EntityData]
    BY <2>2, Assumed
  <2>4. frame \in Frame
    BY <2>1, <2>2, <2>3
  <2>5. frame.upserts = <<>> /\ DOMAIN <<>> = {}
    BY EmptyMapIs DEF FollowInv, Shapes
  <2>6. QED
    BY <2>2, <2>4, <2>5
<1>2. /\ IdsAreExact /\ Agree(ids)
      /\ trackers.added \in SUBSET (Entities \X Components)
      /\ trackers.changed \in SUBSET (Entities \X Components)
      /\ trackers.removed \in SUBSET (Entities \X Components)
      /\ TrackedIsLive
      /\ \A x \in Live : world[x] \in ComponentValues
  BY DEF FollowInv, IdsInOrder, IInv, MapsAgree, Typed, WorldTyped, Live
<1>3. ASSUME NEW x \in Creating
      PROVE  /\ x \in Live /\ world[x] # <<>> /\ Known(ids, x)
             /\ ids.to_id[x] \in DOMAIN frame.creates /\ ids.to_entity[ids.to_id[x]] = x
  <2>1. PICK c \in Components : <<x, c>> \in trackers.added
    BY <1>2, InTracked DEF Creating
  <2>2. x \in Live /\ c \in DOMAIN world[x]
    BY <1>2, <2>1 DEF TrackedIsLive
  <2>3. Known(ids, x)
    BY DEF FollowInv, UnknownIsNew
  <2>4. DOMAIN <<>> = {}
    BY EmptyMapIs
  <2>5. ids.to_id[x] \in DOMAIN frame.creates
    BY <1>1 DEF Drafted
  <2>6. QED
    BY <1>2, <2>2, <2>3, <2>4, <2>5 DEF IdsAreExact, Known
<1>4. ASSUME NEW x \in Updating
      PROVE  ids.to_id[x] \in DOMAIN frame.updates
  BY <1>1 DEF Drafted
<1>5. ASSUME NEW id \in DOMAIN frame.creates
      PROVE  /\ id \in LiveIds /\ id \notin DOMAIN frame.updates
             /\ ids.to_entity[id] \in Creating /\ frame.creates[id] = world[ids.to_entity[id]]
  <2>1. /\ id \in DOMAIN ids.to_entity /\ ids.to_entity[id] \in Creating
        /\ frame.creates[id] = world[ids.to_entity[id]]
    BY <1>1 DEF Drafted
  <2>2. ids.to_id[ids.to_entity[id]] = id
    BY <1>2, <2>1 DEF Agree
  <2>3. id \in LiveIds
    BY <1>3, <2>1, <2>2 DEF LiveIds
  <2>4. id \in DOMAIN frame.updates => ids.to_entity[id] \in Updating
    BY <1>1 DEF Drafted
  <2>5. QED
    BY <2>1, <2>3, <2>4 DEF Updating
<1>6. AppliedIds(copies, frame) = (DOMAIN copies \ frame.destroys) \cup DOMAIN frame.creates
  BY <1>1 DEF AppliedIds
<1>7. ASSUME NEW id \in DOMAIN copies, id \notin frame.destroys, id \notin DOMAIN frame.creates,
             NEW x, x = ids.to_entity[id]
      PROVE  /\ x \in Live /\ world[x] # <<>> /\ ids.to_id[x] = id /\ Known(ids, x)
             /\ x \notin Creating /\ id \notin orphaned
             /\ \A c \in Components : <<x, c>> \notin trackers.added /\ <<x, c>> \notin trackers.removed
             /\ Lags(x, copies[id])
  <2>1. id \in DOMAIN ids.to_entity /\ id \notin orphaned /\ Lags(x, copies[id])
    BY <1>7 DEF Tracks
  <2>2. Known(ids, x) /\ ids.to_id[x] = id
    BY <1>2, <1>7, <2>1 DEF Agree, Known
  <2>3. x \notin EntitiesIn(trackers.removed)
    BY <1>7 DEF Drafted
  <2>4. x \notin Creating
    BY <1>3, <1>7, <2>2
  <2>5. \A c \in Components : <<x, c>> \notin trackers.added /\ <<x, c>> \notin trackers.removed
    BY <1>2, <2>3, <2>4, InTracked DEF Creating
  <2>6. x \in Live /\ world[x] # <<>>
    BY <2>1, <2>3 DEF Lags
  <2>7. QED
    BY <2>1, <2>2, <2>4, <2>5, <2>6
<1>8. AppliedIds(copies, frame) = LiveIds \ orphans
  <2>1. ASSUME NEW id \in AppliedIds(copies, frame)
        PROVE  id \in LiveIds \ orphans
    <3>1. CASE id \in DOMAIN frame.creates
      BY <1>5, <3>1
    <3>2. CASE id \notin DOMAIN frame.creates
      <4>1. id \in DOMAIN copies /\ id \notin frame.destroys
        BY <1>6, <3>2
      <4>2. PICK x : x = ids.to_entity[id]
        OBVIOUS
      <4>3. x \in Live /\ world[x] # <<>> /\ ids.to_id[x] = id /\ Known(ids, x) /\ id \notin orphaned
        BY <1>7, <3>2, <4>1, <4>2
      <4>4. QED
        BY <4>1, <4>3 DEF LiveIds
    <3>3. QED
      BY <3>1, <3>2
  <2>2. ASSUME NEW id \in LiveIds, id \notin orphans
        PROVE  id \in AppliedIds(copies, frame)
    <3> SUFFICES ASSUME id \notin DOMAIN frame.creates
                 PROVE  id \in DOMAIN copies \ frame.destroys
      BY <1>6
    <3>1. id \notin orphaned /\ id \notin frame.destroys
      BY <2>2
    <3>2. PICK x \in Live : Known(ids, x) /\ world[x] # <<>> /\ id = ids.to_id[x]
      BY DEF LiveIds
    <3>3. x \notin Creating
      BY <1>3, <3>2
    <3>4. DOMAIN world[x] # {} /\ DOMAIN world[x] \subseteq Components
      <4>1. world[x] \in MapsOf(Components, Values)
        BY <1>2, <3>2 DEF ComponentValues
      <4>2. DOMAIN world[x] # {}
        BY <3>2, <4>1, EmptyMapIs
      <4>3. DOMAIN world[x] \subseteq Components
        BY <4>1, MapIs
      <4>4. QED
        BY <4>2, <4>3
    <3>5. ~ AllAdded(x)
      BY <1>2, <3>3, <3>4, InTracked DEF AllAdded, Creating
    <3>6. id \in DOMAIN copies
      BY <3>1, <3>2, <3>5 DEF Tracks
    <3>7. QED
      BY <3>1, <3>6
  <2>3. QED
    BY <2>1, <2>2
<1> DEFINE new == Applied(copies, frame)
<1>9. ASSUME NEW id \in AppliedIds(copies, frame)
      PROVE  IF id \in DOMAIN frame.creates THEN new[id] = frame.creates[id]
             ELSE new[id] = IF id \in DOMAIN frame.updates
                            THEN Updated(copies[id], frame.updates[id]) ELSE copies[id]
  BY <1>1, <1>5 DEF Applied, Placed
<1>10. DOMAIN new = LiveIds \ orphans /\ new \in EntityData
  BY <1>1, <1>8, AppliedTyped DEF Applied
<1>11. \A id \in DOMAIN new : new[id] \in ComponentValues
  BY <1>10, MapIs DEF EntityData
<1>12. \A id \in DOMAIN copies : DOMAIN copies[id] \subseteq Components
  <2>1. \A id \in DOMAIN copies : copies[id] \in MapsOf(Components, Values)
    BY MapIs DEF EntityData, ComponentValues
  <2>2. QED
    BY <2>1, MapIs
<1> HIDE DEF new, orphans
(* What the copy of an entity that is not created comes to. *)
<1>13. ASSUME NEW id \in DOMAIN new, id \notin DOMAIN frame.creates,
              NEW x, x = ids.to_entity[id]
       PROVE  /\ DOMAIN new[id] = DOMAIN copies[id]
              /\ \A c \in DOMAIN world[x] : c \in DOMAIN new[id] /\ new[id][c] = world[x][c]
              /\ ~ repaired => DOMAIN new[id] = DOMAIN world[x]
              /\ id \in DOMAIN frame.updates => DOMAIN frame.updates[id] \subseteq DOMAIN world[x]
  <2>1. id \in DOMAIN copies /\ id \notin frame.destroys /\ id \in AppliedIds(copies, frame)
    BY <1>6, <1>8, <1>10, <1>13
  <2>2. /\ x \in Live /\ ids.to_id[x] = id /\ x \notin Creating
        /\ \A c \in Components : <<x, c>> \notin trackers.added /\ <<x, c>> \notin trackers.removed
        /\ Lags(x, copies[id])
    BY <1>7, <1>13, <2>1
  <2>3. DOMAIN world[x] \subseteq Components
    <3>1. world[x] \in MapsOf(Components, Values)
      BY <1>2, <2>2 DEF ComponentValues
    <3>2. QED
      BY <3>1, MapIs
  <2>4. ASSUME NEW c \in DOMAIN world[x]
        PROVE  /\ c \in DOMAIN copies[id]
               /\ <<x, c>> \in trackers.changed \/ copies[id][c] = world[x][c]
    BY <2>2, <2>3 DEF Lags
  <2>5. ~ repaired => DOMAIN copies[id] \subseteq DOMAIN world[x]
    BY <1>12, <2>1, <2>2 DEF Lags
  <2>6. CASE id \in DOMAIN frame.updates
    <3>1. frame.updates[id] = [c \in ChangedOf(x) |-> world[x][c]]
      BY <1>1, <1>13, <2>6 DEF Drafted
    <3>2. new[id] = Updated(copies[id], frame.updates[id])
      BY <1>9, <1>13, <2>1, <2>6
    <3>3. /\ DOMAIN new[id] = DOMAIN copies[id]
          /\ \A c \in DOMAIN copies[id] :
               new[id][c] = IF c \in ChangedOf(x) THEN world[x][c] ELSE copies[id][c]
      BY <3>1, <3>2 DEF Updated
    <3>4. \A c \in DOMAIN world[x] : c \in ChangedOf(x) <=> <<x, c>> \in trackers.changed
      BY <2>3 DEF ChangedOf
    <3>5. ChangedOf(x) \subseteq DOMAIN world[x]
      BY <1>2, <2>2 DEF ChangedOf, TrackedIsLive, Live
    <3>6. QED
      BY <2>4, <2>5, <3>1, <3>3, <3>4, <3>5
  <2>7. CASE id \notin DOMAIN frame.updates
    <3>1. new[id] = copies[id]
      BY <1>9, <1>13, <2>1, <2>7
    <3>2. x \notin EntitiesIn(trackers.changed)
      BY <1>4, <2>2, <2>7 DEF Updating
    <3>3. \A c \in DOMAIN world[x] : <<x, c>> \notin trackers.changed
      BY <1>2, <2>3, <3>2, InTracked
    <3>4. QED
      BY <2>4, <2>5, <2>7, <3>1, <3>3
  <2>8. QED
    BY <2>6, <2>7
<1>14. ASSUME NEW id \in DOMAIN new, NEW x, x = ids.to_entity[id]
       PROVE  IF repaired THEN \A c \in DOMAIN world[x] : c \in DOMAIN new[id] /\ new[id][c] = world[x][c]
              ELSE new[id] = world[x]
  <2>1. CASE id \in DOMAIN frame.creates
    BY <1>5, <1>8, <1>9, <1>10, <1>14, <2>1
  <2>2. CASE id \notin DOMAIN frame.creates
    <3>1. x \in Live
      BY <1>6, <1>7, <1>8, <1>10, <1>14, <2>2
    <3>2. /\ new[id] = [c \in DOMAIN new[id] |-> new[id][c]]
          /\ world[x] = [c \in DOMAIN world[x] |-> world[x][c]]
      <4>1. new[id] \in MapsOf(Components, Values) /\ world[x] \in MapsOf(Components, Values)
        BY <1>2, <1>11, <3>1 DEF ComponentValues
      <4>2. QED
        BY <4>1, MapIs
    <3>3. QED
      BY <1>13, <1>14, <2>2, <3>2
  <2>3. QED
    BY <2>1, <2>2
<1>15. Fits(new, frame)
  <2> SUFFICES ASSUME NEW id \in DOMAIN frame.updates \cap DOMAIN new
               PROVE  DOMAIN frame.updates[id] \subseteq DOMAIN new[id]
    BY DEF Fits
  <2>1. id \notin DOMAIN frame.creates
    BY <1>5
  <2>2. PICK x : x = ids.to_entity[id]
    OBVIOUS
  <2>3. QED
    BY <1>13, <2>1, <2>2
<1>16. ASSUME ~ repaired
       PROVE  CreatedAgain(frame) = Again(copies, frame)
  <2> SUFFICES ASSUME NEW id \in DOMAIN frame.creates, id \notin frame.destroys
               PROVE  id \in DOMAIN copies <=>
                        \E x \in Live : /\ Known(ids, x) /\ ids.to_id[x] = id
                                        /\ id \notin orphaned
                                        /\ \E c \in DOMAIN world[x] : <<x, c>> \notin trackers.added
    BY DEF CreatedAgain, Again
  <2>1. ASSUME id \in DOMAIN copies
        PROVE  \E x \in Live : /\ Known(ids, x) /\ ids.to_id[x] = id
                               /\ id \notin orphaned
                               /\ \E c \in DOMAIN world[x] : <<x, c>> \notin trackers.added
    <3>1. PICK x : x = ids.to_entity[id]
      OBVIOUS
    <3>2. /\ id \in DOMAIN ids.to_entity /\ id \notin orphaned
          /\ Lags(x, copies[id]) /\ x \notin EntitiesIn(trackers.removed)
      BY <2>1, <3>1 DEF Tracks, Drafted
    <3>3. Known(ids, x) /\ ids.to_id[x] = id
      BY <1>2, <3>1, <3>2 DEF Agree, Known
    <3>4. copies[id] \in MapsOf(Components, Values)
      <4>1. copies \in MapsOf(1 .. MaxId, ComponentValues)
        BY DEF EntityData
      <4>2. QED
        BY <2>1, <4>1, MapIs DEF ComponentValues
    <3>5. DOMAIN copies[id] # {}
      BY <1>16, <3>2, <3>4, EmptyMapIs DEF Lags
    <3>6. PICK c \in DOMAIN copies[id] : c \in Components
      BY <1>12, <2>1, <3>5
    <3>7. <<x, c>> \notin trackers.removed
      BY <1>2, <3>2, <3>6, InTracked
    <3>8. x \in Live /\ c \in DOMAIN world[x] /\ <<x, c>> \notin trackers.added
      BY <1>16, <3>2, <3>6, <3>7 DEF Lags
    <3>9. QED
      BY <3>2, <3>3, <3>8
  <2>2. ASSUME NEW x \in Live, Known(ids, x), ids.to_id[x] = id, id \notin orphaned,
               NEW c \in DOMAIN world[x], <<x, c>> \notin trackers.added
        PROVE  id \in DOMAIN copies
    BY <2>2 DEF Tracks, AllAdded
  <2>3. QED
    BY <2>1, <2>2
<1>17. QED
  BY <1>1, <1>10, <1>14, <1>15, <1>16 DEF new, orphans

(* A frame is sent: it takes the last copies to what ClientFollows says.   *)
LEMMA SendFollows ==
  ASSUME FollowInv, Send
  PROVE  FollowInv'
<1>0. PICK frame : frame = draft.frame
  OBVIOUS
<1>1. /\ phase = "extract" /\ phase' = "sent" /\ draft.todo = {} /\ draft' = NoDraft
      /\ Encodes(draft.frame) /\ net' = Append(net, frame)
      /\ UNCHANGED <<order, world, unborn, trackers, ids>>
      /\ UNCHANGED <<applying, failed, replica, spawned, client_ids>>
      /\ UNCHANGED <<synced, repaired>>
      /\ synced => /\ orphaned' = (orphaned \cup (frame.destroys \cap LiveIds))
                                    \ DOMAIN frame.creates
                   /\ strays' = strays + Cardinality(CreatedAgain(frame))
  BY <1>0 DEF Send, clientVars
<1>2. Typed'
  BY ServerTyped DEF FollowInv
<1>3. IInv'
  BY <1>1, ServerKeepsIInv DEF ClientPart, FollowInv, IInv, MapsAgree, Agree
<1>4. IdsInOrder'
  BY <1>1 DEF FollowInv, IdsInOrder, IdsAreExact, Known
<1>5. UnknownIsNew'
  BY <1>1, DraftedIsKnown DEF UnknownIsNew, Live, Known
<1>6. frame.upserts = <<>> /\ frame \in Frame
  <2>1. draft.frame \in [upserts : EntityData, destroys : SUBSET (1 .. MaxId),
                         creates : EntityData \cup {Absent}, updates : EntityData \cup {Absent}]
    BY DEF FollowInv, Typed, DraftTyped
  <2>2. frame.creates # Absent /\ frame.updates # Absent
    BY <1>0, <1>1 DEF Encodes
  <2>3. Frame = [upserts : EntityData, destroys : SUBSET (1 .. MaxId),
                 creates : EntityData, updates : EntityData]
    BY Assumed DEF FollowInv, Typed
  <2>4. QED
    BY <1>0, <2>1, <2>2, <2>3 DEF FollowInv, Shapes
<1>7. /\ net \in Seq(Frame) /\ Len(net) \in Nat /\ Len(net') = Len(net) + 1
      /\ net'[Len(net) + 1] = frame
      /\ \A i \in 1 .. Len(net) : net'[i] = net[i]
  <2>1. net \in Seq(Frame)
    BY DEF FollowInv, Typed, LinkTyped
  <2>2. QED
    BY <1>1, <1>6, <2>1, AppendProperties
<1>8. Shapes'
  <2>1. \A i \in 1 .. Len(net') : net'[i].upserts = <<>>
    BY <1>6, <1>7 DEF FollowInv, Shapes
  <2>2. QED
    BY <1>1, <2>1 DEF FollowInv, Shapes, Idle, NoDraft, Nothing
<1>9. ASSUME synced
      PROVE  Following'
  <2>1. PICK v, last : /\ Replays(v)
                       /\ last = v[Len(net)] /\ Reached(last)
                       /\ ~ repaired => \E s : Counts(v, s)
    BY <1>9 DEF FollowInv, Following
  <2>2. /\ v \in [0 .. Len(net) -> EntityData] /\ last \in EntityData
        /\ IF applying = Absent THEN v[0] = Copies
           ELSE v[0] = Applied(Copies, applying) /\ Fits(v[0], applying)
        /\ \A i \in 1 .. Len(net) : v[i] = Applied(v[i - 1], net[i]) /\ Fits(v[i], net[i])
    BY <1>7, <2>1 DEF Replays
  <2>3. PICK new : new = Applied(last, frame)
    OBVIOUS
  <2>4. PICK w : w = [i \in 0 .. Len(net) + 1 |-> IF i = Len(net) + 1 THEN new ELSE v[i]]
    OBVIOUS
  <2>5. Tracks(last) /\ Drafted(last)
    BY <1>1, <2>1 DEF Reached
  <2>6. /\ DOMAIN new = LiveIds \ orphaned'
        /\ \A id \in DOMAIN new :
             LET now == world[ids.to_entity[id]] IN
             IF repaired THEN \A c \in DOMAIN now : c \in DOMAIN new[id] /\ new[id][c] = now[c]
             ELSE new[id] = now
        /\ Fits(new, frame)
        /\ ~ repaired => CreatedAgain(frame) = Again(last, frame)
    <3>1. LET orphans == (orphaned \cup (frame.destroys \cap LiveIds)) \ DOMAIN frame.creates
              gives == Applied(last, frame) IN
          /\ frame \in Frame
          /\ DOMAIN gives = LiveIds \ orphans
          /\ \A id \in DOMAIN gives :
               LET now == world[ids.to_entity[id]] IN
               IF repaired
               THEN \A c \in DOMAIN now : c \in DOMAIN gives[id] /\ gives[id][c] = now[c]
               ELSE gives[id] = now
          /\ Fits(gives, frame)
          /\ ~ repaired => CreatedAgain(frame) = Again(last, frame)
      <4>1. phase = "extract" /\ draft.todo = {} /\ Encodes(draft.frame) /\ last \in EntityData
        BY <1>1, <2>2
      <4>2. QED
        BY ONLY FollowInv, <1>0, <1>9, <2>5, <4>1, DraftGives
    <3>2. QED
      BY <1>1, <1>9, <2>3, <3>1
  <2>7. Reached(new)'
    <3>1. LiveIds' = LiveIds
      BY <1>1 DEF LiveIds, Live, Known
    <3>2. InStep(new)'
      BY <1>1, <2>6, <3>1 DEF InStep
    <3>3. QED
      BY <1>1, <3>2 DEF Reached
  <2>8. EntityData' = EntityData /\ Copies' = Copies
    BY <1>1, SchemaUnchanged, CopiesUnchanged
  <2>9. /\ w[Len(net')] = new
        /\ \A i \in 0 .. Len(net) : w[i] = v[i]
    BY <1>7, <2>4
  <2>10. Replays(w)'
    <3>1. new \in EntityData
      BY <1>6, <2>2, <2>3, AppliedTyped DEF FollowInv, Typed
    <3>2. w \in [0 .. Len(net') -> EntityData']
      BY <1>7, <2>2, <2>4, <2>8, <3>1
    <3>3. w[0] = v[0]
      BY <1>7, <2>9
    <3>4. ASSUME NEW i \in 1 .. Len(net')
          PROVE  w[i] = Applied(w[i - 1], net'[i]) /\ Fits(w[i], net'[i])
      <4>1. CASE i = Len(net) + 1
        <5>1. w[i] = new /\ w[i - 1] = last /\ net'[i] = frame
          BY <1>7, <2>1, <2>9, <4>1
        <5>2. QED
          BY <2>3, <2>6, <5>1
      <4>2. CASE i # Len(net) + 1
        <5>1. i \in 1 .. Len(net) /\ w[i] = v[i] /\ w[i - 1] = v[i - 1] /\ net'[i] = net[i]
          BY <1>7, <2>9, <4>2
        <5>2. QED
          BY <2>2, <5>1
      <4>3. QED
        BY <4>1, <4>2
    <3>5. IF applying' = Absent THEN w[0] = Copies'
          ELSE w[0] = Applied(Copies', applying') /\ Fits(w[0], applying')
      BY <1>1, <2>2, <2>8, <3>3
    <3>6. QED
      BY <3>2, <3>4, <3>5 DEF Replays
  <2>11. ASSUME ~ repaired, NEW s, Counts(v, s)
         PROVE  \E t : Counts(w, t)'
    <3>1. /\ s \in [0 .. Len(net) -> Nat] /\ s[Len(net)] = strays
          /\ Cardinality(DOMAIN replica) + Cardinality(AgainNow)
               = Cardinality(DOMAIN client_ids.to_entity) + s[0]
          /\ \A i \in 1 .. Len(net) : s[i] = s[i - 1] + Cardinality(Again(v[i - 1], net[i]))
      BY <2>11 DEF Counts
    <3>2. PICK more : more = Cardinality(Again(last, frame))
      OBVIOUS
    <3>3. more \in Nat
      <4>1. frame.creates \in MapsOf(1 .. MaxId, ComponentValues)
        BY <1>6, FrameHas DEF FollowInv, Typed, EntityData
      <4>2. Again(last, frame) \in SUBSET DOMAIN frame.creates
        BY DEF Again
      <4>3. QED
        BY <3>2, <4>1, <4>2, MaxIdAssumption, MapFinite
    <3>4. PICK t : t = [i \in 0 .. Len(net) + 1 |->
                          IF i = Len(net) + 1 THEN strays + more ELSE s[i]]
      OBVIOUS
    <3>5. strays \in Nat
      BY DEF FollowInv, Typed, HistoryTyped
    <3>6. t \in [0 .. Len(net') -> Nat] /\ t[0] = s[0]
      BY <1>7, <3>1, <3>3, <3>4, <3>5
    <3>7. t[Len(net')] = strays'
      BY <1>1, <1>7, <1>9, <2>6, <2>11, <3>2, <3>4
    <3>8. ASSUME NEW i \in 1 .. Len(net')
          PROVE  t[i] = t[i - 1] + Cardinality(Again(w[i - 1], net'[i]))
      <4>1. CASE i = Len(net) + 1
        <5>1. t[i] = strays + more /\ t[i - 1] = strays /\ w[i - 1] = last /\ net'[i] = frame
          BY <1>7, <2>1, <2>9, <3>1, <3>4, <4>1
        <5>2. QED
          BY <3>2, <5>1
      <4>2. CASE i # Len(net) + 1
        <5>1. /\ i \in 1 .. Len(net) /\ t[i] = s[i] /\ t[i - 1] = s[i - 1]
              /\ w[i - 1] = v[i - 1] /\ net'[i] = net[i]
          BY <1>7, <2>9, <3>4, <4>2
        <5>2. QED
          BY <3>1, <5>1
      <4>3. QED
        BY <4>1, <4>2
    <3>9. AgainNow' = AgainNow
      BY <1>1, <2>8 DEF AgainNow
    <3>10. Counts(w, t)'
      BY <1>1, <3>1, <3>6, <3>7, <3>8, <3>9 DEF Counts
    <3>11. QED
      BY <3>10
  <2>12. QED
    BY <1>1, <2>1, <2>7, <2>9, <2>10, <2>11 DEF Following
<1>10. QED
  BY <1>1, <1>2, <1>3, <1>4, <1>5, <1>8, <1>9 DEF FollowInv

-----------------------------------------------------------------------------
(* The client and the link. *)
LEMMA RoundKeepsFollowInv ==
  ASSUME FollowInv, Upsert \/ ApplyDestroy \/ ApplyCreate \/ ApplyUpdate
  PROVE  FollowInv'
<1>1. /\ UNCHANGED <<order, phase, world, unborn, trackers, ids, draft, net, failed>>
      /\ UNCHANGED <<synced, repaired>>
      /\ applying # Absent
  BY DEF Upsert, ApplyDestroy, ApplyCreate, ApplyUpdate, Updatable, Round, serverVars, history
<1>2. Typed'
  BY RoundTyped DEF FollowInv
<1>3. IInv'
  BY NextIInv DEF FollowInv, Next, ClientStep
<1>4. IdsInOrder' /\ UnknownIsNew'
  BY <1>1, ServerUnchanged DEF FollowInv
<1>5. Shapes'
  <2>1. applying \in Frame
    BY <1>1 DEF FollowInv, Typed, ClientTyped
  <2>2. Frame = [upserts : EntityData, destroys : SUBSET (1 .. MaxId),
                 creates : EntityData, updates : EntityData]
    BY Assumed DEF FollowInv, Typed
  <2>3. \/ applying.upserts = <<>>
        \/ repaired /\ applying.creates = <<>> /\ applying.updates = <<>>
    BY <1>1 DEF FollowInv, Shapes
  <2>4. \/ applying'.upserts = <<>>
        \/ repaired /\ applying'.creates = <<>> /\ applying'.updates = <<>>
    <3>1. CASE Upsert
      BY <2>1, <2>2, <2>3, <3>1 DEF Upsert, Round
    <3>2. CASE ApplyDestroy
      BY <2>1, <2>2, <3>2 DEF ApplyDestroy, Round
    <3>3. CASE ApplyCreate
      BY <2>1, <2>2, <2>3, <3>3 DEF ApplyCreate, Round
    <3>4. CASE ApplyUpdate
      BY <2>1, <2>2, <2>3, <3>4 DEF ApplyUpdate, Updatable, Round
    <3>5. QED
      BY <3>1, <3>2, <3>3, <3>4
  <2>5. QED
    BY <1>1, <2>4 DEF FollowInv, Shapes, Idle
<1>6. synced' => Following'
  BY <1>1, <1>2, RoundFollows
<1>7. QED
  BY <1>2, <1>3, <1>4, <1>5, <1>6 DEF FollowInv

(* What Shapes says of the frames under way, when some of them are gone.   *)
LEMMA FewerInFlight ==
  ASSUME FollowInv,
         net' = net \/ (net # <<>> /\ net' = Tail(net))
                    \/ (Len(net) = 2 /\ net' = <<net[2], net[1]>>)
  PROVE  \A i \in 1 .. Len(net') : net'[i].upserts = <<>>
<1>1. net \in Seq(Frame) /\ Len(net) \in Nat
  BY DEF FollowInv, Typed, LinkTyped
<1>2. \A i \in 1 .. Len(net) : net[i].upserts = <<>>
  BY DEF FollowInv, Shapes
<1>3. CASE net' = net
  BY <1>2, <1>3
<1>4. CASE net # <<>> /\ net' = Tail(net)
  <2>1. /\ Len(net') = Len(net) - 1
        /\ \A i \in 1 .. Len(net') : net'[i] = net[i + 1]
    BY <1>1, <1>4, HeadTailProperties
  <2>2. ASSUME NEW i \in 1 .. Len(net')
        PROVE  i + 1 \in 1 .. Len(net)
    BY <1>1, <2>1
  <2>3. QED
    BY <1>2, <2>1, <2>2
<1>5. CASE Len(net) = 2 /\ net' = <<net[2], net[1]>>
  <2>1. /\ 1 \in 1 .. Len(net) /\ 2 \in 1 .. Len(net)
        /\ 1 .. Len(net') = {1, 2}
        /\ net'[1] = net[2] /\ net'[2] = net[1]
    BY <1>5
  <2>2. QED
    BY <1>2, <2>1
<1>6. QED
  BY <1>3, <1>4, <1>5

(* After a fault the client need not follow; its frames keep their shape.  *)
LEMMA FaultKeepsFollowInv ==
  ASSUME FollowInv, Lose \/ Swap \/ DecodeFails \/ ApplyFails
  PROVE  FollowInv'
<1>1. /\ UNCHANGED <<order, phase, world, unborn, trackers, ids, draft>>
      /\ synced' = FALSE /\ UNCHANGED repaired
      /\ net' = net \/ (net # <<>> /\ net' = Tail(net))
                    \/ (Len(net) = 2 /\ net' = <<net[2], net[1]>>)
      /\ (UNCHANGED <<applying, failed>>) \/ (applying' = Absent /\ phase = "sent")
  BY DEF Lose, Swap, LinkFault, DecodeFails, ApplyFails, FrameFails, Updatable, OutOfStep,
         serverVars, clientVars, FollowInv, Shapes, Idle
<1>2. Typed'
  BY LinkTypedLemma, BeginTyped, RoundTyped DEF FollowInv
<1>3. IInv'
  BY NextIInv DEF FollowInv, Next, ClientStep
<1>4. IdsInOrder' /\ UnknownIsNew'
  BY <1>1, ServerUnchanged DEF FollowInv
<1>5. Shapes'
  <2>1. \A i \in 1 .. Len(net') : net'[i].upserts = <<>>
    BY <1>1, FewerInFlight
  <2>2. QED
    BY <1>1, <2>1 DEF FollowInv, Shapes, Idle
<1>6. QED
  BY <1>1, <1>2, <1>3, <1>4, <1>5 DEF FollowInv

LEMMA BeginKeepsFollowInv ==
  ASSUME FollowInv, Deliver \/ ApplyDone \/ Resync \/ NoResync
  PROVE  FollowInv'
<1>1. /\ UNCHANGED <<order, phase, world, unborn, trackers, ids, draft>>
      /\ phase = "sent"
      /\ net' = net \/ (net # <<>> /\ net' = Tail(net))
  <2>1. Nothing # Absent
    BY Assumed DEF FollowInv, Typed
  <2>2. QED
    BY <2>1 DEF Deliver, ApplyDone, Resync, NoResync, serverVars, FollowInv, Shapes, Idle
<1>2. Typed'
  BY BeginTyped DEF FollowInv
<1>3. IInv'
  BY NextIInv DEF FollowInv, Next, ClientStep
<1>4. IdsInOrder' /\ UnknownIsNew'
  <2>1. UnknownIsNew'
    BY <1>1, ServerUnchanged DEF FollowInv
  <2>2. CASE Resync
    <3>1. synced' => Cardinality(DOMAIN ids.to_id) <= MaxId
      BY <2>2 DEF Resync
    <3>2. IdsInOrder'
      BY <1>1, <3>1 DEF FollowInv, IdsInOrder, IdsAreExact, Known
    <3>3. QED
      BY <2>1, <3>2
  <2>3. CASE Deliver \/ ApplyDone \/ NoResync
    <3>1. synced' = synced
      BY <2>3 DEF Deliver, ApplyDone, NoResync, history
    <3>2. QED
      BY <1>1, <3>1, ServerUnchanged DEF FollowInv
  <2>4. QED
    BY <2>1, <2>2, <2>3
<1>5. Shapes'
  <2>1. \A i \in 1 .. Len(net') : net'[i].upserts = <<>>
    BY <1>1, FewerInFlight
  <2>2. CASE Deliver
    <3>1. net \in Seq(Frame) /\ net # <<>> /\ applying' = Head(net) /\ ~ failed /\ failed' = failed
      BY <2>2 DEF Deliver, Idle, FollowInv, Typed, LinkTyped
    <3>2. applying' = net[1] /\ 1 \in 1 .. Len(net)
      BY <3>1
    <3>3. applying'.upserts = <<>>
      BY <3>2 DEF FollowInv, Shapes
    <3>4. QED
      BY <1>1, <2>1, <3>1, <3>3 DEF FollowInv, Shapes, Idle
  <2>3. CASE ApplyDone
    BY <1>1, <2>1, <2>3 DEF ApplyDone, history, FollowInv, Shapes, Idle
  <2>4. CASE Resync
    BY <1>1, <2>1, <2>4 DEF Resync, Nothing, FollowInv, Shapes, Idle
  <2>5. CASE NoResync
    BY <1>1, <2>1, <2>5 DEF NoResync, FollowInv, Shapes, Idle
  <2>6. QED
    BY <2>2, <2>3, <2>4, <2>5
<1>6. ASSUME synced'
      PROVE  Following'
  <2>1. CASE Deliver
    BY <1>6, <2>1, DeliverFollows DEF Deliver, history
  <2>2. CASE ApplyDone
    BY <1>6, <2>2, DoneFollows DEF ApplyDone, history
  <2>3. CASE Resync
    BY <1>6, <2>3, ResyncFollows
  <2>4. CASE NoResync
    BY <1>6, <2>4 DEF NoResync, history, FollowInv, Shapes
  <2>5. QED
    BY <2>1, <2>2, <2>3, <2>4
<1>7. QED
  BY <1>2, <1>3, <1>4, <1>5, <1>6 DEF FollowInv

-----------------------------------------------------------------------------
LEMMA NextFollows == FollowInv /\ [Next]_vars => FollowInv'
<1> SUFFICES ASSUME FollowInv, [Next]_vars PROVE FollowInv'
  OBVIOUS
<1>1. Typed' /\ IInv'
  BY NextTyped, NextIInv DEF FollowInv
<1>2. CASE ChangeWorld
  BY <1>1, <1>2, ChangeWorldFollows
<1>3. CASE Extract
  BY <1>3, ExtractFollows
<1>4. ASSUME NEW e \in draft.todo, Collect(e)
      PROVE  FollowInv'
  BY <1>4, CollectFollows
<1>5. CASE Send
  BY <1>5, SendFollows
<1>6. CASE EncodeFails
  BY <1>6, EncodeFailsFollows
<1>7. CASE EndFrame
  BY <1>7, EndFrameFollows
<1>8. CASE Lose \/ Swap \/ DecodeFails \/ ApplyFails
  BY <1>8, FaultKeepsFollowInv
<1>9. CASE Deliver \/ ApplyDone \/ Resync \/ NoResync
  BY <1>9, BeginKeepsFollowInv
<1>10. CASE Upsert \/ ApplyDestroy \/ ApplyCreate \/ ApplyUpdate
  BY <1>10, RoundKeepsFollowInv
<1>11. CASE UNCHANGED vars
  <2>1. /\ UNCHANGED <<order, phase, world, unborn, trackers, ids, draft, net, applying, failed>>
        /\ UNCHANGED <<replica, client_ids, synced, repaired, orphaned, strays>>
    BY <1>11 DEF vars, serverVars, clientVars, history
  <2>2. IdsInOrder' /\ UnknownIsNew'
    BY <2>1, ServerUnchanged DEF FollowInv
  <2>3. Shapes'
    BY <2>1 DEF FollowInv, Shapes, Idle
  <2>4. ASSUME synced'
        PROVE  Following'
    <3>1. \A copies \in EntityData : Reached(copies) => Reached(copies)'
      BY <2>1, ReachedUnchanged
    <3>2. QED
      BY <2>1, <2>4, <3>1, ServerFollows
  <2>5. QED
    BY <1>1, <2>2, <2>3, <2>4 DEF FollowInv
<1>12. QED
  BY <1>2, <1>3, <1>4, <1>5, <1>6, <1>7, <1>8, <1>9, <1>10, <1>11 DEF Next, Server, ClientStep

-----------------------------------------------------------------------------
(* With nothing under way and nothing half applied the client has the last *)
(* copies.                                                                 *)
LEMMA FollowInvIsClientFollows == FollowInv => ClientFollows
<1> SUFFICES ASSUME FollowInv, Settled, synced
             PROVE  /\ DOMAIN client_ids.to_entity = LiveIds \ orphaned
                    /\ \A e \in Live : (Known(ids, e) /\ ids.to_id[e] \in LiveIds \ orphaned) =>
                         LET copy == replica[client_ids.to_entity[ids.to_id[e]]] IN
                         IF repaired
                         THEN \A c \in DOMAIN world[e] :
                                c \in DOMAIN copy /\ copy[c] = world[e][c]
                         ELSE copy = world[e]
                    /\ ~ repaired =>
                         Cardinality(DOMAIN replica)
                           = Cardinality(DOMAIN client_ids.to_entity) + strays
  BY DEF ClientFollows
<1>1. phase = "sent" /\ net = <<>> /\ Len(net) = 0 /\ applying = Absent
  BY DEF Settled, Idle
<1>2. PICK v, last : /\ Replays(v)
                     /\ last = v[Len(net)] /\ Reached(last)
                     /\ ~ repaired => \E s : Counts(v, s)
  BY DEF FollowInv, Following
<1>3. last = Copies /\ InStep(Copies)
  BY <1>1, <1>2 DEF Replays, Reached
<1>4. DOMAIN client_ids.to_entity = LiveIds \ orphaned
  BY <1>3 DEF InStep, Copies
<1>5. ASSUME NEW e \in Live, Known(ids, e), ids.to_id[e] \in LiveIds \ orphaned
      PROVE  LET copy == replica[client_ids.to_entity[ids.to_id[e]]] IN
             IF repaired
             THEN \A c \in DOMAIN world[e] : c \in DOMAIN copy /\ copy[c] = world[e][c]
             ELSE copy = world[e]
  <2>1. ids.to_entity[ids.to_id[e]] = e
    BY <1>5 DEF FollowInv, IdsInOrder, IdsAreExact, Known
  <2>2. PICK id : id = ids.to_id[e]
    OBVIOUS
  <2>3. Copies[id] = replica[client_ids.to_entity[id]] /\ id \in DOMAIN Copies
    BY <1>4, <1>5, <2>2 DEF Copies
  <2>4. QED
    BY <1>3, <2>1, <2>2, <2>3 DEF InStep
<1>6. ASSUME ~ repaired
      PROVE  Cardinality(DOMAIN replica) = Cardinality(DOMAIN client_ids.to_entity) + strays
  <2>1. PICK s : Counts(v, s)
    BY <1>2, <1>6
  <2>2. Cardinality(DOMAIN replica) + Cardinality({})
          = Cardinality(DOMAIN client_ids.to_entity) + strays
    BY <1>1, <2>1 DEF Counts, AgainNow
  <2>3. Cardinality({}) = 0 /\ Cardinality(DOMAIN replica) \in Nat
    BY FS_EmptySet, MapFinite DEF FollowInv, Typed, ClientTyped
  <2>4. QED
    BY <2>2, <2>3
<1>7. QED
  BY <1>4, <1>5, <1>6

(* In step, what a frame comes to had what its updates name; and before    *)
(* the updates the client has what the frame comes to.                     *)
LEMMA FollowInvIsNoFailureInStep == FollowInv => NoFailureInStep
<1> SUFFICES ASSUME FollowInv, synced, Updatable,
                    NEW id \in DOMAIN applying.updates
             PROVE  MissingIn(id) = {}
  BY DEF NoFailureInStep
<1>1. PICK v : Replays(v)
  BY DEF FollowInv, Following
<1>2. /\ applying # Absent /\ applying.destroys = {} /\ applying.creates = <<>>
      /\ applying.updates # <<>> /\ applying.upserts = <<>>
  BY DEF Updatable, FollowInv, Shapes
<1>3. DOMAIN <<>> = {}
  BY EmptyMapIs
<1>4. v[0] = Applied(Copies, applying) /\ Fits(v[0], applying)
  BY <1>1, <1>2 DEF Replays
<1>5. CASE id \notin DOMAIN client_ids.to_entity
  BY <1>5 DEF MissingIn
<1>6. CASE id \in DOMAIN client_ids.to_entity
  <2>1. id \in AppliedIds(Copies, applying) /\ Placed(Copies, applying, id) = Copies[id]
    BY <1>2, <1>3, <1>6 DEF AppliedIds, Placed, Copies
  <2>2. id \in DOMAIN v[0] /\ v[0][id] = Updated(Copies[id], applying.updates[id])
    BY <1>4, <2>1 DEF Applied
  <2>3. DOMAIN v[0][id] = DOMAIN Copies[id]
    BY <2>2 DEF Updated
  <2>4. DOMAIN applying.updates[id] \subseteq DOMAIN Copies[id]
    BY <1>4, <2>2, <2>3 DEF Fits
  <2>5. Copies[id] = replica[client_ids.to_entity[id]]
    BY <1>6 DEF Copies
  <2>6. QED
    BY <2>4, <2>5 DEF MissingIn
<1>7. QED
  BY <1>5, <1>6

LEMMA FollowInvHolds == Spec => []FollowInv
  BY InitFollows, NextFollows, PTL DEF Spec

(* extract.rs and apply.rs: once every frame of a session without faults   *)
(* is applied, the client has the server's entities with their values and  *)
(* no others, but for those the loss of one component destroyed, and one   *)
(* entity without an id for each create of an id it had already.           *)
THEOREM ClientFollowsCorrect == Spec => []ClientFollows
  BY FollowInvHolds, FollowInvIsClientFollows, PTL

(* apply.rs: no frame of a session without faults stops half way for a     *)
(* component the client's entity does not have.                            *)
THEOREM NoFailureInStepCorrect == Spec => []NoFailureInStep
  BY FollowInvHolds, FollowInvIsNoFailureInStep, PTL
=============================================================================
