------------------------------ MODULE RepGraph ------------------------------
(***************************************************************************)
(* repgraph::ReplicationGraph (src/repgraph/src/lib.rs), driven by the     *)
(* tick loop that docs/getting-started.md prescribes, and the clients that *)
(* apply what it builds.                                                   *)
(*                                                                         *)
(* For every client the graph keeps the set of entities it believes the    *)
(* client to have (known_entities).  It never hears back: the belief is    *)
(* right only if every delta it has built applies, and the shared dirty    *)
(* sets and removals may be cleared only when each client has had them.    *)
(*                                                                         *)
(* Abstraction of the data: a view is the set of positions within its      *)
(* radius; the state of an entity is a value per component; a delta        *)
(* reaches its client before the next one is built (SnapshotSession models *)
(* the link), encoded against what the client has.                         *)
(***************************************************************************)
EXTENDS Integers, FiniteSets, Functions

CONSTANTS
  Ids,          (* the EntityIds the application may use                    *)
  Clients,
  Positions,
  Components,
  Values,       (* the values of a component                                *)
  Priorities,
  Views,        (* the ClientViews: [sees, creates, updates, destroys]      *)
  MaxEntities,  (* ReplicationConfig::max_entities                          *)
  ReuseIds      (* may an id be used again in the tick that removed it?     *)

ASSUME RepGraphAssumption ==
  /\ Ids \subseteq Nat /\ IsFiniteSet(Ids)
  /\ Views \subseteq [sees : SUBSET Positions, creates : Nat, updates : Nat, destroys : Nat]
  /\ Priorities \subseteq Nat /\ 0 \in Priorities
  /\ MaxEntities \in Nat
  /\ ReuseIds \in BOOLEAN

VARIABLES
  entities,  (* tracked id -> [position, priority, dirty]                   *)
  removed,   (* removed_entities                                            *)
  clients,   (* connected client -> [view, known]                           *)
  world,     (* the application's world: live id -> component values        *)
  replica,   (* what a connected client has: id -> component values         *)
  built,     (* the clients whose delta of this tick is built               *)
  refused,   (* the clients that could not apply a delta (history)          *)
  passed_over (* the entities the last delta put off and those it created   *)
             (* instead, by priority (history)                              *)

graph == <<entities, removed, clients>>
vars == <<graph, world, replica, built, refused, passed_over>>

Nothing == [e \in {} |-> {}]

(* insert of a BTreeMap or a HashMap *)
With(f, k, v) == [x \in DOMAIN f \cup {k} |-> IF x = k THEN v ELSE f[x]]

(* An entity's components, those of new over those it had. *)
Over(new, old) ==
  [k \in DOMAIN new \cup DOMAIN old |-> IF k \in DOMAIN new THEN new[k] ELSE old[k]]

Init ==
  /\ entities = Nothing
  /\ removed = {}
  /\ clients = Nothing
  /\ world = Nothing
  /\ replica = Nothing
  /\ built = {}
  /\ refused = {}
  /\ passed_over = [deferred |-> {}, created |-> {}]

-----------------------------------------------------------------------------
(* Step 1 of the tick: the application changes its world and tells the     *)
(* graph, before any client is built.                                      *)

(* Mutant: the cap on tracked entities is not enforced. *)
Full_Never(e) == FALSE

(* The early return of update_entity. *)
Full(e) == Cardinality(DOMAIN entities) >= MaxEntities /\ e \notin DOMAIN entities

(* Mutant: the dirty components are replaced. *)
MarkDirty_Replaces(e, d) == d

(* push_unique_components *)
MarkDirty(e, d) == IF e \in DOMAIN entities THEN entities[e].dirty \cup d ELSE d

UpdateEntity(e, pos, d) ==
  entities' =
    IF Full(e) THEN entities
    ELSE With(entities, e,
              [position |-> pos,
               priority |-> IF e \in DOMAIN entities THEN entities[e].priority ELSE 0,
               dirty |-> MarkDirty(e, d)])

(* An entity is spawned, or moves, or has some of its components changed.  *)
Change(e, pos, new) ==
  /\ built = {}
  /\ e \in DOMAIN world \/ DOMAIN new = Components
  /\ ReuseIds \/ e \notin removed
  /\ world' = With(world, e, IF e \in DOMAIN world THEN Over(new, world[e]) ELSE new)
  /\ UpdateEntity(e, pos, DOMAIN new)
  /\ UNCHANGED <<removed, clients, replica, built, refused, passed_over>>

SetEntityPriority(e, n) ==
  /\ built = {}
  /\ e \in DOMAIN entities
  /\ entities' = [entities EXCEPT ![e].priority = n]
  /\ UNCHANGED <<removed, clients, world, replica, built, refused, passed_over>>

RemoveEntity(e) ==
  /\ built = {}
  /\ e \in DOMAIN world
  /\ world' = Restrict(world, DOMAIN world \ {e})
  /\ entities' = Restrict(entities, DOMAIN entities \ {e})
  /\ removed' = removed \cup {e}
  /\ UNCHANGED <<clients, replica, built, refused, passed_over>>

(* A client connects, with nothing, or changes its view. *)
UpsertClient(c, view) ==
  /\ built = {}
  /\ IF c \in DOMAIN clients
     THEN /\ clients' = [clients EXCEPT ![c].view = view]
          /\ UNCHANGED replica
     ELSE /\ clients' = With(clients, c, [view |-> view, known |-> {}])
          /\ replica' = With(replica, c, Nothing)
  /\ UNCHANGED <<entities, removed, world, built, refused, passed_over>>

RemoveClient(c) ==
  /\ built = {}
  /\ c \in DOMAIN clients
  /\ clients' = Restrict(clients, DOMAIN clients \ {c})
  /\ replica' = Restrict(replica, DOMAIN replica \ {c})
  /\ UNCHANGED <<entities, removed, world, built, refused, passed_over>>

-----------------------------------------------------------------------------
(* Step 2: build_client_delta, and the client applies it. *)

Relevant(c) == {e \in DOMAIN entities : entities[e].position \in clients[c].view.sees}

(* Mutant: one too few. *)
FirstOf_OffByOne(S, n) == {e \in S : Cardinality({f \in S : f <= e}) < n}

(* truncate(n) of a list in id order *)
FirstOf(S, n) == {e \in S : Cardinality({f \in S : f <= e}) <= n}

NewTo(c) == Relevant(c) \ clients[c].known

Creates(c) == FirstOf(NewTo(c), clients[c].view.creates)

Updates(c) ==
  FirstOf({e \in Relevant(c) \cap clients[c].known : entities[e].dirty # {}},
          clients[c].view.updates)

(* Known and no longer relevant, or known and removed. *)
Destroys(c) ==
  FirstOf((clients[c].known \ Relevant(c)) \cup (clients[c].known \cap removed),
          clients[c].view.destroys)

(* Mutant: the creates are noted before the budget is applied. *)
KnownAfter_IgnoresBudget(c) == (clients[c].known \ Destroys(c)) \cup NewTo(c)

(* Mutant: the destroyed entities stay known. *)
KnownAfter_KeepsDestroyed(c) == clients[c].known \cup Creates(c)

KnownAfter(c) == (clients[c].known \ Destroys(c)) \cup Creates(c)

(* apply_destroys, apply_creates, apply_updates: each returns an error on  *)
(* an entity that is not there, or already is.                             *)
Applies(c) ==
  LET left == DOMAIN replica[c] \ Destroys(c)
  IN  /\ Destroys(c) \subseteq DOMAIN replica[c]
      /\ Creates(c) \cap left = {}
      /\ Updates(c) \subseteq left \cup Creates(c)

(* A create carries the whole entity, an update its dirty components.      *)
Applied(c) ==
  [e \in (DOMAIN replica[c] \ Destroys(c)) \cup Creates(c) |->
     IF e \in Creates(c) THEN world[e]
     ELSE IF e \in Updates(c) THEN Over(Restrict(world[e], entities[e].dirty), replica[c][e])
     ELSE replica[c][e]]

Build(c) ==
  /\ c \in DOMAIN clients \ built
  /\ clients' = [clients EXCEPT ![c].known = KnownAfter(c)]
  /\ IF Applies(c)
     THEN /\ replica' = [replica EXCEPT ![c] = Applied(c)]
          /\ UNCHANGED refused
     ELSE /\ refused' = refused \cup {c}
          /\ UNCHANGED replica
  /\ built' = built \cup {c}
  /\ passed_over' = [deferred |-> {entities[e].priority : e \in NewTo(c) \ Creates(c)},
                     created |-> {entities[e].priority : e \in Creates(c)}]
  /\ UNCHANGED <<entities, removed, world>>

-----------------------------------------------------------------------------
(* Step 3, after all clients: clear_dirty() and clear_removed(). *)

EndTick ==
  /\ DOMAIN clients = built
  /\ entities' = [e \in DOMAIN entities |-> [entities[e] EXCEPT !.dirty = {}]]
  /\ removed' = {}
  /\ built' = {}
  /\ passed_over' = [deferred |-> {}, created |-> {}]
  /\ UNCHANGED <<clients, world, replica, refused>>

Next ==
  \/ \E e \in Ids, pos \in Positions, d \in SUBSET Components :
       \E new \in [d -> Values] : Change(e, pos, new)
  \/ \E e \in Ids, n \in Priorities : SetEntityPriority(e, n)
  \/ \E e \in Ids : RemoveEntity(e)
  \/ \E c \in Clients, view \in Views : UpsertClient(c, view)
  \/ \E c \in Clients : RemoveClient(c)
  \/ \E c \in Clients : Build(c)
  \/ EndTick

Spec == Init /\ [][Next]_vars

(* The tick loop goes on: every client is built, then the tick ends. *)
FairSpec == Spec /\ WF_vars(EndTick) /\ \A c \in Clients : WF_vars(Build(c))

-----------------------------------------------------------------------------
State == [Components -> Values]

TypeOK ==
  /\ DOMAIN entities \subseteq Ids \cap DOMAIN world
  /\ Cardinality(DOMAIN entities) <= MaxEntities
  /\ \A e \in DOMAIN entities :
       entities[e] \in [position : Positions, priority : Priorities, dirty : SUBSET Components]
  /\ removed \subseteq Ids
  /\ DOMAIN clients \subseteq Clients
  /\ \A c \in DOMAIN clients : clients[c] \in [view : Views, known : SUBSET Ids]
  /\ DOMAIN world \subseteq Ids /\ \A e \in DOMAIN world : world[e] \in State
  /\ DOMAIN replica = DOMAIN clients
  /\ \A c \in DOMAIN replica : \A e \in DOMAIN replica[c] : replica[c][e] \in State
  /\ built \subseteq DOMAIN clients
  /\ refused \subseteq Clients

(* The graph never hears what a client did with a delta; still it knows    *)
(* exactly which entities each client has, deltas cut by the create budget *)
(* and clients that reconnect included.                                    *)
KnownIsReplica ==
  \A c \in DOMAIN clients : clients[c].known = DOMAIN replica[c]

(* "Update existing entities" (WIRE_FORMAT.md, update sections): no delta  *)
(* updates or destroys an entity its client lacks, or creates one it has.  *)
EveryDeltaApplies == refused = {}

(* A client that has been built has nothing outside its view, and every    *)
(* entity it has is up to date in every component: no change is lost       *)
(* between two clients' deltas or with the dirty sets cleared at the end   *)
(* of a tick.  For views that do not limit updates and destroys.           *)
BuiltClientIsCurrent ==
  \A c \in built :
    /\ DOMAIN replica[c] \subseteq Relevant(c)
    /\ \A e \in DOMAIN replica[c] : replica[c][e] = world[e]

(* Once what is relevant to a client settles, the entities it has settle   *)
(* on that, however few of them a tick may create.                         *)
ClientsConverge ==
  \A c \in Clients, S \in SUBSET Ids :
    <>[](c \in DOMAIN clients /\ Relevant(c) = S)
      => <>[](c \in DOMAIN clients /\ DOMAIN replica[c] = S)

(* "Set entity priority (higher is more important)" (lib.rs): an entity    *)
(* the create budget puts off has no higher priority than one it creates.  *)
ImportantFirst ==
  \A p \in passed_over.deferred, q \in passed_over.created : p <= q
=============================================================================
