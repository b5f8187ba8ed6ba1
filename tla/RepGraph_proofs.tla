--------------------------- MODULE RepGraph_proofs --------------------------
(***************************************************************************)
(* What the replication graph believes about its clients is right, for any *)
(* entities, clients, views and budgets.                                   *)
(***************************************************************************)
EXTENDS RepGraph, FiniteSetTheorems, TLAPS

(* apply_budget keeps part of a list, *)
LEMMA BudgetKeepsPart ==
  ASSUME NEW S, NEW n
  PROVE  FirstOf(S, n) \subseteq S
BY DEF FirstOf

(* and all of it when the list is no longer than the budget. *)
LEMMA BudgetKeepsAll ==
  ASSUME NEW S \in SUBSET Ids, NEW n \in Nat, Cardinality(Ids) <= n
  PROVE  FirstOf(S, n) = S
<1>1. ASSUME NEW e \in S
      PROVE  Cardinality({f \in S : f <= e}) <= n
  <2> DEFINE T == {f \in S : f <= e}
  <2>1. T \subseteq Ids /\ IsFiniteSet(Ids)
    BY RepGraphAssumption
  <2>2. Cardinality(T) <= Cardinality(Ids) /\ Cardinality(T) \in Nat /\ Cardinality(Ids) \in Nat
    BY <2>1, FS_Subset, FS_CardinalityType
  <2> QED
    BY <2>2
<1> QED
  BY <1>1 DEF FirstOf

-----------------------------------------------------------------------------
(* Types *)

ClientType == [view : Views, known : SUBSET Ids]

EntityType == [position : Positions, priority : Priorities, dirty : SUBSET Components]

(* What a delta makes of a client's entities: the ids follow the belief,   *)
(* the values are states of entities.                                      *)
LEMMA AppliedType ==
  ASSUME TypeOK, NEW c \in DOMAIN clients
  PROVE  /\ DOMAIN Applied(c) = (DOMAIN replica[c] \ Destroys(c)) \cup Creates(c)
         /\ \A e \in DOMAIN Applied(c) : Applied(c)[e] \in State
<1>1. DOMAIN Applied(c) = (DOMAIN replica[c] \ Destroys(c)) \cup Creates(c)
  BY DEF Applied
<1>2. ASSUME NEW e \in DOMAIN Applied(c)
      PROVE  Applied(c)[e] \in State
  <2>1. CASE e \in Creates(c)
    <3>1. e \in DOMAIN world
      BY <2>1, BudgetKeepsPart DEF Creates, NewTo, Relevant, TypeOK
    <3> QED
      BY <2>1, <1>1, <3>1 DEF Applied, TypeOK
  <2>2. CASE e \notin Creates(c) /\ e \in Updates(c)
    <3> DEFINE new == Restrict(world[e], entities[e].dirty)
               old == replica[c][e]
    <3>1. e \in DOMAIN entities /\ e \in DOMAIN world
      BY <2>2, BudgetKeepsPart DEF Updates, Relevant, TypeOK
    <3>2. world[e] \in State /\ old \in State
      BY <1>1, <2>2, <3>1 DEF TypeOK
    <3>3. new \in [entities[e].dirty -> Values] /\ entities[e].dirty \subseteq Components
      BY <3>1, <3>2 DEF TypeOK, State, Restrict
    <3>4. Applied(c)[e] = Over(new, old)
      BY <1>1, <2>2 DEF Applied
    <3> HIDE DEF new, old
    <3>5. Over(new, old) \in State
      BY <3>2, <3>3 DEF State, Over
    <3> QED
      BY <3>4, <3>5
  <2>3. CASE e \notin Creates(c) /\ e \notin Updates(c)
    BY <2>3, <1>1 DEF Applied, TypeOK
  <2> QED
    BY <2>1, <2>2, <2>3
<1> QED
  BY <1>1, <1>2

(* lib.rs:155: what is tracked, and how much, after update_entity. *)
LEMMA UpdateEntityType ==
  ASSUME TypeOK, NEW e \in Ids, NEW pos \in Positions, NEW d \in SUBSET Components,
         UpdateEntity(e, pos, d)
  PROVE  /\ DOMAIN entities' \subseteq DOMAIN entities \cup {e}
         /\ Cardinality(DOMAIN entities') <= MaxEntities
         /\ \A x \in DOMAIN entities' : entities'[x] \in EntityType
<1>1. CASE Full(e)
  BY <1>1 DEF UpdateEntity, TypeOK, EntityType
<1>2. CASE ~Full(e)
  <2> DEFINE r == [position |-> pos,
                   priority |-> IF e \in DOMAIN entities THEN entities[e].priority ELSE 0,
                   dirty |-> MarkDirty(e, d)]
  <2>1. r \in EntityType
    BY RepGraphAssumption DEF TypeOK, EntityType, MarkDirty
  <2>2. entities' = With(entities, e, r)
    BY <1>2 DEF UpdateEntity
  <2>3. IsFiniteSet(DOMAIN entities)
    BY RepGraphAssumption, FS_Subset DEF TypeOK
  <2>4. Cardinality(DOMAIN entities \cup {e}) <= MaxEntities
    <3>1. CASE e \in DOMAIN entities
      <4>1. DOMAIN entities \cup {e} = DOMAIN entities
        BY <3>1
      <4> QED
        BY <4>1 DEF TypeOK
    <3>2. CASE e \notin DOMAIN entities
      <4>1. Cardinality(DOMAIN entities) < MaxEntities
        BY <1>2, <2>3, <3>2, RepGraphAssumption, FS_CardinalityType DEF Full
      <4>2. Cardinality(DOMAIN entities \cup {e}) = Cardinality(DOMAIN entities) + 1
        BY <2>3, <3>2, FS_AddElement
      <4> QED
        BY <4>1, <4>2, <2>3, RepGraphAssumption, FS_CardinalityType
    <3> QED
      BY <3>1, <3>2
  <2> HIDE DEF r
  <2> QED
    BY <2>1, <2>2, <2>4 DEF With, TypeOK, EntityType
<1> QED
  BY <1>1, <1>2

(* The belief about a client stays a set of ids. *)
LEMMA KnownAfterType ==
  ASSUME TypeOK, NEW c \in DOMAIN clients
  PROVE  KnownAfter(c) \in SUBSET Ids
BY BudgetKeepsPart DEF KnownAfter, Creates, NewTo, Relevant, TypeOK

LEMMA ChangeType ==
  ASSUME TypeOK, NEW e \in Ids, NEW pos \in Positions, NEW d \in SUBSET Components,
         NEW new \in [d -> Values], Change(e, pos, new)
  PROVE  TypeOK'
<1> DEFINE state == IF e \in DOMAIN world THEN Over(new, world[e]) ELSE new
<1>1. UpdateEntity(e, pos, d)
  BY DEF Change
<1>2. /\ DOMAIN entities' \subseteq DOMAIN entities \cup {e}
      /\ Cardinality(DOMAIN entities') <= MaxEntities
      /\ \A x \in DOMAIN entities' : entities'[x] \in EntityType
  BY <1>1, UpdateEntityType
<1>3. state \in State
  BY DEF Change, State, Over, TypeOK
<1>4. world' = With(world, e, state)
  BY DEF Change
<1> HIDE DEF state
<1>5. DOMAIN world' = DOMAIN world \cup {e} /\ \A x \in DOMAIN world' : world'[x] \in State
  BY <1>3, <1>4 DEF With, TypeOK
<1> QED
  BY <1>2, <1>5 DEF Change, TypeOK, EntityType, State

LEMMA RemoveEntityType ==
  ASSUME TypeOK, NEW e \in Ids, RemoveEntity(e)
  PROVE  TypeOK'
<1>1. IsFiniteSet(DOMAIN entities)
  BY RepGraphAssumption, FS_Subset DEF TypeOK
<1>2. Cardinality(DOMAIN entities \ {e}) <= Cardinality(DOMAIN entities)
  BY <1>1, FS_Subset
<1>3. Cardinality(DOMAIN entities \ {e}) \in Nat /\ Cardinality(DOMAIN entities) \in Nat
  BY <1>1, FS_Subset, FS_CardinalityType
<1> QED
  BY <1>2, <1>3, RepGraphAssumption DEF RemoveEntity, Restrict, TypeOK, State

LEMMA BuildType ==
  ASSUME TypeOK, NEW c \in Clients, Build(c)
  PROVE  TypeOK'
<1>1. c \in DOMAIN clients
  BY DEF Build
<1>2. DOMAIN clients' = DOMAIN clients /\ \A x \in DOMAIN clients' : clients'[x] \in ClientType
  BY <1>1, KnownAfterType DEF Build, TypeOK, ClientType
<1>3. DOMAIN replica' = DOMAIN replica
  BY DEF Build
<1>4. \A x \in DOMAIN replica' : \A e \in DOMAIN replica'[x] : replica'[x][e] \in State
  <2>1. CASE Applies(c)
    <3>1. replica' = [replica EXCEPT ![c] = Applied(c)]
      BY <2>1 DEF Build
    <3>2. \A e \in DOMAIN Applied(c) : Applied(c)[e] \in State
      BY <1>1, AppliedType
    <3> QED
      BY <3>1, <3>2 DEF TypeOK
  <2>2. CASE ~Applies(c)
    BY <2>2 DEF Build, TypeOK
  <2> QED
    BY <2>1, <2>2
<1>5. refused' \in SUBSET Clients /\ built' \in SUBSET DOMAIN clients
  BY <1>1 DEF Build, TypeOK
<1> QED
  BY <1>2, <1>3, <1>4, <1>5 DEF Build, TypeOK, ClientType, State

(* The types and the bound on tracked entities hold in every reachable     *)
(* state (lib.rs:155).                                                     *)
THEOREM GraphTypeCorrect == Spec => []TypeOK
<1>1. Init => TypeOK
  <2>1. Cardinality({}) = 0
    BY FS_EmptySet
  <2> QED
    BY <2>1, RepGraphAssumption DEF Init, Nothing, TypeOK
<1>2. TypeOK /\ [Next]_vars => TypeOK'
  <2> SUFFICES ASSUME TypeOK, [Next]_vars PROVE TypeOK'
    OBVIOUS
  <2>1. ASSUME NEW e \in Ids, NEW pos \in Positions, NEW d \in SUBSET Components,
               NEW new \in [d -> Values], Change(e, pos, new)
        PROVE  TypeOK'
    BY <2>1, ChangeType
  <2>2. ASSUME NEW e \in Ids, NEW n \in Priorities, SetEntityPriority(e, n)
        PROVE  TypeOK'
    BY <2>2 DEF SetEntityPriority, TypeOK, State
  <2>3. ASSUME NEW e \in Ids, RemoveEntity(e)
        PROVE  TypeOK'
    BY <2>3, RemoveEntityType
  <2>4. ASSUME NEW c \in Clients, NEW view \in Views, UpsertClient(c, view)
        PROVE  TypeOK'
    BY <2>4 DEF UpsertClient, With, Nothing, TypeOK, State
  <2>5. ASSUME NEW c \in Clients, RemoveClient(c)
        PROVE  TypeOK'
    BY <2>5 DEF RemoveClient, Restrict, TypeOK, State
  <2>6. ASSUME NEW c \in Clients, Build(c)
        PROVE  TypeOK'
    BY <2>6, BuildType
  <2>7. CASE EndTick
    BY <2>7 DEF EndTick, TypeOK, State
  <2>8. CASE UNCHANGED vars
    BY <2>8 DEF vars, graph, TypeOK, State
  <2> QED
    BY <2>1, <2>2, <2>3, <2>4, <2>5, <2>6, <2>7, <2>8 DEF Next
<1> QED
  BY <1>1, <1>2, PTL DEF Spec

-----------------------------------------------------------------------------
(* Beliefs *)

(* An id waiting to be destroyed at the clients is not tracked: without    *)
(* it, an update could be built for an entity the same delta destroys.     *)
RemovedIsUntracked == DOMAIN entities \cap removed = {}

BeliefInv == TypeOK /\ KnownIsReplica /\ EveryDeltaApplies /\ RemovedIsUntracked

(* With a right belief every delta applies (lib.rs:196, delta.rs:2219).    *)
LEMMA DeltaApplies ==
  ASSUME BeliefInv, NEW c \in DOMAIN clients
  PROVE  Applies(c)
<1> DEFINE left == DOMAIN replica[c] \ Destroys(c)
<1>1. clients[c].known = DOMAIN replica[c]
  BY DEF BeliefInv, KnownIsReplica
<1>2. Destroys(c) \subseteq (clients[c].known \ Relevant(c)) \cup (clients[c].known \cap removed)
  BY BudgetKeepsPart DEF Destroys
<1>3. Creates(c) \cap clients[c].known = {}
  BY BudgetKeepsPart DEF Creates, NewTo
<1>4. Updates(c) \subseteq Relevant(c) \cap clients[c].known
  BY BudgetKeepsPart DEF Updates
<1>5. Relevant(c) \cap removed = {}
  BY DEF Relevant, BeliefInv, RemovedIsUntracked
<1>6. Updates(c) \subseteq left
  BY <1>1, <1>2, <1>4, <1>5
<1> QED
  BY <1>1, <1>2, <1>3, <1>6 DEF Applies

(* and leaves the client with what the graph then believes.                *)
LEMMA BuildKeepsBelief ==
  ASSUME BeliefInv, NEW c \in Clients, Build(c)
  PROVE  KnownIsReplica' /\ EveryDeltaApplies' /\ RemovedIsUntracked'
<1>1. c \in DOMAIN clients
  BY DEF Build
<1>2. Applies(c)
  BY <1>1, DeltaApplies
<1>3. /\ replica' = [replica EXCEPT ![c] = Applied(c)]
      /\ refused' = refused
      /\ clients' = [clients EXCEPT ![c].known = KnownAfter(c)]
  BY <1>2 DEF Build
<1>4. DOMAIN Applied(c) = KnownAfter(c)
  BY <1>1 DEF Applied, KnownAfter, BeliefInv, KnownIsReplica
<1>5. KnownIsReplica'
  <2> SUFFICES ASSUME NEW x \in DOMAIN clients'
               PROVE  clients'[x].known = DOMAIN replica'[x]
    BY DEF KnownIsReplica
  <2>1. clients[x] \in ClientType /\ x \in DOMAIN clients /\ x \in DOMAIN replica
    BY <1>3 DEF BeliefInv, TypeOK, ClientType
  <2>2. CASE x = c
    BY <1>3, <1>4, <2>1, <2>2 DEF ClientType
  <2>3. CASE x # c
    BY <1>3, <2>1, <2>3 DEF BeliefInv, KnownIsReplica
  <2> QED
    BY <2>2, <2>3
<1>6. EveryDeltaApplies' /\ RemovedIsUntracked'
  BY <1>3 DEF Build, BeliefInv, EveryDeltaApplies, RemovedIsUntracked
<1> QED
  BY <1>5, <1>6

LEMMA BeliefStep ==
  ASSUME ~ReuseIds, BeliefInv, [Next]_vars
  PROVE  KnownIsReplica' /\ EveryDeltaApplies' /\ RemovedIsUntracked'
<1> USE DEF BeliefInv
<1>1. ASSUME NEW e \in Ids, NEW pos \in Positions, NEW d \in SUBSET Components,
             NEW new \in [d -> Values], Change(e, pos, new)
      PROVE  KnownIsReplica' /\ EveryDeltaApplies' /\ RemovedIsUntracked'
  <2>1. e \notin removed /\ DOMAIN entities' \subseteq DOMAIN entities \cup {e}
    BY <1>1, UpdateEntityType DEF Change
  <2> QED
    BY <1>1, <2>1 DEF Change, KnownIsReplica, EveryDeltaApplies, RemovedIsUntracked
<1>2. ASSUME NEW e \in Ids, NEW n \in Priorities, SetEntityPriority(e, n)
      PROVE  KnownIsReplica' /\ EveryDeltaApplies' /\ RemovedIsUntracked'
  BY <1>2 DEF SetEntityPriority, KnownIsReplica, EveryDeltaApplies, RemovedIsUntracked
<1>3. ASSUME NEW e \in Ids, RemoveEntity(e)
      PROVE  KnownIsReplica' /\ EveryDeltaApplies' /\ RemovedIsUntracked'
  BY <1>3 DEF RemoveEntity, Restrict, KnownIsReplica, EveryDeltaApplies, RemovedIsUntracked
<1>4. ASSUME NEW c \in Clients, NEW view \in Views, UpsertClient(c, view)
      PROVE  KnownIsReplica' /\ EveryDeltaApplies' /\ RemovedIsUntracked'
  <2>1. KnownIsReplica'
    <3>1. CASE c \in DOMAIN clients
      BY <1>4, <3>1 DEF UpsertClient, KnownIsReplica, TypeOK
    <3>2. CASE c \notin DOMAIN clients
      <4>1. /\ clients' = With(clients, c, [view |-> view, known |-> {}])
            /\ replica' = With(replica, c, Nothing)
        BY <1>4, <3>2 DEF UpsertClient
      <4>2. DOMAIN Nothing = {}
        BY DEF Nothing
      <4>3. clients'[c].known = DOMAIN replica'[c]
        BY <4>1, <4>2 DEF With
      <4>4. ASSUME NEW x \in DOMAIN clients' \ {c}
            PROVE  clients'[x].known = DOMAIN replica'[x]
        BY <4>1, <4>4 DEF With, KnownIsReplica, TypeOK
      <4> QED
        BY <4>3, <4>4 DEF KnownIsReplica
    <3> QED
      BY <3>1, <3>2
  <2> QED
    BY <1>4, <2>1 DEF UpsertClient, EveryDeltaApplies, RemovedIsUntracked
<1>5. ASSUME NEW c \in Clients, RemoveClient(c)
      PROVE  KnownIsReplica' /\ EveryDeltaApplies' /\ RemovedIsUntracked'
  BY <1>5 DEF RemoveClient, Restrict, KnownIsReplica, EveryDeltaApplies, RemovedIsUntracked, TypeOK
<1>6. ASSUME NEW c \in Clients, Build(c)
      PROVE  KnownIsReplica' /\ EveryDeltaApplies' /\ RemovedIsUntracked'
  BY <1>6, BuildKeepsBelief
<1>7. CASE EndTick
  BY <1>7 DEF EndTick, KnownIsReplica, EveryDeltaApplies, RemovedIsUntracked
<1>8. CASE UNCHANGED vars
  BY <1>8 DEF vars, graph, KnownIsReplica, EveryDeltaApplies, RemovedIsUntracked
<1> QED
  BY <1>1, <1>2, <1>3, <1>4, <1>5, <1>6, <1>7, <1>8 DEF Next

LEMMA BeliefCorrect ==
  ASSUME ~ReuseIds
  PROVE  Spec => []BeliefInv
<1>1. Init => TypeOK /\ BeliefInv
  <2>1. Cardinality({}) = 0
    BY FS_EmptySet
  <2> QED
    BY <2>1, RepGraphAssumption
    DEF Init, Nothing, BeliefInv, KnownIsReplica, EveryDeltaApplies, RemovedIsUntracked, TypeOK
<1>2. TypeOK' /\ BeliefInv /\ [Next]_vars => BeliefInv'
  BY BeliefStep DEF BeliefInv
<1>3. Spec => []TypeOK
  BY GraphTypeCorrect
<1> QED
  BY <1>1, <1>2, <1>3, PTL DEF Spec

(* lib.rs:249: without ids used again in the tick that removed them, the   *)
(* graph knows exactly which entities each client has, whatever the        *)
(* budgets cut, though no client ever tells it.                            *)
THEOREM BeliefsCorrect ==
  ASSUME ~ReuseIds
  PROVE  Spec => []KnownIsReplica
<1>1. BeliefInv => KnownIsReplica
  BY DEF BeliefInv
<1> QED
  BY <1>1, BeliefCorrect, PTL

(* lib.rs:196, delta.rs:2219: under the same condition no client ever      *)
(* refuses a delta the graph has built.                                    *)
THEOREM DeltasAlwaysApply ==
  ASSUME ~ReuseIds
  PROVE  Spec => []EveryDeltaApplies
<1>1. BeliefInv => EveryDeltaApplies
  BY DEF BeliefInv
<1> QED
  BY <1>1, BeliefCorrect, PTL

-----------------------------------------------------------------------------
(* Currency *)

(* No view cuts updates or destroys. *)
NoCut == \A view \in Views : Cardinality(Ids) <= view.updates /\ Cardinality(Ids) <= view.destroys

(* A client not built in this tick: whatever it lacks of an entity is      *)
(* still marked dirty, and an entity it should lose is still to be seen.   *)
Pending(c) ==
  \A e \in DOMAIN replica[c] :
    /\ e \in DOMAIN entities \cup removed
    /\ e \in DOMAIN entities =>
         \A k \in Components \ entities[e].dirty : replica[c][e][k] = world[e][k]

Built(c) ==
  /\ DOMAIN replica[c] \subseteq Relevant(c)
  /\ \A e \in DOMAIN replica[c] : replica[c][e] = world[e]

CurrentInv ==
  \A c \in DOMAIN clients : IF c \in built THEN Built(c) ELSE Pending(c)

(* An update writes exactly the components that may differ. *)
LEMMA UpdateMakesCurrent ==
  ASSUME NEW have \in State, NEW now \in State, NEW dirty \in SUBSET Components,
         \A k \in Components \ dirty : have[k] = now[k]
  PROVE  Over(Restrict(now, dirty), have) = now
<1> DEFINE made == Over(Restrict(now, dirty), have)
<1>1. made \in [Components -> Values] /\ now \in [Components -> Values]
  BY DEF State, Over, Restrict
<1>2. \A k \in Components : made[k] = now[k]
  BY DEF State, Over, Restrict
<1> QED
  BY <1>1, <1>2

LEMMA BuildMakesCurrent ==
  ASSUME NoCut, BeliefInv, CurrentInv, NEW c \in Clients, Build(c)
  PROVE  Built(c)'
<1>1. c \in DOMAIN clients /\ c \notin built
  BY DEF Build
<1>2. Pending(c) /\ clients[c].known = DOMAIN replica[c] /\ clients[c] \in ClientType
  BY <1>1 DEF CurrentInv, BeliefInv, KnownIsReplica, TypeOK, ClientType
<1>3. /\ clients[c].view.updates \in Nat /\ Cardinality(Ids) <= clients[c].view.updates
      /\ clients[c].view.destroys \in Nat /\ Cardinality(Ids) <= clients[c].view.destroys
  BY <1>2, RepGraphAssumption DEF NoCut, ClientType
<1>4. Destroys(c) = (clients[c].known \ Relevant(c)) \cup (clients[c].known \cap removed)
  <2>1. (clients[c].known \ Relevant(c)) \cup (clients[c].known \cap removed) \in SUBSET Ids
    BY <1>2 DEF ClientType
  <2> QED
    BY <1>3, <2>1, BudgetKeepsAll DEF Destroys
<1>5. Updates(c) = {e \in Relevant(c) \cap clients[c].known : entities[e].dirty # {}}
  <2>1. {e \in Relevant(c) \cap clients[c].known : entities[e].dirty # {}} \in SUBSET Ids
    BY <1>2 DEF ClientType
  <2> QED
    BY <1>3, <2>1, BudgetKeepsAll DEF Updates
<1>6. replica'[c] = Applied(c)
  BY <1>1, DeltaApplies DEF Build, BeliefInv, TypeOK
<1>7. DOMAIN Applied(c) \subseteq Relevant(c)
  BY <1>2, <1>4, BudgetKeepsPart DEF Applied, Creates, NewTo
<1>8. Relevant(c)' = Relevant(c) /\ world' = world
  BY <1>1, <1>2 DEF Build, Relevant, ClientType
<1>9. ASSUME NEW e \in DOMAIN Applied(c)
      PROVE  Applied(c)[e] = world[e]
  <2>1. e \in DOMAIN entities /\ e \in DOMAIN world
    BY <1>7 DEF Relevant, BeliefInv, TypeOK
  <2>2. CASE e \in Creates(c)
    BY <2>2 DEF Applied
  <2>3. CASE e \notin Creates(c)
    <3>1. e \in DOMAIN replica[c]
      BY <2>3 DEF Applied
    <3>2. replica[c][e] \in State /\ world[e] \in State /\ entities[e].dirty \in SUBSET Components
      BY <1>1, <2>1, <3>1 DEF BeliefInv, TypeOK
    <3>3. \A k \in Components \ entities[e].dirty : replica[c][e][k] = world[e][k]
      BY <1>2, <2>1, <3>1 DEF Pending
    <3>4. CASE e \in Updates(c)
      <4>1. Applied(c)[e] = Over(Restrict(world[e], entities[e].dirty), replica[c][e])
        BY <2>3, <3>4 DEF Applied
      <4> QED
        BY <4>1, <3>2, <3>3, UpdateMakesCurrent
    <3>5. CASE e \notin Updates(c)
      <4>1. entities[e].dirty = {}
        BY <1>2, <1>5, <1>7, <3>1, <3>5
      <4>2. Applied(c)[e] = replica[c][e]
        BY <2>3, <3>5 DEF Applied
      <4> QED
        BY <3>2, <3>3, <4>1, <4>2 DEF State
    <3> QED
      BY <3>4, <3>5
  <2> QED
    BY <2>2, <2>3
<1> QED
  BY <1>6, <1>7, <1>8, <1>9 DEF Built

LEMMA ChangeKeepsPending ==
  ASSUME ~ReuseIds, BeliefInv, CurrentInv,
         NEW e \in Ids, NEW pos \in Positions, NEW d \in SUBSET Components,
         NEW new \in [d -> Values], Change(e, pos, new),
         NEW c \in DOMAIN clients
  PROVE  Pending(c)'
<1>1. built = {} /\ e \notin removed /\ UpdateEntity(e, pos, d) /\ UNCHANGED <<removed, replica>>
  BY DEF Change
<1>2. Pending(c)
  BY <1>1 DEF CurrentInv
<1> SUFFICES ASSUME NEW x \in DOMAIN replica[c]
             PROVE  /\ x \in DOMAIN entities' \cup removed
                    /\ x \in DOMAIN entities' =>
                         \A k \in Components \ entities'[x].dirty : replica[c][x][k] = world'[x][k]
  BY <1>1 DEF Pending
<1>3. DOMAIN entities \subseteq DOMAIN entities'
  BY <1>1 DEF UpdateEntity, With
<1>4. CASE x = e
  <2>1. e \in DOMAIN entities /\ e \in DOMAIN world /\ world[e] \in State
    BY <1>1, <1>2, <1>4 DEF Pending, BeliefInv, TypeOK
  <2>2. entities'[e].dirty = entities[e].dirty \cup d
    BY <1>1, <2>1 DEF UpdateEntity, Full, With, MarkDirty
  <2>3. world'[e] = Over(new, world[e])
    BY <2>1 DEF Change, With
  <2>4. \A k \in Components \ entities'[e].dirty : world'[e][k] = world[e][k]
    BY <2>1, <2>2, <2>3 DEF Over, State
  <2> QED
    BY <1>2, <1>3, <1>4, <2>1, <2>2, <2>4 DEF Pending
<1>5. CASE x # e
  <2>1. x \in DOMAIN entities' => x \in DOMAIN entities /\ entities'[x] = entities[x]
    BY <1>1, <1>5 DEF UpdateEntity, With
  <2>2. x \in DOMAIN world => world'[x] = world[x]
    BY <1>5 DEF Change, With
  <2> QED
    BY <1>2, <1>3, <2>1, <2>2 DEF Pending, BeliefInv, TypeOK
<1> QED
  BY <1>4, <1>5

LEMMA CurrentStep ==
  ASSUME ~ReuseIds, NoCut, BeliefInv, CurrentInv, [Next]_vars
  PROVE  CurrentInv'
<1>1. ASSUME NEW e \in Ids, NEW pos \in Positions, NEW d \in SUBSET Components,
             NEW new \in [d -> Values], Change(e, pos, new)
      PROVE  CurrentInv'
  BY <1>1, ChangeKeepsPending DEF CurrentInv, Change
<1>2. ASSUME NEW e \in Ids, NEW n \in Priorities, SetEntityPriority(e, n)
      PROVE  CurrentInv'
  <2>1. DOMAIN entities' = DOMAIN entities /\ \A x \in DOMAIN entities : entities'[x].dirty = entities[x].dirty
    BY <1>2 DEF SetEntityPriority, BeliefInv, TypeOK
  <2> QED
    BY <1>2, <2>1 DEF SetEntityPriority, CurrentInv, Pending
<1>3. ASSUME NEW e \in Ids, RemoveEntity(e)
      PROVE  CurrentInv'
  <2> SUFFICES ASSUME NEW c \in DOMAIN clients, NEW x \in DOMAIN replica[c]
               PROVE  /\ x \in DOMAIN entities' \cup removed'
                      /\ x \in DOMAIN entities' =>
                           \A k \in Components \ entities'[x].dirty : replica[c][x][k] = world'[x][k]
    <3>1. /\ clients' = clients /\ replica' = replica /\ built = {} /\ built' = {}
      BY <1>3 DEF RemoveEntity
    <3>2. CurrentInv' <=> \A c \in DOMAIN clients : Pending(c)'
      BY <3>1 DEF CurrentInv
    <3> QED
      BY <3>1, <3>2 DEF Pending
  <2>1. Pending(c)
    BY <1>3 DEF RemoveEntity, CurrentInv
  <2>2. x \in DOMAIN entities' => x # e /\ x \in DOMAIN entities /\ entities'[x] = entities[x]
    BY <1>3 DEF RemoveEntity, Restrict
  <2>3. x \in DOMAIN world \ {e} => world'[x] = world[x]
    BY <1>3 DEF RemoveEntity, Restrict
  <2>4. x \in DOMAIN entities' \cup removed'
    BY <1>3, <2>1 DEF RemoveEntity, Restrict, Pending
  <2> QED
    BY <2>1, <2>2, <2>3, <2>4 DEF Pending, BeliefInv, TypeOK
<1>4. ASSUME NEW c \in Clients, NEW view \in Views, UpsertClient(c, view)
      PROVE  CurrentInv'
  <2>1. CASE c \in DOMAIN clients
    BY <1>4, <2>1 DEF UpsertClient, CurrentInv, Pending
  <2>2. CASE c \notin DOMAIN clients
    <3>1. /\ clients' = With(clients, c, [view |-> view, known |-> {}])
          /\ replica' = With(replica, c, Nothing)
          /\ DOMAIN Nothing = {}
      BY <1>4, <2>2 DEF UpsertClient, Nothing
    <3>2. DOMAIN replica'[c] = {} /\ \A x \in DOMAIN clients : replica'[x] = replica[x]
      BY <2>2, <3>1 DEF With, BeliefInv, TypeOK
    <3>3. /\ DOMAIN clients' = DOMAIN clients \cup {c}
          /\ built = {} /\ UNCHANGED <<entities, removed, world, built>>
      BY <1>4, <3>1 DEF UpsertClient, With
    <3>4. Pending(c)'
      BY <3>2 DEF Pending
    <3>5. ASSUME NEW x \in DOMAIN clients
          PROVE  Pending(x)'
      <4>1. Pending(x)
        BY <3>3 DEF CurrentInv
      <4> QED
        BY <3>2, <3>3, <4>1 DEF Pending
    <3> QED
      BY <3>3, <3>4, <3>5 DEF CurrentInv
  <2> QED
    BY <2>1, <2>2
<1>5. ASSUME NEW c \in Clients, RemoveClient(c)
      PROVE  CurrentInv'
  BY <1>5 DEF RemoveClient, Restrict, CurrentInv, Pending, BeliefInv, TypeOK
<1>6. ASSUME NEW c \in Clients, Build(c)
      PROVE  CurrentInv'
  <2>1. Built(c)'
    BY <1>6, BuildMakesCurrent
  <2>2. ASSUME NEW x \in DOMAIN clients \ {c}
        PROVE  IF x \in built' THEN Built(x)' ELSE Pending(x)'
    <3>1. replica'[x] = replica[x] /\ clients'[x] = clients[x]
      BY <1>6, <2>2 DEF Build, BeliefInv, TypeOK
    <3>2. UNCHANGED <<entities, removed, world>> /\ (x \in built' <=> x \in built)
      BY <1>6, <2>2 DEF Build
    <3> QED
      BY <2>2, <3>1, <3>2 DEF CurrentInv, Built, Pending, Relevant
  <2> QED
    BY <1>6, <2>1, <2>2 DEF CurrentInv, Build
<1>7. CASE EndTick
  BY <1>7 DEF EndTick, CurrentInv, Built, Pending, Relevant
<1>8. CASE UNCHANGED vars
  BY <1>8 DEF vars, graph, CurrentInv, Built, Pending, Relevant
<1> QED
  BY <1>1, <1>2, <1>3, <1>4, <1>5, <1>6, <1>7, <1>8 DEF Next

(* lib.rs:264: views that cut no updates and no destroys see every change, *)
(* whatever their create budgets, however the clients come and go, and     *)
(* whatever the cap on tracked entities keeps out.                         *)
THEOREM BuiltClientsAreCurrent ==
  ASSUME ~ReuseIds, NoCut
  PROVE  Spec => []BuiltClientIsCurrent
<1>1. Init => CurrentInv
  BY DEF Init, Nothing, CurrentInv
<1>2. BeliefInv /\ CurrentInv /\ [Next]_vars => CurrentInv'
  BY CurrentStep
<1>3. BeliefInv /\ CurrentInv => BuiltClientIsCurrent
  BY DEF BeliefInv, TypeOK, CurrentInv, Built, BuiltClientIsCurrent
<1> QED
  BY <1>1, <1>2, <1>3, BeliefCorrect, PTL DEF Spec
=============================================================================
