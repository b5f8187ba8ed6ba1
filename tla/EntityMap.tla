------------------------------ MODULE EntityMap ------------------------------
(***************************************************************************)
(* The map between the entities of a Bevy world and the ids on the wire    *)
(* (src/sdec-bevy/src/mapping.rs): [next_id, to_id, to_entity].            *)
(***************************************************************************)
EXTENDS Naturals, FiniteSets

CONSTANT MaxId   (* u32::MAX *)
ASSUME MaxIdAssumption == MaxId \in Nat \ {0}

EmptyMap == [next_id |-> 0, to_id |-> <<>>, to_entity |-> <<>>]

AtMost(a, b) == IF a <= b THEN a ELSE b
AtLeast(a, b) == IF a >= b THEN a ELSE b

(* HashMap::insert, HashMap::remove and HashMap::extend *)
With(f, k, v) == [x \in DOMAIN f \cup {k} |-> IF x = k THEN v ELSE f[x]]
Without(f, k) == [x \in DOMAIN f \ {k} |-> f[x]]
Over(g, f) == [x \in DOMAIN f \cup DOMAIN g |-> IF x \in DOMAIN g THEN g[x] ELSE f[x]]

Known(m, entity) == entity \in DOMAIN m.to_id

(* Mutant: an id is given out again. *)
EntityId_Repeats(m, entity) ==
  IF Known(m, entity) THEN m
  ELSE LET next == AtLeast(m.next_id, 1) IN
       [next_id |-> next,
        to_id |-> With(m.to_id, entity, next),
        to_entity |-> With(m.to_entity, next, entity)]

(* entity_id: next_id saturates, so the last id is given out for ever. *)
EntityId(m, entity) ==
  IF Known(m, entity) THEN m
  ELSE LET next == AtMost(m.next_id + 1, MaxId) IN
       [next_id |-> next,
        to_id |-> With(m.to_id, entity, next),
        to_entity |-> With(m.to_entity, next, entity)]

(* Mutant: the ids of the other side are not skipped. *)
Register_KeepsNextId(m, id, entity) ==
  [m EXCEPT !.to_id = With(@, entity, id), !.to_entity = With(@, id, entity)]

Register(m, id, entity) ==
  [next_id |-> AtLeast(m.next_id, id),
   to_id |-> With(m.to_id, entity, id),
   to_entity |-> With(m.to_entity, id, entity)]

(* Mutant: only one of the two ways is removed. *)
Unregister_OneWay(m, id) ==
  IF id \notin DOMAIN m.to_entity THEN m
  ELSE [m EXCEPT !.to_id = Without(@, m.to_entity[id])]

Unregister(m, id) ==
  IF id \notin DOMAIN m.to_entity THEN m
  ELSE [next_id |-> m.next_id,
        to_id |-> Without(m.to_id, m.to_entity[id]),
        to_entity |-> Without(m.to_entity, id)]

(* Every id leads to an entity that leads back to it. *)
Agree(m) ==
  \A id \in DOMAIN m.to_entity :
    /\ m.to_entity[id] \in DOMAIN m.to_id
    /\ m.to_id[m.to_entity[id]] = id
=============================================================================
