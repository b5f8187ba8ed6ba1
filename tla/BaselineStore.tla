---------------------------- MODULE BaselineStore ---------------------------
(***************************************************************************)
(* codec::BaselineStore<T> (src/codec/src/baseline.rs): a fixed array of   *)
(* slots used as a ring, keyed by snapshot tick.  It keeps the snapshots   *)
(* against which deltas are encoded (server) or applied (client), so a     *)
(* wrong slot is a delta applied to the wrong snapshot.                    *)
(*                                                                         *)
(* A rejected insert (BaselineError::OutOfOrder) changes nothing and is a  *)
(* stuttering step.  The lookups change nothing and are operators.         *)
(***************************************************************************)
EXTENDS Integers, Sequences

CONSTANTS
  Capacity,  (* entries.len(), a NonZeroUsize                    *)
  Ticks,     (* the SnapshotTicks the caller may insert at       *)
  Values,    (* the values of type T                             *)
  None       (* Option::None                                     *)

ASSUME CapacityAssumption == Capacity \in Nat \ {0}
ASSUME TicksAssumption == Ticks \subseteq Nat
ASSUME NoneAssumption ==
  /\ None \notin Nat
  /\ None \notin Values
  /\ None \notin [tick : Ticks, value : Values]

VARIABLES
  entries,   (* Vec<Option<Entry<T>>>, indexed from 0            *)
  head,      (* the slot of the oldest entry                     *)
  len,       (* how many slots are occupied                      *)
  last_tick  (* the tick of the last accepted insert, or None    *)

vars == <<entries, head, len, last_tick>>

Slots == 0 .. Capacity - 1
Entry == [tick : Ticks, value : Values]

TypeOK ==
  /\ entries \in [Slots -> Entry \cup {None}]
  /\ head \in Slots
  /\ len \in 0 .. Capacity
  /\ last_tick \in Ticks \cup {None}

-----------------------------------------------------------------------------
(* BaselineStore::new *)
Init ==
  /\ entries = [i \in Slots |-> None]
  /\ head = 0
  /\ len = 0
  /\ last_tick = None

(* Mutant: the comparison lets a tick be inserted again. *)
OutOfOrder_AllowsEqual(tick) == last_tick # None /\ tick < last_tick

(* The early return of insert(). *)
OutOfOrder(tick) == last_tick # None /\ tick <= last_tick

(* The slot of the i-th entry, counted from the oldest as 0. *)
Slot(i) == (head + i) % Capacity

(* Mutant: a full ring still takes the branch that grows it. *)
InsertFree_NoBound(t, v) ==
  /\ entries' = [entries EXCEPT ![Slot(len)] = [tick |-> t, value |-> v]]
  /\ len' = len + 1
  /\ UNCHANGED head

InsertFree(t, v) ==
  /\ len < Capacity
  /\ entries' = [entries EXCEPT ![Slot(len)] = [tick |-> t, value |-> v]]
  /\ len' = len + 1
  /\ UNCHANGED head

(* Mutant: overwriting the oldest entry leaves head on the newest one. *)
InsertFull_KeepsHead(t, v) ==
  /\ len = Capacity
  /\ entries' = [entries EXCEPT ![head] = [tick |-> t, value |-> v]]
  /\ UNCHANGED <<head, len>>

InsertFull(t, v) ==
  /\ len = Capacity
  /\ entries' = [entries EXCEPT ![head] = [tick |-> t, value |-> v]]
  /\ head' = Slot(1)
  /\ UNCHANGED len

Insert(t, v) ==
  /\ ~ OutOfOrder(t)
  /\ InsertFree(t, v) \/ InsertFull(t, v)
  /\ last_tick' = t

Next == \E t \in Ticks, v \in Values : Insert(t, v)

Spec == Init /\ [][Next]_vars

-----------------------------------------------------------------------------
(* iter(): the entries from the oldest to the newest.  The code skips      *)
(* empty slots (filter_map); RingInv says that there are none to skip.     *)
Iter == [i \in 1 .. len |-> entries[Slot(i - 1)]]

(* get(tick): the first entry iter() yields at this tick. *)
Get(tick) ==
  LET found == {i \in 1 .. len : Iter[i].tick = tick}
  IN  IF found = {} THEN None
      ELSE Iter[CHOOSE i \in found : \A j \in found : i <= j].value

(* Mutant: the scan is not reversed. *)
LatestAtOrBefore_FromOldest(tick) ==
  LET found == {i \in 1 .. len : Iter[i].tick <= tick}
  IN  IF found = {} THEN None
      ELSE Iter[CHOOSE i \in found : \A j \in found : i <= j].tick

(* latest_at_or_before(tick), and select_baseline_tick, which returns its  *)
(* tick: the first entry at or before tick of a scan from the newest.      *)
LatestAtOrBefore(tick) ==
  LET found == {i \in 1 .. len : Iter[i].tick <= tick}
  IN  IF found = {} THEN None
      ELSE Iter[CHOOSE i \in found : \A j \in found : j <= i].tick

-----------------------------------------------------------------------------
(* The ring's shape: the occupied slots are the len slots from head on     *)
(* (insert() writes a slot, moves head and counts len in separate          *)
(* assignments), their ticks strictly increase across the wrap-around, the *)
(* newest is last_tick, and head leaves 0 only once the ring is full.      *)
RingInv ==
  /\ len < Capacity => head = 0
  /\ last_tick = None <=> len = 0
  /\ \A s \in Slots : entries[s] = None <=> \A i \in 0 .. len - 1 : Slot(i) # s
  /\ \A i, j \in 0 .. len - 1 :
       i < j => entries[Slot(i)].tick < entries[Slot(j)].tick
  /\ len > 0 => entries[Slot(len - 1)].tick = last_tick

(* The two lookups agree with their order-free meaning, for every tick the *)
(* caller may ask for: get finds a value exactly at the stored ticks, and  *)
(* the scan from the newest entry finds the greatest stored tick that is   *)
(* not after the acknowledged one, so no newer usable baseline is missed.  *)
LookupsFindTheRightBaseline ==
  LET Stored == {e \in {entries[s] : s \in Slots} : e # None}
  IN  \A t \in Ticks :
        /\ Get(t) = None <=> \A e \in Stored : e.tick # t
        /\ Get(t) # None => [tick |-> t, value |-> Get(t)] \in Stored
        /\ LatestAtOrBefore(t) = None <=> \A e \in Stored : e.tick > t
        /\ LatestAtOrBefore(t) # None =>
             /\ LatestAtOrBefore(t) <= t
             /\ Get(LatestAtOrBefore(t)) # None
             /\ \A e \in Stored : e.tick <= t => e.tick <= LatestAtOrBefore(t)

(* The ring implements the window of recent baselines: an insert appends   *)
(* exactly the new baseline and evicts exactly the oldest one of a full    *)
(* ring, whatever the position of head.                                    *)
Recent == INSTANCE RecentBaselines WITH window <- Iter
ImplementsRecentBaselines == Recent!Spec
=============================================================================
