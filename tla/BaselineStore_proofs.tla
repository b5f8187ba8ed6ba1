------------------------ MODULE BaselineStore_proofs ------------------------
(***************************************************************************)
(* Proofs about the baseline ring, for every capacity, every set of ticks  *)
(* and every set of values.                                                *)
(***************************************************************************)
EXTENDS BaselineStore, NaturalsOrder, SequenceTheorems, TLAPS

(* The ring's index arithmetic, without the remainder: one step of at most *)
(* Capacity from a slot either stays inside the array or wraps once.       *)
LEMMA WrapsOnce ==
  ASSUME NEW a \in Slots, NEW i \in 0 .. Capacity
  PROVE  (a + i) % Capacity = IF a + i < Capacity THEN a + i ELSE a + i - Capacity
  BY CapacityAssumption DEF Slots

(* Slot(i) is a slot, and different positions have different slots. *)
LEMMA SlotsDiffer ==
  ASSUME head \in Slots
  PROVE  /\ \A i \in 0 .. Capacity : Slot(i) \in Slots
         /\ Slot(0) = head
         /\ Slot(Capacity) = head
         /\ \A i, j \in 0 .. Capacity - 1 : i # j => Slot(i) # Slot(j)
<1>1. \A i \in 0 .. Capacity :
        Slot(i) = IF head + i < Capacity THEN head + i ELSE head + i - Capacity
  BY WrapsOnce DEF Slot
<1>2. QED
  BY <1>1, CapacityAssumption DEF Slots

(* Every slot is the slot of some position. *)
LEMMA SlotsCover ==
  ASSUME head \in Slots, NEW s \in Slots
  PROVE  \E i \in 0 .. Capacity - 1 : Slot(i) = s
<1> DEFINE i == IF s >= head THEN s - head ELSE s - head + Capacity
<1>1. i \in 0 .. Capacity - 1
  BY CapacityAssumption DEF Slots
<1>2. Slot(i) = IF head + i < Capacity THEN head + i ELSE head + i - Capacity
  <2>1. i \in 0 .. Capacity
    BY <1>1, CapacityAssumption
  <2> HIDE DEF i
  <2>2. QED
    BY <2>1, WrapsOnce DEF Slot
<1>3. Slot(i) = s
  BY <1>2, CapacityAssumption DEF Slots
<1>4. QED
  BY <1>1, <1>3

(* After a full ring has overwritten its oldest slot and moved head, every *)
(* position has moved one down and the overwritten slot is the last one.   *)
LEMMA HeadShifts ==
  ASSUME head \in Slots, head' = Slot(1)
  PROVE  /\ head' \in Slots
         /\ \A i \in 0 .. Capacity - 1 : Slot(i)' = Slot(i + 1)
<1>1. \A i \in 0 .. Capacity :
        Slot(i) = IF head + i < Capacity THEN head + i ELSE head + i - Capacity
  BY WrapsOnce DEF Slot
<1>2. head' \in Slots
  BY SlotsDiffer, CapacityAssumption
<1>3. \A i \in 0 .. Capacity :
        Slot(i)' = IF head' + i < Capacity THEN head' + i ELSE head' + i - Capacity
  BY <1>2, WrapsOnce DEF Slot
<1>4. ASSUME NEW i \in 0 .. Capacity - 1
      PROVE  Slot(i)' = Slot(i + 1)
  <2>1. head' = IF head + 1 < Capacity THEN head + 1 ELSE head + 1 - Capacity
    BY <1>1, CapacityAssumption
  <2>2. Slot(i)' = IF head' + i < Capacity THEN head' + i ELSE head' + i - Capacity
    BY <1>3, CapacityAssumption
  <2>3. Slot(i + 1) = IF head + i + 1 < Capacity THEN head + i + 1 ELSE head + i + 1 - Capacity
    BY <1>1, CapacityAssumption DEF Slots
  <2>4. QED
    BY <2>1, <2>2, <2>3, CapacityAssumption DEF Slots
<1>5. QED
  BY <1>2, <1>4

-----------------------------------------------------------------------------
(* Type correctness and the ring's shape are inductive together: the       *)
(* accepted insert writes the one slot that is free or holds the oldest    *)
(* baseline, and its tick is above last_tick, the newest tick stored.      *)
IInv == TypeOK /\ RingInv

LEMMA InitIInv == Init => IInv
<1> SUFFICES ASSUME Init PROVE IInv
  OBVIOUS
<1>1. TypeOK
  BY CapacityAssumption DEF Init, TypeOK, Slots
<1>2. RingInv
  BY CapacityAssumption DEF Init, RingInv, Slots
<1>3. QED
  BY <1>1, <1>2 DEF IInv

LEMMA InsertFreeIInv ==
  ASSUME IInv, NEW t \in Ticks, NEW v \in Values,
         ~ OutOfOrder(t), InsertFree(t, v), last_tick' = t
  PROVE  IInv'
<1> DEFINE e == [tick |-> t, value |-> v]
<1> USE DEF IInv
<1>1. /\ e \in Entry
      /\ e # None
      /\ e.tick = t
      /\ t \in Nat
      /\ t # None
  BY NoneAssumption, TicksAssumption DEF Entry
<1>2. /\ head \in Slots
      /\ len \in 0 .. Capacity - 1
      /\ head' = head
      /\ len' = len + 1
      /\ len' \in 0 .. Capacity
  BY CapacityAssumption DEF TypeOK, InsertFree
<1>3. \A i : Slot(i)' = Slot(i)
  BY <1>2 DEF Slot
<1>4. /\ Slot(len) \in Slots
      /\ entries' = [entries EXCEPT ![Slot(len)] = e]
  BY <1>2, SlotsDiffer, CapacityAssumption DEF InsertFree
<1>5. /\ entries'[Slot(len)] = e
      /\ \A s \in Slots : s # Slot(len) => entries'[s] = entries[s]
  BY <1>4 DEF TypeOK
<1>6. \A i \in 0 .. len - 1 : Slot(i) \in Slots /\ Slot(i) # Slot(len)
  BY <1>2, SlotsDiffer, CapacityAssumption
<1>7. TypeOK'
  BY <1>1, <1>2, <1>4 DEF TypeOK
<1>8. \A i \in 0 .. len - 1 : entries[Slot(i)].tick < t
  <2>1. CASE len = 0
    BY <2>1
  <2>2. CASE len > 0
    <3>1. last_tick \in Nat /\ last_tick < t /\ entries[Slot(len - 1)].tick = last_tick
      BY <2>2, <1>1, <1>2, TicksAssumption DEF RingInv, OutOfOrder, TypeOK
    <3>2. \A i \in 0 .. len - 1 : entries[Slot(i)] \in Entry
      BY <1>2, <1>6 DEF RingInv, TypeOK
    <3>3. \A i \in 0 .. len - 1 : entries[Slot(i)].tick \in Nat
      BY <3>2, TicksAssumption DEF Entry
    <3>4. \A i \in 0 .. len - 1 : i # len - 1 => entries[Slot(i)].tick < entries[Slot(len - 1)].tick
      BY <2>2, <1>2 DEF RingInv
    <3>5. QED
      BY <3>1, <3>3, <3>4, <1>1
  <2>3. QED
    BY <2>1, <2>2, <1>2
<1>9. RingInv'
  <2>1. (len < Capacity => head = 0)'
    BY <1>2, CapacityAssumption DEF RingInv
  <2>2. (last_tick = None <=> len = 0)'
    BY <1>1, <1>2
  <2>3. (\A s \in Slots : entries[s] = None <=> \A i \in 0 .. len - 1 : Slot(i) # s)'
    <3> SUFFICES ASSUME NEW s \in Slots
                 PROVE  entries'[s] = None <=> \A i \in 0 .. len : Slot(i) # s
      BY <1>2, <1>3
    <3>1. CASE s = Slot(len)
      BY <3>1, <1>1, <1>2, <1>5
    <3>2. CASE s # Slot(len)
      <4>1. entries[s] = None <=> \A i \in 0 .. len - 1 : Slot(i) # s
        BY DEF RingInv
      <4>2. (\A i \in 0 .. len : Slot(i) # s) <=> \A i \in 0 .. len - 1 : Slot(i) # s
        BY <3>2, <1>2
      <4>3. QED
        BY <4>1, <4>2, <3>2, <1>5
    <3>3. QED
      BY <3>1, <3>2
  <2>4. (\A i, j \in 0 .. len - 1 :
           i < j => entries[Slot(i)].tick < entries[Slot(j)].tick)'
    <3> SUFFICES ASSUME NEW i \in 0 .. len, NEW j \in 0 .. len, i < j
                 PROVE  entries'[Slot(i)].tick < entries'[Slot(j)].tick
      BY <1>2, <1>3
    <3>1. i \in 0 .. len - 1 /\ entries'[Slot(i)] = entries[Slot(i)]
      BY <1>2, <1>5, <1>6
    <3>2. CASE j = len
      BY <3>1, <3>2, <1>1, <1>5, <1>8
    <3>3. CASE j # len
      <4>1. j \in 0 .. len - 1 /\ entries'[Slot(j)] = entries[Slot(j)]
        BY <3>3, <1>2, <1>5, <1>6
      <4>2. QED
        BY <3>1, <4>1 DEF RingInv
    <3>4. QED
      BY <3>2, <3>3
  <2>5. (len > 0 => entries[Slot(len - 1)].tick = last_tick)'
    BY <1>1, <1>2, <1>3, <1>5
  <2>6. QED
    BY <2>1, <2>2, <2>3, <2>4, <2>5 DEF RingInv
<1>10. QED
  BY <1>7, <1>9

LEMMA InsertFullIInv ==
  ASSUME IInv, NEW t \in Ticks, NEW v \in Values,
         ~ OutOfOrder(t), InsertFull(t, v), last_tick' = t
  PROVE  IInv'
<1> DEFINE e == [tick |-> t, value |-> v]
<1> USE DEF IInv
<1>1. /\ e \in Entry
      /\ e # None
      /\ e.tick = t
      /\ t \in Nat
      /\ t # None
  BY NoneAssumption, TicksAssumption DEF Entry
<1>2. /\ head \in Slots
      /\ len = Capacity
      /\ len' = Capacity
      /\ head' = Slot(1)
      /\ Capacity \in Nat \ {0}
  BY CapacityAssumption DEF TypeOK, InsertFull
<1>3. /\ head' \in Slots
      /\ \A i \in 0 .. Capacity - 1 : Slot(i)' = Slot(i + 1)
  BY <1>2, HeadShifts
<1>4. /\ Slot(0) = head
      /\ Slot(Capacity) = head
      /\ \A i \in 1 .. Capacity - 1 : Slot(i) \in Slots /\ Slot(i) # head
  BY <1>2, SlotsDiffer
<1>5. /\ entries'[head] = e
      /\ \A s \in Slots : s # head => entries'[s] = entries[s]
  BY <1>2 DEF TypeOK, InsertFull
<1>6. TypeOK'
  BY <1>1, <1>2, <1>3 DEF TypeOK, InsertFull
<1>7. /\ last_tick \in Nat
      /\ last_tick < t
      /\ entries[Slot(Capacity - 1)].tick = last_tick
  <2>1. last_tick # None /\ entries[Slot(Capacity - 1)].tick = last_tick
    BY <1>2 DEF RingInv
  <2>2. last_tick \in Nat
    BY <2>1, TicksAssumption DEF TypeOK
  <2>3. last_tick < t
    BY <2>1, <2>2, <1>1 DEF OutOfOrder
  <2>4. QED
    BY <2>1, <2>2, <2>3
<1>8. \A i \in 0 .. Capacity - 1 : entries[Slot(i)].tick \in Nat
  <2>1. \A i \in 0 .. Capacity - 1 : Slot(i) \in Slots
    BY <1>2, <1>4
  <2>2. \A i \in 0 .. Capacity - 1 : entries[Slot(i)] # None
    BY <2>1, <1>2 DEF RingInv
  <2>3. QED
    BY <2>1, <2>2, TicksAssumption DEF TypeOK, Entry
<1>9. \A i \in 0 .. Capacity - 1 : entries[Slot(i)].tick < t
  <2>1. \A i \in 0 .. Capacity - 1 :
          i # Capacity - 1 => entries[Slot(i)].tick < entries[Slot(Capacity - 1)].tick
    BY <1>2 DEF RingInv
  <2>2. QED
    BY <2>1, <1>1, <1>7, <1>8
<1>10. RingInv'
  <2>1. (len < Capacity => head = 0)'
    BY <1>2
  <2>2. (last_tick = None <=> len = 0)'
    BY <1>1, <1>2
  <2>3. (\A s \in Slots : entries[s] = None <=> \A i \in 0 .. len - 1 : Slot(i) # s)'
    <3> SUFFICES ASSUME NEW s \in Slots
                 PROVE  /\ entries'[s] # None
                        /\ \E i \in 0 .. Capacity - 1 : Slot(i)' = s
      BY <1>2
    <3>1. CASE s = head
      <4>1. Slot(Capacity - 1)' = s
        BY <3>1, <1>2, <1>3, <1>4
      <4>2. QED
        BY <3>1, <4>1, <1>1, <1>2, <1>5
    <3>2. CASE s # head
      <4>1. PICK i \in 0 .. Capacity - 1 : Slot(i) = s
        BY <1>2, SlotsCover
      <4>2. entries[s] # None
        BY <4>1, <1>2 DEF RingInv
      <4>3. i \in 1 .. Capacity - 1
        BY <4>1, <3>2, <1>2, <1>4
      <4>4. i - 1 \in 0 .. Capacity - 1 /\ Slot(i - 1)' = s
        BY <4>1, <4>3, <1>2, <1>3
      <4>5. QED
        BY <4>2, <4>4, <3>2, <1>5
    <3>3. QED
      BY <3>1, <3>2
  <2>4. (\A i, j \in 0 .. len - 1 :
           i < j => entries[Slot(i)].tick < entries[Slot(j)].tick)'
    <3> SUFFICES ASSUME NEW i \in 0 .. Capacity - 1, NEW j \in 0 .. Capacity - 1, i < j
                 PROVE  entries'[Slot(i + 1)].tick < entries'[Slot(j + 1)].tick
      BY <1>2, <1>3
    <3>1. /\ i + 1 \in 1 .. Capacity - 1
          /\ i + 1 < j + 1
          /\ entries'[Slot(i + 1)] = entries[Slot(i + 1)]
      BY <1>2, <1>4, <1>5
    <3>2. CASE j + 1 = Capacity
      BY <3>1, <3>2, <1>1, <1>2, <1>4, <1>5, <1>9
    <3>3. CASE j + 1 # Capacity
      <4>1. j + 1 \in 1 .. Capacity - 1 /\ entries'[Slot(j + 1)] = entries[Slot(j + 1)]
        BY <3>3, <1>2, <1>4, <1>5
      <4>2. QED
        BY <3>1, <4>1, <1>2 DEF RingInv
    <3>4. QED
      BY <3>2, <3>3
  <2>5. (len > 0 => entries[Slot(len - 1)].tick = last_tick)'
    BY <1>1, <1>2, <1>3, <1>4, <1>5
  <2>6. QED
    BY <2>1, <2>2, <2>3, <2>4, <2>5 DEF RingInv
<1>11. QED
  BY <1>6, <1>10

LEMMA StepIInv == IInv /\ [Next]_vars => IInv'
<1> SUFFICES ASSUME IInv, [Next]_vars PROVE IInv'
  OBVIOUS
<1>1. ASSUME NEW t \in Ticks, NEW v \in Values, Insert(t, v)
      PROVE  IInv'
  BY <1>1, InsertFreeIInv, InsertFullIInv DEF Insert
<1>2. CASE UNCHANGED vars
  BY <1>2 DEF vars, IInv, TypeOK, RingInv, Slot
<1>3. QED
  BY <1>1, <1>2 DEF Next

(* Every reachable ring is well typed and well formed. *)
THEOREM RingCorrect == Spec => [](TypeOK /\ RingInv)
<1>1. Spec => []IInv
  BY InitIInv, StepIInv, PTL DEF Spec
<1>2. QED
  BY <1>1, PTL DEF IInv

(* The types of the ring's fields (baseline.rs:18) in every reachable      *)
(* state.                                                                  *)
THEOREM RingTypeCorrect == Spec => []TypeOK
BY RingCorrect, PTL

-----------------------------------------------------------------------------
(* What the scans see: the positions of iter() and the occupied slots are  *)
(* the same entries, and a later position has a greater tick.              *)
LEMMA IterEntries ==
  ASSUME IInv
  PROVE  /\ len \in Nat
         /\ \A i \in 1 .. len : /\ Iter[i] \in Entry
                                /\ Iter[i] # None
                                /\ Iter[i].tick \in Nat
                                /\ Iter[i] \in {entries[s] : s \in Slots}
         /\ \A e \in {entries[s] : s \in Slots} :
              e # None => \E i \in 1 .. len : Iter[i] = e
         /\ \A i, j \in 1 .. len : i < j => Iter[i].tick < Iter[j].tick
<1>1. head \in Slots /\ len \in 0 .. Capacity /\ Capacity \in Nat
  BY CapacityAssumption DEF IInv, TypeOK
<1>2. \A i \in 1 .. len : /\ i - 1 \in 0 .. len - 1
                          /\ Slot(i - 1) \in Slots
                          /\ Iter[i] = entries[Slot(i - 1)]
  BY <1>1, SlotsDiffer DEF Iter
<1>3. ASSUME NEW i \in 1 .. len
      PROVE  /\ Iter[i] \in Entry
             /\ Iter[i] # None
             /\ Iter[i].tick \in Nat
             /\ Iter[i] \in {entries[s] : s \in Slots}
  <2>1. entries[Slot(i - 1)] # None
    BY <1>2 DEF IInv, RingInv
  <2>2. entries[Slot(i - 1)] \in Entry
    BY <2>1, <1>2 DEF IInv, TypeOK
  <2>3. entries[Slot(i - 1)].tick \in Nat
    BY <2>2, TicksAssumption DEF Entry
  <2>4. QED
    BY <2>1, <2>2, <2>3, <1>2
<1>4. ASSUME NEW s \in Slots, entries[s] # None
      PROVE  \E i \in 1 .. len : Iter[i] = entries[s]
  <2>1. PICK k \in 0 .. len - 1 : Slot(k) = s
    BY <1>4 DEF IInv, RingInv
  <2>2. k + 1 \in 1 .. len /\ (k + 1) - 1 = k
    BY <1>1
  <2>3. Iter[k + 1] = entries[s]
    BY <2>1, <2>2, <1>2
  <2>4. QED
    BY <2>2, <2>3
<1>5. ASSUME NEW i \in 1 .. len, NEW j \in 1 .. len, i < j
      PROVE  Iter[i].tick < Iter[j].tick
  <2>1. i - 1 \in 0 .. len - 1 /\ j - 1 \in 0 .. len - 1 /\ i - 1 < j - 1
    BY <1>1, <1>5
  <2>2. entries[Slot(i - 1)].tick < entries[Slot(j - 1)].tick
    BY <2>1 DEF IInv, RingInv
  <2>3. QED
    BY <2>2, <1>2
<1>6. QED
  BY <1>1, <1>3, <1>4, <1>5

(* The scan from the newest entry, on a ring in the inductive invariant. *)
LEMMA ScanFromNewest ==
  ASSUME IInv, NEW t \in Ticks
  PROVE  LET Found == {i \in 1 .. len : Iter[i].tick <= t}
         IN  /\ LatestAtOrBefore(t) = None <=> Found = {}
             /\ Found # {} =>
                  \E m \in Found : /\ LatestAtOrBefore(t) = Iter[m].tick
                                  /\ \A i \in Found : i <= m
<1> DEFINE Found == {i \in 1 .. len : Iter[i].tick <= t}
<1>1. /\ len \in Nat
      /\ \A i \in 1 .. len : Iter[i].tick \in Nat
  BY IterEntries
<1>2. CASE Found = {}
  BY <1>2 DEF LatestAtOrBefore
<1>3. CASE Found # {}
  <2>1. \E m \in Found : \A n \in Found : n <= m
    <3>1. Found \subseteq 0 .. len
      BY <1>1
    <3> HIDE DEF Found
    <3>2. QED
      BY <1>1, <1>3, <3>1, GreatestNatural
  <2> DEFINE m == CHOOSE i \in Found : \A j \in Found : j <= i
  <2>2. m \in Found /\ \A i \in Found : i <= m
    <3> HIDE DEF Found
    <3>1. QED
      BY <2>1
  <2>3. LatestAtOrBefore(t) = Iter[m].tick
    BY <1>3 DEF LatestAtOrBefore
  <2>4. LatestAtOrBefore(t) \in Nat
    BY <2>2, <2>3, <1>1
  <2> HIDE DEF m
  <2>5. QED
    BY <1>3, <2>2, <2>3, <2>4, NoneAssumption
<1>4. QED
  BY <1>2, <1>3

(* get() finds the one entry at a tick, whichever end the scan starts at.  *)
LEMMA GetFindsTheEntry ==
  ASSUME IInv, NEW t \in Nat
  PROVE  /\ (\A i \in 1 .. len : Iter[i].tick # t) => Get(t) = None
         /\ \A i \in 1 .. len :
              Iter[i].tick = t => Get(t) = Iter[i].value /\ Get(t) # None
<1> DEFINE Found == {i \in 1 .. len : Iter[i].tick = t}
<1>1. /\ len \in Nat
      /\ \A i \in 1 .. len : Iter[i] \in Entry /\ Iter[i].tick \in Nat
      /\ \A i, j \in 1 .. len : i < j => Iter[i].tick < Iter[j].tick
  BY IterEntries
<1>2. ASSUME \A i \in 1 .. len : Iter[i].tick # t
      PROVE  Get(t) = None
  BY <1>2 DEF Get
<1>3. ASSUME NEW i \in 1 .. len, Iter[i].tick = t
      PROVE  Get(t) = Iter[i].value /\ Get(t) # None
  <2>1. \A k \in Found : k = i
    <3>1. ASSUME NEW k \in 1 .. len, Iter[k].tick = t, k # i
          PROVE  FALSE
      BY <3>1, <1>1, <1>3
    <3>2. QED
      BY <3>1
  <2>2. i \in Found
    BY <1>3
  <2>3. (CHOOSE k \in Found : \A j \in Found : k <= j) = i
    <3> HIDE DEF Found
    <3>1. \A j \in Found : i <= j
      BY <2>1, <1>1
    <3>2. QED
      BY <2>1, <2>2, <3>1
  <2>4. Get(t) = Iter[i].value
    BY <2>2, <2>3 DEF Get
  <2>5. Iter[i].value \in Values
    BY <1>1 DEF Entry
  <2>6. QED
    BY <2>4, <2>5, NoneAssumption
<1>4. QED
  BY <1>2, <1>3

(* In every reachable ring the lookups mean what their names say: get is   *)
(* the partial map of the stored baselines, and latest_at_or_before is its *)
(* greatest tick not after the argument.                                   *)
THEOREM LookupsCorrect == Spec => []LookupsFindTheRightBaseline
<1>1. IInv => LookupsFindTheRightBaseline
  <2> DEFINE Stored == {e \in {entries[s] : s \in Slots} : e # None}
  <2> SUFFICES ASSUME IInv, NEW t \in Ticks
               PROVE  /\ Get(t) = None <=> \A e \in Stored : e.tick # t
                      /\ Get(t) # None => [tick |-> t, value |-> Get(t)] \in Stored
                      /\ LatestAtOrBefore(t) = None <=> \A e \in Stored : e.tick > t
                      /\ LatestAtOrBefore(t) # None =>
                           /\ LatestAtOrBefore(t) <= t
                           /\ Get(LatestAtOrBefore(t)) # None
                           /\ \A e \in Stored : e.tick <= t => e.tick <= LatestAtOrBefore(t)
    BY DEF LookupsFindTheRightBaseline
  <2>1. t \in Nat /\ len \in Nat
    BY TicksAssumption, IterEntries
  <2>2. \A i \in 1 .. len :
          Iter[i] \in Stored /\ Iter[i] \in Entry /\ Iter[i].tick \in Nat
    BY IterEntries
  <2>3. \A e \in Stored : \E i \in 1 .. len : Iter[i] = e
    BY IterEntries
  <2> HIDE DEF Stored
  <2>4. Get(t) = None <=> \A e \in Stored : e.tick # t
    <3>1. CASE \E i \in 1 .. len : Iter[i].tick = t
      BY <3>1, <2>1, <2>2, GetFindsTheEntry
    <3>2. CASE \A i \in 1 .. len : Iter[i].tick # t
      BY <3>2, <2>1, <2>3, GetFindsTheEntry
    <3>3. QED
      BY <3>1, <3>2
  <2>5. Get(t) # None => [tick |-> t, value |-> Get(t)] \in Stored
    <3> SUFFICES ASSUME Get(t) # None
                 PROVE  [tick |-> t, value |-> Get(t)] \in Stored
      OBVIOUS
    <3>1. PICK i \in 1 .. len : Iter[i].tick = t
      BY <2>1, GetFindsTheEntry
    <3>2. Get(t) = Iter[i].value
      BY <3>1, <2>1, GetFindsTheEntry
    <3>3. Iter[i] = [tick |-> t, value |-> Get(t)]
      BY <3>1, <3>2, <2>2 DEF Entry
    <3>4. QED
      BY <3>3, <2>2
  <2>6. LatestAtOrBefore(t) = None <=> \A e \in Stored : e.tick > t
    <3>1. CASE \E i \in 1 .. len : Iter[i].tick <= t
      <4>1. PICK i \in 1 .. len : Iter[i].tick <= t
        BY <3>1
      <4>2. LatestAtOrBefore(t) # None
        BY <4>1, ScanFromNewest
      <4>3. Iter[i] \in Stored /\ ~ (Iter[i].tick > t)
        BY <4>1, <2>1, <2>2
      <4>4. QED
        BY <4>2, <4>3
    <3>2. CASE \A i \in 1 .. len : ~ (Iter[i].tick <= t)
      <4>1. LatestAtOrBefore(t) = None
        BY <3>2, ScanFromNewest
      <4>2. \A e \in Stored : e.tick > t
        BY <3>2, <2>1, <2>2, <2>3
      <4>3. QED
        BY <4>1, <4>2
    <3>3. QED
      BY <3>1, <3>2
  <2>7. ASSUME LatestAtOrBefore(t) # None
        PROVE  /\ LatestAtOrBefore(t) <= t
               /\ Get(LatestAtOrBefore(t)) # None
               /\ \A e \in Stored : e.tick <= t => e.tick <= LatestAtOrBefore(t)
    <3>1. PICK m \in 1 .. len :
            /\ Iter[m].tick <= t
            /\ LatestAtOrBefore(t) = Iter[m].tick
            /\ \A i \in 1 .. len : Iter[i].tick <= t => i <= m
      BY <2>7, ScanFromNewest
    <3>2. Get(LatestAtOrBefore(t)) # None
      BY <3>1, <2>2, GetFindsTheEntry
    <3>3. ASSUME NEW e \in Stored, e.tick <= t
          PROVE  e.tick <= LatestAtOrBefore(t)
      <4>1. PICK i \in 1 .. len : Iter[i] = e
        BY <2>3
      <4>2. i <= m
        BY <3>1, <3>3, <4>1
      <4>3. i = m \/ Iter[i].tick < Iter[m].tick
        BY <4>2, <2>1, IterEntries
      <4>4. QED
        BY <4>1, <4>3, <3>1, <2>2
    <3>4. QED
      BY <3>1, <3>2, <3>3
  <2>8. QED
    BY <2>4, <2>5, <2>6, <2>7
<1>2. Spec => []IInv
  BY InitIInv, StepIInv, PTL DEF Spec
<1>3. QED
  BY <1>1, <1>2, PTL

-----------------------------------------------------------------------------
(* An accepted tick is above every tick of the window. *)
LEMMA AcceptedIsNewest ==
  ASSUME IInv, NEW t \in Ticks, ~ OutOfOrder(t)
  PROVE  Recent!Accepts(Iter, t)
<1>1. Iter = [i \in 1 .. len |-> entries[Slot(i - 1)]] /\ len \in Nat
  BY IterEntries DEF Iter
<1>2. Len(Iter) = len
  BY <1>1
<1>3. CASE len = 0
  BY <1>2, <1>3 DEF Recent!Accepts
<1>4. CASE len # 0
  <2>1. last_tick # None /\ Iter[len].tick = last_tick
    BY <1>1, <1>4 DEF IInv, RingInv
  <2>2. last_tick \in Nat /\ t \in Nat /\ last_tick < t
    BY <2>1, TicksAssumption DEF OutOfOrder, IInv, TypeOK
  <2>3. \A i \in 1 .. len : i < len => Iter[i].tick < Iter[len].tick
    BY <1>1, <1>4, IterEntries
  <2>4. ASSUME NEW i \in 1 .. len
        PROVE  Iter[i].tick < t
    <3>1. Iter[i].tick \in Nat
      BY IterEntries
    <3>2. i = len \/ i < len
      BY <1>1
    <3>3. QED
      BY <3>1, <3>2, <2>1, <2>2, <2>3
  <2>5. QED
    BY <1>2, <2>4 DEF Recent!Accepts
<1>5. QED
  BY <1>3, <1>4

(* Every accepted insert, in a ring with room or in a full one and wherever *)
(* head stands, is an insert into the window iter() shows.                  *)
LEMMA InsertIsPush ==
  ASSUME IInv, NEW t \in Ticks, NEW v \in Values, Insert(t, v)
  PROVE  Iter' = Recent!Push(Iter, Capacity, [tick |-> t, value |-> v])
<1> DEFINE e == [tick |-> t, value |-> v]
<1>1. /\ head \in Slots
      /\ len \in 0 .. Capacity
      /\ Capacity \in Nat \ {0}
      /\ entries \in [Slots -> Entry \cup {None}]
  BY CapacityAssumption DEF IInv, TypeOK
<1>2. /\ \A i \in 0 .. Capacity : Slot(i) \in Slots
      /\ Slot(0) = head
      /\ Slot(Capacity) = head
      /\ \A i, j \in 0 .. Capacity - 1 : i # j => Slot(i) # Slot(j)
  BY <1>1, SlotsDiffer
<1>3. /\ Iter \in Seq(Entry)
      /\ Len(Iter) = len
      /\ \A i \in 1 .. len : Iter[i] = entries[Slot(i - 1)]
  <2>1. \A i \in 1 .. len : Iter[i] \in Entry
    BY IterEntries
  <2>2. Iter = [i \in 1 .. len |-> Iter[i]] /\ len \in Nat
    BY <1>1 DEF Iter
  <2>3. Iter \in Seq(Entry) /\ Len(Iter) = len
    BY <2>1, <2>2
  <2>4. QED
    BY <2>3 DEF Iter
<1>4. e \in Entry
  BY DEF Entry
<1>5. CASE InsertFree(t, v)
  <2>1. /\ len < Capacity
        /\ len' = len + 1
        /\ head' = head
        /\ entries' = [entries EXCEPT ![Slot(len)] = e]
    BY <1>5 DEF InsertFree
  <2>2. Iter' = [i \in 1 .. len + 1 |-> entries'[Slot(i - 1)]]
    BY <2>1 DEF Iter, Slot
  <2>3. \A i \in 1 .. len : entries'[Slot(i - 1)] = Iter[i]
    <3>1. \A i \in 1 .. len : /\ i - 1 \in 0 .. Capacity - 1
                              /\ len \in 0 .. Capacity - 1
                              /\ i - 1 # len
      BY <1>1, <2>1
    <3>2. \A i \in 1 .. len : Slot(i - 1) # Slot(len) /\ Slot(i - 1) \in Slots
      BY <3>1, <1>1, <1>2
    <3>3. QED
      BY <3>2, <2>1, <1>1, <1>3
  <2>4. entries'[Slot(len)] = e
    BY <2>1, <1>1, <1>2
  <2>5. Append(Iter, e) = [i \in 1 .. len + 1 |-> IF i = len + 1 THEN e ELSE Iter[i]]
    BY <1>1, <1>3, <1>4
  <2>6. \A i \in 1 .. len + 1 :
          entries'[Slot(i - 1)] = IF i = len + 1 THEN e ELSE Iter[i]
    BY <1>1, <2>3, <2>4
  <2>7. Iter' = Append(Iter, e)
    BY <2>2, <2>5, <2>6
  <2>8. QED
    BY <2>1, <2>7, <1>3 DEF Recent!Push
<1>6. CASE InsertFull(t, v)
  <2>1. /\ len = Capacity
        /\ len' = Capacity
        /\ head' = Slot(1)
        /\ entries' = [entries EXCEPT ![head] = e]
    BY <1>6 DEF InsertFull
  <2>2. \A i \in 0 .. Capacity - 1 : Slot(i)' = Slot(i + 1)
    BY <2>1, <1>1, HeadShifts
  <2>3. Iter' = [i \in 1 .. Capacity |-> entries'[Slot(i)]]
    <3>1. Iter' = [i \in 1 .. Capacity |-> entries'[Slot(i - 1)']]
      BY <2>1 DEF Iter
    <3>2. \A i \in 1 .. Capacity : Slot(i - 1)' = Slot(i)
      BY <2>2, <1>1
    <3>3. QED
      BY <3>1, <3>2
  <2>4. \A i \in 1 .. Capacity - 1 : entries'[Slot(i)] = Iter[i + 1]
    <3>1. \A i \in 1 .. Capacity - 1 :
            /\ i \in 0 .. Capacity - 1
            /\ i # 0
            /\ 0 \in 0 .. Capacity - 1
            /\ i + 1 \in 1 .. len
            /\ (i + 1) - 1 = i
      BY <1>1, <2>1
    <3>2. \A i \in 1 .. Capacity - 1 : Slot(i) # head /\ Slot(i) \in Slots
      BY <3>1, <1>1, <1>2
    <3>3. QED
      BY <3>1, <3>2, <2>1, <1>1, <1>3
  <2>5. entries'[Slot(Capacity)] = e
    BY <2>1, <1>1, <1>2
  <2>6. /\ Tail(Iter) \in Seq(Entry)
        /\ Len(Tail(Iter)) = Capacity - 1
        /\ \A i \in 1 .. Capacity - 1 : Tail(Iter)[i] = Iter[i + 1]
    <3>1. Iter # <<>>
      BY <1>1, <1>3, <2>1
    <3>2. QED
      BY <3>1, <1>1, <1>3, <2>1, HeadTailProperties
  <2>7. /\ Append(Tail(Iter), e) \in Seq(Entry)
        /\ Len(Append(Tail(Iter), e)) = Capacity
        /\ \A i \in 1 .. Capacity - 1 : Append(Tail(Iter), e)[i] = Iter[i + 1]
        /\ Append(Tail(Iter), e)[Capacity] = e
    <3> HIDE DEF e
    <3>1. QED
      BY <1>1, <1>4, <2>6, AppendProperties
  <2>8. \A i \in 1 .. Capacity : entries'[Slot(i)] = Append(Tail(Iter), e)[i]
    <3>1. \A i \in 1 .. Capacity : i = Capacity \/ i \in 1 .. Capacity - 1
      BY <1>1
    <3> HIDE DEF e
    <3>2. QED
      BY <3>1, <2>4, <2>5, <2>7
  <2>9. \A i \in 1 .. Capacity : Append(Tail(Iter), e)[i] \in Entry
    BY <2>7, ElementOfSeq
  <2>10. Iter' = Append(Tail(Iter), e)
    <3>1. Iter' \in Seq(Entry) /\ Len(Iter') = Capacity
      <4>1. \A i \in 1 .. Capacity : entries'[Slot(i)] \in Entry
        BY <2>8, <2>9
      <4> HIDE DEF e
      <4>2. QED
        BY <4>1, <2>3, <1>1
    <3>2. \A i \in 1 .. Capacity : Iter'[i] = Append(Tail(Iter), e)[i]
      BY <2>3, <2>8
    <3> HIDE DEF e
    <3>3. QED
      BY <3>1, <3>2, <2>7, SeqEqual
  <2>11. QED
    BY <2>1, <2>10, <1>3, <1>1 DEF Recent!Push
<1>7. QED
  BY <1>5, <1>6 DEF Insert

(* The ring implements the abstract window of recent baselines. *)
THEOREM RingImplementsRecent == Spec => ImplementsRecentBaselines
<1>1. Init => Recent!Init
  <2> SUFFICES ASSUME Init PROVE Iter = <<>>
    BY DEF Recent!Init
  <2>1. QED
    BY DEF Init, Iter
<1>2. IInv /\ [Next]_vars => [Recent!Next]_Iter
  <2> SUFFICES ASSUME IInv, [Next]_vars
               PROVE  [Recent!Next]_Iter
    OBVIOUS
  <2>1. ASSUME NEW t \in Ticks, NEW v \in Values, Insert(t, v)
        PROVE  Recent!Next
    <3>1. Recent!Accepts(Iter, t)
      BY <2>1, AcceptedIsNewest DEF Insert
    <3>2. Recent!Insert(t, v)
      BY <2>1, <3>1, InsertIsPush DEF Recent!Insert
    <3>3. QED
      BY <3>2 DEF Recent!Next
  <2>2. CASE UNCHANGED vars
    BY <2>2 DEF vars, Iter, Slot
  <2>3. QED
    BY <2>1, <2>2 DEF Next
<1>3. Spec => []IInv
  BY InitIInv, StepIInv, PTL DEF Spec
<1>4. QED
  BY <1>1, <1>2, <1>3, PTL DEF Spec, ImplementsRecentBaselines, Recent!Spec
=============================================================================
