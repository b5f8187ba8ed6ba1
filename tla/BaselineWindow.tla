--------------------------- MODULE BaselineWindow ---------------------------
(***************************************************************************)
(* Operators on a window of baselines: a sequence of entries, oldest       *)
(* first, whose ticks increase.  It is what a user of                      *)
(* codec::BaselineStore sees through iter(), get(), latest_at_or_before()  *)
(* and insert(), without the ring buffer that holds it (BaselineStore.tla  *)
(* shows that the ring implements it).  An entry is any record with a      *)
(* field "tick".                                                           *)
(***************************************************************************)
EXTENDS Naturals, Sequences

(* The ticks a window holds. *)
TicksOf(w) == {w[i].tick : i \in 1 .. Len(w)}

(* insert() is accepted only above the newest tick. *)
Accepts(w, tick) == \A i \in 1 .. Len(w) : w[i].tick < tick

(* An accepted insert: append, and drop the oldest entry of a full window. *)
Push(w, capacity, e) == Append(IF Len(w) < capacity THEN w ELSE Tail(w), e)

(* get(tick) is Some. *)
Holds(w, tick) == tick \in TicksOf(w)

(* The entry get(tick) returns, where Holds(w, tick). *)
EntryAt(w, tick) == w[CHOOSE i \in 1 .. Len(w) : w[i].tick = tick]

(* latest_at_or_before(tick) is Some. *)
HoldsAtOrBefore(w, tick) == \E t \in TicksOf(w) : t <= tick

(* The tick latest_at_or_before(tick) returns, where HoldsAtOrBefore. *)
LatestTick(w, tick) ==
  CHOOSE t \in TicksOf(w) :
    /\ t <= tick
    /\ \A u \in TicksOf(w) : u <= tick => u <= t

(* The window is in tick order, with no tick twice. *)
Increasing(w) == \A i, j \in 1 .. Len(w) : i < j => w[i].tick < w[j].tick
=============================================================================
