-------------------------- MODULE RecentBaselines ---------------------------
(***************************************************************************)
(* What a baseline store promises: it holds the most recently accepted     *)
(* baselines, at most Capacity of them, in strictly increasing tick order. *)
(***************************************************************************)
EXTENDS BaselineWindow

CONSTANTS
  Capacity,  (* how many baselines are kept  *)
  Ticks,     (* the snapshot ticks           *)
  Values     (* the snapshots stored         *)

VARIABLE window

TypeOK ==
  /\ window \in Seq([tick : Ticks, value : Values])
  /\ Len(window) <= Capacity

Init == window = <<>>

Insert(t, v) ==
  /\ Accepts(window, t)
  /\ window' = Push(window, Capacity, [tick |-> t, value |-> v])

Next == \E t \in Ticks, v \in Values : Insert(t, v)

Spec == Init /\ [][Next]_window
=============================================================================
