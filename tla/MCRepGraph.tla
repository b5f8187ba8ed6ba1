----------------------------- MODULE MCRepGraph -----------------------------
(* Instances of the replication graph. *)
EXTENDS RepGraph, TLC

MCIds == 1 .. 2
ThreeIds == 1 .. 3

View(sees, creates) == [sees |-> sees, creates |-> creates, updates |-> 3, destroys |-> 3]

(* A view of everything or of what is near, with at most one create. *)
RationedViews == {View({"near", "far"}, 1), View({"near"}, 1)}

(* Every list of a delta is cut to one entry. *)
CutViews == {[v EXCEPT !.updates = 1, !.destroys = 1] : v \in RationedViews}

OneView == {View({"near", "far"}, 1)}

Symmetric == Permutations(Clients) \cup Permutations(Values)
=============================================================================
