------------------------- MODULE MCSnapshotSession --------------------------
(* Instances of the snapshot session. *)
EXTENDS SnapshotSession

NoFaults == {}
LossOnly == {"lose"}
AllFaults == {"lose", "duplicate", "swap"}
LateOnly == {"duplicate", "swap"}
=============================================================================
