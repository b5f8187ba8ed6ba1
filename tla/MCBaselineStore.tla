--------------------------- MODULE MCBaselineStore --------------------------
(* A ring of three slots, filled and wrapped around at least once. *)
EXTENDS BaselineStore

MCTicks == 0 .. 7
=============================================================================
