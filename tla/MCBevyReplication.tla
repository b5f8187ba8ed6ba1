------------------------- MODULE MCBevyReplication -------------------------
(* Three entities, so that the last id is given out twice; two components, *)
(* registered in either order.                                             *)
EXTENDS BevyReplication, TLC

CONSTANTS e1, e2, e3

MCEntities == {e1, e2, e3}
MCRegistered == {<<1, 2>>, <<2, 1>>}
MCValues == {"a", "b"}
MCSymmetry == Permutations(MCEntities)
=============================================================================
