---------------------------- MODULE MCSettlement ----------------------------
(***************************************************************************)
(* Three traders and the fee collector, who may trade as well.             *)
(***************************************************************************)
EXTENDS Settlement, TLC

CONSTANTS alice, bob, carol, ft, mt

Traders == {alice, bob, carol}
Symmetry == Permutations(Traders)

MCInitial == {[h \in Holdings |-> IF h[1] = collector THEN 0 ELSE 3]}

MCDeltas == {-3, 1}
=============================================================================
