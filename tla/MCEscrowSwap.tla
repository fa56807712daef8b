---------------------------- MODULE MCEscrowSwap ----------------------------
(* Instances of EscrowSwap for TLC.                                        *)
EXTENDS EscrowSwap, TLC

CONSTANT taker

Symmetry == Permutations(Slots)
=============================================================================
