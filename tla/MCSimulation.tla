---------------------------- MODULE MCSimulation ----------------------------
(* Instances of Simulation for TLC. *)
EXTENDS Simulation

CONSTANTS alice, bob, k1, ft

=============================================================================
