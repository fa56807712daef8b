------------------------------- MODULE Totals -------------------------------
(***************************************************************************)
(* The total of what a function assigns to the members of a finite set:    *)
(* the tokens of all accounts, the amounts of all calls in flight.         *)
(***************************************************************************)
EXTENDS Integers, FiniteSets, FiniteSetsExt

SumOf(f, S) == MapThenSumSet(LAMBDA x : f[x], S)
=============================================================================
