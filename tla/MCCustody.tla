----------------------------- MODULE MCCustody ------------------------------
(***************************************************************************)
(* Small instances of Custody.  Two accounts, two calls in flight, wNEAR,  *)
(* an NFT of an honest contract, an NFT of a contract that keeps to no     *)
(* standard, and a token that an account mints inside the Verifier.        *)
(***************************************************************************)
EXTENDS Custody, TLC

CONSTANTS nft, rogue, imt

MCBatches == {Only(t, 1) : t \in Tokens \ {imt}} \cup {Only(wnear, MaxAmount)}
MCTransfers == {Only(t, 1) : t \in Tokens}
MCMints == {Only(t, 1) : t \in Tokens \cap {imt}}
MCReports == MCTransfers \cup {Only(wnear, n) : n \in {0, MaxAmount}}
Symmetry == Permutations(Accounts) \cup Permutations(Slots)
=============================================================================
