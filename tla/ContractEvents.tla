--------------------------- MODULE ContractEvents ---------------------------
(* What the events of the small contracts tell their readers.              *)
EXTENDS GlobalDeployer, OutlayerApp, TreasuryLogger

(* Whoever reads the events of the deployer, of the outlayer app or of the *)
(* logger knows their state: the network runs the code of the last Deploy, *)
(* approvals and owners are the ones announced, and the logger's deposits  *)
(* have the nonces 0, 1, 2, ... below get_nonce().                         *)
LogsTellTheTruth ==
    /\ deployed # NoCode => state.code_hash = deployed
    /\ indexed = state
    /\ app_indexed = app
    /\ Len(logged) = nonce
    /\ \A i \in DOMAIN logged : logged[i].nonce = i - 1
=============================================================================
