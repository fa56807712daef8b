---------------------------- MODULE MCComponents ----------------------------
(* The small contracts, the SDK of the wallet and the libraries for TLC: a *)
(* behaviour is one of one of them, the others do not move.                *)
EXTENDS ContractEvents, PoaToken, WalletSdk, KeySigners, Mpc,
        Bitmaps, Payloads, TLC

CONSTANTS n1, n2, defuse, other, nobody  \* nonces, recipients

VARIABLE part   \* whose behaviour it is

contractsVars == <<dvars, appVars, loggerVars, poaVars, sdkVars>>
librariesVars == <<signers_vars, mpc_vars, bitmaps_vars, payloads_vars>>
vars == <<part, contractsVars, librariesVars>>

Init ==
    /\ part \in {"deployer", "app", "logger", "poa", "sdk",
                 "signers", "signing", "ckd", "bitmap", "bitmap256", "payloads"}
    /\ IF part = "deployer" THEN DeployerInit
       ELSE DeployerInit /\ state = gd_init /\ balance = 0
    /\ IF part = "app" THEN AppInit
       ELSE AppInit /\ app = CHOOSE st \in AppInits : TRUE
    /\ LoggerInit
    /\ PoaInit
    /\ SdkInit
    /\ IF part = "signers" THEN SignersInit ELSE SignersInit /\ root = 1
    /\ MpcInit
    /\ BitmapsInit
    /\ PayloadsInit

Deployer == part = "deployer" /\ DeployerNext /\ UNCHANGED <<appVars, loggerVars, poaVars, sdkVars>>
App == part = "app" /\ AppNext /\ UNCHANGED <<dvars, loggerVars, poaVars, sdkVars>>
Logger == part = "logger" /\ LoggerNext /\ UNCHANGED <<dvars, appVars, poaVars, sdkVars>>
Poa == part = "poa" /\ PoaNext /\ UNCHANGED <<dvars, appVars, loggerVars, sdkVars>>
Sdk == part = "sdk" /\ SdkNext /\ UNCHANGED <<dvars, appVars, loggerVars, poaVars>>

Signers == part = "signers" /\ SignersNext /\ UNCHANGED <<mpc_vars, bitmaps_vars, payloads_vars>>
Signing == part = "signing" /\ SigningNext /\ UNCHANGED <<signers_vars, bitmaps_vars, payloads_vars>>
Ckd == part = "ckd" /\ CkdNext /\ UNCHANGED <<signers_vars, bitmaps_vars, payloads_vars>>
Bitmap == part = "bitmap" /\ BitmapNext /\ UNCHANGED <<signers_vars, mpc_vars, payloads_vars>>
Bitmap256 == part = "bitmap256" /\ Bitmap256Next /\ UNCHANGED <<signers_vars, mpc_vars, payloads_vars>>
Enveloped == part = "payloads" /\ PayloadsNext /\ UNCHANGED <<signers_vars, mpc_vars, bitmaps_vars>>

Contracts == Deployer \/ App \/ Logger \/ Poa \/ Sdk
Libraries == Signers \/ Signing \/ Ckd \/ Bitmap \/ Bitmap256 \/ Enveloped

Next ==
    /\ UNCHANGED part
    /\ \/ Contracts /\ UNCHANGED librariesVars
       \/ Libraries /\ UNCHANGED contractsVars

Spec == Init /\ [][Next]_vars

(* Digests of the derivation paths of the MPC network: one is no scalar.   *)
MCTweakDigest(a, path) ==
    CASE a = "a" /\ path = 1 -> 1
      [] a = "a" /\ path = 2 -> 3
      [] a = "b" /\ path = 1 -> 2
      [] OTHER -> 7
MCAppHash(a, path) ==
    CASE a = "a" /\ path = 1 -> 1
      [] a = "a" /\ path = 2 -> 3
      [] a = "b" /\ path = 1 -> 2
      [] OTHER -> 5
MCMpcDomains ==
    <<[curve |-> "secp256k1", secret |-> 4],
      [curve |-> "ed25519", secret |-> 5],
      [curve |-> "bls12381", secret |-> 3]>>

(* Strings to sign: an intent in full, one without contract and nonce (as  *)
(* within NEP-413), and no intent.                                         *)
MCText(n, c) ==
    [signer_id |-> "alice", deadline |-> 8, intents |-> "transfer", nonce |-> n,
     verifying_contract |-> c]
MCTexts == {MCText(n1, defuse), MCText(NoField, NoField),
            [MCText(n1, defuse) EXCEPT !.intents = NoField]}
MCTimestamps == {-1, 8, 9, 10}

Symmetry == Permutations(Users) \cup Permutations(Jobs)
=============================================================================
