------------------------------- MODULE Wallet -------------------------------
(***************************************************************************)
(* A wallet contract (contracts/wallet/src/contract.rs): whoever holds the *)
(* key, or an enabled extension, asks it to run a request.  A request is   *)
(* a list of operations on the wallet's own authorization state followed   *)
(* by a set of outgoing promises, and runs in one receipt: if any of its   *)
(* parts fails, nothing of it happens and its nonce stays unused.          *)
(*                                                                         *)
(* `Messages' are the request messages whose proof verifies.  A message    *)
(* for another chain or another wallet, or with pay_for_gas set, is        *)
(* rejected whatever the state: it is not in `Messages'.                   *)
(***************************************************************************)
EXTENDS WalletNonces, Sequences

CONSTANTS
    ExtensionIds,   \* accounts that may be enabled as extensions
    Requests    \* requests an extension may submit

VARIABLES
    signature_enabled,
    extensions

(* Request::internal is a list of WalletOps.                               *)
WalletOps ==
    [op : {"set_signature_mode"}, enable : BOOLEAN]
    \cup [op : {"add_extension", "remove_extension"}, account_id : ExtensionIds]

ASSUME WalletAssumption ==
    /\ \A request \in Requests : request.internal \in Seq(WalletOps)
    /\ \A m \in Messages : m.request.internal \in Seq(WalletOps)

authVars == <<signature_enabled, extensions>>
walletVars == <<noncesVars, authVars>>

(* State::new with the builder methods, or any state given to StateInit:   *)
(* a wallet may be created with the signature disabled and no extension.   *)
WalletInit ==
    /\ NoncesInit
    /\ signature_enabled \in BOOLEAN
    /\ extensions \in SUBSET ExtensionIds

is_signature_allowed == signature_enabled \/ extensions = {}
-----------------------------------------------------------------------------
(* The authorization state on which the operations of a request work, or   *)
(* Failed once one of them has returned an error.                          *)
Failed == [ok |-> FALSE]
Auth(sig, ext) == [ok |-> TRUE, sig |-> sig, ext |-> ext]

(* check_lockout: an operation must leave someone who can act.             *)
CheckLockout(a) == IF ~a.sig /\ a.ext = {} THEN Failed ELSE a

SetSignatureMode(a, enable) ==
    IF a.sig = enable THEN Failed ELSE CheckLockout(Auth(enable, a.ext))

AddExtension(a, id) ==
    IF id \in a.ext THEN Failed ELSE Auth(a.sig, a.ext \cup {id})

(* Mutation: removing an extension does not look for a lockout.            *)
RemoveExtensionUnchecked(a, id) ==
    IF id \notin a.ext THEN Failed ELSE Auth(a.sig, a.ext \ {id})
RemoveExtension(a, id) ==
    IF id \notin a.ext THEN Failed
    ELSE CheckLockout(Auth(a.sig, a.ext \ {id}))

ExecuteOp(a, op) ==
    CASE ~a.ok -> Failed
      [] a.ok /\ op.op = "set_signature_mode" -> SetSignatureMode(a, op.enable)
      [] a.ok /\ op.op = "add_extension" -> AddExtension(a, op.account_id)
      [] a.ok /\ op.op = "remove_extension" -> RemoveExtension(a, op.account_id)

(* The loop over Request::internal.                                        *)
ExecuteOps(ops) ==
    LET run[i \in 0 .. Len(ops)] ==
          IF i = 0 THEN Auth(signature_enabled, extensions)
          ELSE ExecuteOp(run[i - 1], ops[i])
    IN  run[Len(ops)]

(* build_promise accepts no self-call and no action on the account itself. *)
CanBuild(promise) == ~promise.to_self /\ promise.supported

(* execute_request: the operations in order, then the promises, which are  *)
(* detached and leave no trace in the wallet.                              *)
ExecuteRequest(request) ==
    LET a == ExecuteOps(request.internal)
    IN  /\ a.ok
        /\ \A p \in request.external : CanBuild(p)
        /\ signature_enabled' = a.sig
        /\ extensions' = a.ext
-----------------------------------------------------------------------------
(* Mutation: the request runs without committing the nonce.                *)
ExecuteSignedUncommitted(m) ==
    /\ is_signature_allowed
    /\ InWindow(m)
    /\ m.nonce \notin CleanedOld
    /\ m.nonce \notin CleanedCurrent
    /\ executions' = [executions EXCEPT ![m] = @ + 1]
    /\ used_at' = [used_at EXCEPT ![m.nonce] = now]
    /\ ExecuteRequest(m.request)
    /\ UNCHANGED <<now, last_cleaned_at, old, current>>
ExecuteSigned(m) ==
    /\ is_signature_allowed
    /\ Commit(m)
    /\ ExecuteRequest(m.request)

(* execute_extension: the caller attaches a deposit and is enabled.        *)
ExecuteExtension(caller, request) ==
    /\ caller \in extensions
    /\ CheckCleanup
    /\ ExecuteRequest(request)

WalletNext ==
    \/ \E m \in Messages : ExecuteSigned(m)
    \/ \E caller \in ExtensionIds, request \in Requests :
          ExecuteExtension(caller, request)
    \/ Tick /\ UNCHANGED authVars

WalletSpec == WalletInit /\ [][WalletNext]_walletVars
-----------------------------------------------------------------------------
(* check_lockout: once the key or an extension has been given authority,   *)
(* no sequence of requests, signed or from extensions, leaves the wallet   *)
(* with neither the signature enabled nor an extension.                    *)
CanAct == signature_enabled \/ extensions # {}
NeverLockedOut == [][CanAct => CanAct']_walletVars
=============================================================================
