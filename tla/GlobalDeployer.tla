--------------------------- MODULE GlobalDeployer ---------------------------
(***************************************************************************)
(* The global deployer (contracts/global-deployer): its owner approves the *)
(* hash of a code, and anyone who pays for it deploys that code.           *)
(*                                                                         *)
(* gd_deploy() only schedules a receipt to the contract itself; approvals  *)
(* and transfers of the ownership can come before that receipt runs.  The  *)
(* receipt moves the deposit back to the contract, deploys the code and    *)
(* calls gd_post_deploy(): all of it happens or nothing.                   *)
(*                                                                         *)
(* SHA-256 has no collisions here: a code stands for its hash, and 0 and   *)
(* the small indices are hashes of no code.                                *)
(***************************************************************************)
EXTENDS Naturals, FiniteSets, FiniteSetsExt

CONSTANTS
    Owners,       \* accounts that may own the deployer
    self,         \* the account of the deployer
    Codes,        \* WASM codes
    Indices,      \* indices of deployers of the same owner
    NoCode,       \* no global contract has been deployed
    Deposits,     \* deposits attached to gd_deploy()
    Cost,         \* what the deployment of a code costs
    MaxBalance,   \* bounds the balance
    Receipts      \* identities of deployments in flight; bounds their number

DEFAULT_HASH == 0
Hashes == Codes \cup Indices

ASSUME DeployerAssumption ==
    /\ self \in Owners
    /\ DEFAULT_HASH \in Indices /\ Indices \subseteq Nat
    /\ NoCode \notin Codes /\ Codes \cap Indices = {}
    /\ Deposits \subseteq Nat /\ Cost \in Nat /\ MaxBalance \in Nat

VARIABLES
    state,      \* State: owner_id, code_hash, approved_hash
    deployed,   \* the global contract that the network has for the account
    balance,    \* the balance of the account
    inflight,   \* the deployment receipts
    granted,    \* history: the last approval, by whom and over which code
    indexed     \* the State as someone knows it who reads the events

dvars == <<state, deployed, balance, inflight, granted, indexed>>
-----------------------------------------------------------------------------
State == [owner_id : Owners, code_hash : Hashes, approved_hash : Hashes]

(* `own' is history: the balance when gd_deploy() was called.              *)
Receipt == [code_hash : Codes, initial_balance : Nat, deploy_deposit : Nat,
            own : Nat]
Idle == [code_hash |-> NoCode]

(* What the State of a new deployer can be.                                *)
Owner(account) == [owner_id |-> account, code_hash |-> DEFAULT_HASH,
                   approved_hash |-> DEFAULT_HASH]
WithIndex(st, index) == [st EXCEPT !.code_hash = index]
PreApprove(st, hash) == [st EXCEPT !.approved_hash = hash]

(* The states that the near-gds tool prepares, and the one of gd_init().   *)
StateInits == {PreApprove(WithIndex(Owner(account), index), hash) :
                   account \in Owners, index \in Indices,
                   hash \in Codes \cup {DEFAULT_HASH}}
gd_init == Owner(self)

DeployerInit ==
    /\ state \in StateInits \cup {gd_init}
    /\ deployed = NoCode
    /\ balance \in 0 .. Cost
    /\ inflight = [r \in Receipts |-> Idle]
    /\ granted = [by |-> state.owner_id, hash |-> state.approved_hash,
                  over |-> state.code_hash, used |-> FALSE]
    /\ indexed = state
-----------------------------------------------------------------------------
IsOwner(account) == state.owner_id = account
IsApproved(hash) == state.approved_hash = hash
IsCurrentCodeHash(hash) == state.code_hash = hash

(* Events, as their readers apply them to what they know.                  *)
ApproveEvent(st, hash) == [st EXCEPT !.approved_hash = hash]
DeployEvent(st, hash) == [st EXCEPT !.code_hash = hash]
TransferEvent(st, account) == [st EXCEPT !.owner_id = account]

gd_approve(caller, old_hash, new_hash) ==
    /\ IsOwner(caller)
    /\ IsCurrentCodeHash(old_hash)
    /\ state' = [state EXCEPT !.approved_hash = new_hash]
    /\ indexed' = ApproveEvent(indexed, new_hash)
    /\ granted' = [by |-> caller, hash |-> new_hash, over |-> old_hash,
                   used |-> FALSE]
    /\ UNCHANGED <<deployed, balance, inflight>>

(* The deposit is in the balance while gd_deploy() runs and leaves it with *)
(* the receipt.                                                            *)
InitialBalanceIgnored(deposit) == 0
InitialBalance(deposit) == (balance + deposit) - deposit

gd_deploy(code, deposit) ==
    /\ IsApproved(code)
    /\ \E r \in Receipts :
           /\ inflight[r] = Idle
           /\ inflight' = [inflight EXCEPT ![r] =
                  [code_hash |-> code, deploy_deposit |-> deposit, own |-> balance,
                   initial_balance |-> InitialBalance(deposit)]]
    /\ UNCHANGED <<state, deployed, balance, granted, indexed>>

(* env::account_balance().saturating_sub(initial_balance).min(..)          *)
RefundOf(account_balance, receipt) ==
    LET gained == IF account_balance < receipt.initial_balance THEN 0
                  ELSE account_balance - receipt.initial_balance
    IN  Min({gained, receipt.deploy_deposit})

(* gd_post_deploy(), in one receipt with the transfer and the deployment,  *)
(* which fails if the account cannot pay for it.                           *)
CanDeployUnchecked(receipt) == balance + receipt.deploy_deposit >= Cost
CanDeploy(receipt) ==
    /\ balance + receipt.deploy_deposit >= Cost
    /\ IsApproved(receipt.code_hash)

PostDeployKeepsApproval(st, hash) == [st EXCEPT !.code_hash = hash]
PostDeploy(st, hash) ==
    [st EXCEPT !.code_hash = hash, !.approved_hash = DEFAULT_HASH]

gd_post_deploy(r) ==
    LET receipt == inflight[r]
        paid == balance + receipt.deploy_deposit - Cost
    IN  /\ receipt # Idle
        /\ CanDeploy(receipt)
        /\ deployed' = receipt.code_hash
        /\ state' = PostDeploy(state, receipt.code_hash)
        /\ indexed' = ApproveEvent(DeployEvent(indexed, receipt.code_hash),
                                   DEFAULT_HASH)
        /\ balance' = paid - RefundOf(paid, receipt)
        /\ granted' = [granted EXCEPT !.used = TRUE]
        /\ inflight' = [inflight EXCEPT ![r] = Idle]

(* The receipt fails (also for lack of gas), and the deposit goes back to  *)
(* where refund_to says.                                                   *)
DeploymentFails(r) ==
    /\ inflight[r] # Idle
    /\ inflight' = [inflight EXCEPT ![r] = Idle]
    /\ UNCHANGED <<state, deployed, balance, granted, indexed>>

TransferTo(st, receiver) == ApproveEvent(TransferEvent(st, receiver), DEFAULT_HASH)

gd_transfer_ownership(caller, receiver) ==
    /\ IsOwner(caller)
    /\ ~ IsOwner(receiver)
    /\ state' = TransferTo(state, receiver)
    /\ indexed' = ApproveEvent(TransferEvent(indexed, receiver), DEFAULT_HASH)
    /\ UNCHANGED <<deployed, balance, inflight, granted>>

(* NEAR that the account receives from others.                             *)
ReceiveNear ==
    /\ balance < MaxBalance
    /\ balance' = balance + 1
    /\ UNCHANGED <<state, deployed, inflight, granted, indexed>>

DeployerNext ==
    \/ \E caller \in Owners, old, new \in Hashes : gd_approve(caller, old, new)
    \/ \E code \in Codes, deposit \in Deposits : gd_deploy(code, deposit)
    \/ \E r \in Receipts : gd_post_deploy(r)
    \/ \E r \in Receipts : DeploymentFails(r)
    \/ \E caller, receiver \in Owners : gd_transfer_ownership(caller, receiver)
    \/ ReceiveNear

DeployerSpec == DeployerInit /\ [][DeployerNext]_dvars
-----------------------------------------------------------------------------
(* Whatever is deployed was approved by the account that owns the deployer *)
(* when the deployment takes effect, over the code that is replaced, and   *)
(* the approval is good for one deployment (post_deploy, approve).         *)
DeployedWasApproved ==
    [][\A r \in Receipts :
           inflight[r] # Idle /\ gd_post_deploy(r)
           => /\ granted.hash = deployed'
              /\ granted.by = state.owner_id
              /\ granted.over = state.code_hash
              /\ ~ granted.used]_dvars

(* A deployment whose deposit covers its cost spends none of the balance   *)
(* that the account had when gd_deploy() was called (the refund of         *)
(* post_deploy, with other deployments and payments in between).           *)
CoveredDeploymentIsFree ==
    [][\A r \in Receipts :
           /\ inflight[r] # Idle
           /\ inflight[r].deploy_deposit >= Cost
           /\ gd_post_deploy(r)
           => balance' >= Min({balance, inflight[r].own})]_dvars
=============================================================================
