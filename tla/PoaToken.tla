------------------------------ MODULE PoaToken ------------------------------
(***************************************************************************)
(* The PoA factory and its fungible tokens (contracts/poa): a bridge       *)
(* deploys tokens and deposits into them through the factory, and a user   *)
(* withdraws by sending tokens to the token contract itself.               *)
(*                                                                         *)
(* The factory never looks at the results of the calls that it makes.  A   *)
(* call under way is a job, whose `step' names the receipt that comes      *)
(* next.  Balances, transfers and storage follow near-contract-standards.  *)
(***************************************************************************)
EXTENDS Totals

CONSTANTS
    Holders,          \* accounts that hold tokens, the factory included
    factory,          \* the account of the factory
    Names,            \* names of tokens
    Metadata,         \* metadata of tokens
    MintAmounts,      \* amounts of deposits and transfers
    MaxSupply,        \* u128::MAX
    MaxDropped,       \* bounds the tokens that unregistered accounts give up
    no_registration,  \* the feature: only the owner registers accounts
    Jobs              \* identities of calls under way; bounds their number

ASSUME PoaAssumption ==
    /\ IsFiniteSet(Holders) /\ factory \in Holders
    /\ IsFiniteSet(Jobs)
    /\ MintAmounts \subseteq Nat /\ {MaxSupply, MaxDropped} \subseteq Nat
    /\ no_registration \in BOOLEAN

VARIABLES
    tokens,      \* factory: Contract::tokens
    paused,      \* factory: its methods are paused
    metadata,    \* the metadata of the token contracts that exist
    registered,  \* token: accounts with a storage deposit
    balances,    \* token: FungibleToken::accounts
    supply,      \* token: FungibleToken::total_supply
    jobs,        \* the calls under way
    bridged,     \* what the events FtMint and FtBurn say is in circulation
    dropped,     \* history: what accounts held when they were unregistered
    mint_failed  \* history: some deposit to the token failed

tokenVars == <<metadata, registered, balances, supply, bridged, dropped>>
poaVars == <<tokens, paused, jobs, mint_failed, tokenVars>>
-----------------------------------------------------------------------------
NoJob == [step |-> "none"]
Exists(n) == n \in DOMAIN metadata
At(j, step) == jobs[j].step = step
Goto(j, job) == jobs' = [jobs EXCEPT ![j] = job]
Start(job) == \E j \in Jobs : jobs[j] = NoJob /\ Goto(j, job)
Users == Holders \ {factory}

(* `to' of a deposit is who is credited, `deliver' who the tokens are sent *)
(* on to.                                                                  *)
Deposit(n, to, amount, deliver) ==
    [step |-> "deposit", name |-> n, to |-> to, amount |-> amount, deliver |-> deliver]
Transfer(step, n, from, to, amount) ==
    [step |-> step, name |-> n, from |-> from, to |-> to, amount |-> amount]

PoaInit ==
    /\ tokens = {}
    /\ paused = FALSE
    /\ metadata = <<>>
    /\ registered = [n \in Names |-> {}]
    /\ balances = [n \in Names |-> [a \in Holders |-> 0]]
    /\ supply = [n \in Names |-> 0]
    /\ jobs = [j \in Jobs |-> NoJob]
    /\ bridged = [n \in Names |-> 0]
    /\ dropped = [n \in Names |-> 0]
    /\ mint_failed = [n \in Names |-> FALSE]
-----------------------------------------------------------------------------
(* The factory.  Callers have the roles that the methods ask for.          *)
Pause ==
    /\ paused' = ~ paused
    /\ UNCHANGED <<tokens, jobs, mint_failed, tokenVars>>

IsAnyToken(n) == TRUE
IsNewToken(n) == n \notin tokens

deploy_token(n, md) ==
    /\ ~ paused
    /\ IsNewToken(n)
    /\ tokens' = tokens \cup {n}
    /\ Start([step |-> "create", name |-> n, metadata |-> md])
    /\ UNCHANGED <<paused, mint_failed, tokenVars>>

set_metadata(n, md) ==
    /\ ~ paused
    /\ n \in tokens
    /\ Start([step |-> "set_metadata", name |-> n, metadata |-> md])
    /\ UNCHANGED <<tokens, paused, mint_failed, tokenVars>>

(* With a msg the deposit goes to the factory, which sends it on to the    *)
(* owner with ft_transfer_call().                                          *)
DepositToOwner(owner, has_msg) == owner
DepositTo(owner, has_msg) == IF has_msg THEN factory ELSE owner

ft_deposit(n, owner, amount, has_msg) ==
    /\ ~ paused
    /\ n \in tokens
    /\ Start(Deposit(n, DepositTo(owner, has_msg), amount,
                     IF has_msg THEN {owner} ELSE {}))
    /\ UNCHANGED <<tokens, paused, mint_failed, tokenVars>>
-----------------------------------------------------------------------------
(* The token.  `new' is called with the creation of the account, so that   *)
(* the factory owns every token that exists.                               *)
new(j) ==
    LET job == jobs[j]
    IN  /\ At(j, "create")
        /\ ~ Exists(job.name)
        /\ metadata' = [n \in DOMAIN metadata \cup {job.name} |->
                            IF n = job.name THEN job.metadata ELSE metadata[n]]
        /\ Goto(j, NoJob)
        /\ UNCHANGED <<tokens, paused, mint_failed, registered, balances,
                       supply, bridged, dropped>>

TokenSetMetadata(j) ==
    LET job == jobs[j]
    IN  /\ At(j, "set_metadata")
        /\ Exists(job.name)
        /\ metadata' = [metadata EXCEPT ![job.name] = job.metadata]
        /\ Goto(j, NoJob)
        /\ UNCHANGED <<tokens, paused, mint_failed, registered, balances,
                       supply, bridged, dropped>>

(* The callback of a promise chain runs whether or not its first call did. *)
AfterDeposit(job) ==
    IF job.deliver = {} THEN NoJob
    ELSE Transfer("transfer_call", job.name, factory,
                  CHOOSE owner \in job.deliver : TRUE, job.amount)

(* internal_deposit() panics when the supply would overflow.               *)
TokenDeposit(j) ==
    LET job == jobs[j]
        n == job.name
    IN  /\ At(j, "deposit")
        /\ Exists(n)
        /\ supply[n] + job.amount <= MaxSupply
        /\ registered' = [registered EXCEPT ![n] = @ \cup {job.to}]
        /\ balances' = [balances EXCEPT ![n][job.to] = @ + job.amount]
        /\ supply' = [supply EXCEPT ![n] = @ + job.amount]
        /\ bridged' = [bridged EXCEPT ![n] = @ + job.amount]
        /\ Goto(j, AfterDeposit(job))
        /\ UNCHANGED <<tokens, paused, mint_failed, metadata, dropped>>

(* The first receipt of any call of the factory fails.                     *)
CallFails(j) ==
    /\ jobs[j].step \in {"create", "set_metadata", "deposit"}
    /\ Goto(j, IF At(j, "deposit") THEN AfterDeposit(jobs[j]) ELSE NoJob)
    /\ mint_failed' = IF At(j, "deposit")
                      THEN [mint_failed EXCEPT ![jobs[j].name] = TRUE]
                      ELSE mint_failed
    /\ UNCHANGED <<tokens, paused, tokenVars>>

CanTransfer(n, from, to, amount) ==
    /\ Exists(n)
    /\ from # to
    /\ amount > 0
    /\ {from, to} \subseteq registered[n]
    /\ balances[n][from] >= amount

Move(bs, n, from, to, amount) ==
    [bs EXCEPT ![n][from] = @ - amount, ![n][to] = @ + amount]

(* FungibleToken::internal_withdraw(), with the event FtBurn.              *)
Withdrawn(n, account, amount) ==
    /\ balances' = [balances EXCEPT ![n][account] = @ - amount]
    /\ supply' = [supply EXCEPT ![n] = @ - amount]
    /\ bridged' = [bridged EXCEPT ![n] = @ - amount]

ft_withdrawKeepsSupply(n, account, amount) ==
    /\ Exists(n)
    /\ amount > 0
    /\ account \in registered[n] /\ balances[n][account] >= amount
    /\ bridged' = [bridged EXCEPT ![n] = @ - amount]
    /\ balances' = [balances EXCEPT ![n][account] = @ - amount]
    /\ UNCHANGED <<tokens, paused, jobs, mint_failed, metadata, registered, supply,
                   dropped>>
ft_withdraw(n, account, amount) ==
    /\ Exists(n)
    /\ amount > 0
    /\ account \in registered[n] /\ balances[n][account] >= amount
    /\ Withdrawn(n, account, amount)
    /\ UNCHANGED <<tokens, paused, jobs, mint_failed, metadata, registered, dropped>>

(* A transfer to the token itself whose memo starts with WITHDRAW_TO: is a *)
(* withdrawal; any other is a transfer.                                    *)
ft_transfer(n, from, to, amount) ==
    /\ CanTransfer(n, from, to, amount)
    /\ balances' = Move(balances, n, from, to, amount)
    /\ UNCHANGED <<tokens, paused, jobs, mint_failed, metadata, registered,
                   supply, bridged, dropped>>

ft_transfer_call(n, from, to, amount) ==
    /\ CanTransfer(n, from, to, amount)
    /\ balances' = Move(balances, n, from, to, amount)
    /\ Start(Transfer("on_transfer", n, from, to, amount))
    /\ UNCHANGED <<tokens, paused, mint_failed, metadata, registered,
                   supply, bridged, dropped>>

(* The second call of the factory's deposit.                               *)
Deliver(j) ==
    LET job == jobs[j]
    IN  /\ At(j, "transfer_call")
        /\ IF CanTransfer(job.name, job.from, job.to, job.amount)
           THEN /\ balances' = Move(balances, job.name, job.from, job.to, job.amount)
                /\ Goto(j, [job EXCEPT !.step = "on_transfer"])
           ELSE /\ Goto(j, NoJob)
                /\ UNCHANGED balances
        /\ UNCHANGED <<tokens, paused, mint_failed, metadata, registered,
                       supply, bridged, dropped>>

(* ft_on_transfer() of the receiver and then ft_resolve_transfer(): what   *)
(* is not used goes back as far as the receiver still has it, and is burnt *)
(* when the sender has unregistered.  A call that fails used nothing, and  *)
(* the factory has no ft_on_transfer().                                    *)
OnTransfer(j, unused) ==
    LET job == jobs[j]
    IN  /\ At(j, "on_transfer")
        /\ unused \in 0 .. job.amount
        /\ job.to = factory => unused = job.amount
        /\ Goto(j, [job EXCEPT !.step = "resolve", !.amount = unused])
        /\ UNCHANGED <<tokens, paused, mint_failed, tokenVars>>

UnusedRefund(n, receiver, unused) == Min({balances[n][receiver], unused})

ft_resolve_transfer(j) ==
    LET job == jobs[j]
        n == job.name
        refund == UnusedRefund(n, job.to, job.amount)
    IN  /\ At(j, "resolve")
        /\ Goto(j, NoJob)
        /\ IF job.from \in registered[n]
           THEN /\ balances' = Move(balances, n, job.to, job.from, refund)
                /\ UNCHANGED <<supply, bridged, dropped>>
           ELSE Withdrawn(n, job.to, refund)
        /\ UNCHANGED <<tokens, paused, mint_failed, metadata, registered, dropped>>

storage_deposit(n, account) ==
    /\ Exists(n)
    /\ ~ no_registration
    /\ registered' = [registered EXCEPT ![n] = @ \cup {account}]
    /\ UNCHANGED <<tokens, paused, jobs, mint_failed, metadata, balances,
                   supply, bridged, dropped>>

(* What the account still holds is gone with it, and no event says so.     *)
(* The factory has no method that calls this.                              *)
storage_unregister(n, account, force) ==
    LET amount == balances[n][account]
    IN  /\ Exists(n)
        /\ account \in registered[n] \ {factory}
        /\ amount = 0 \/ force
        /\ dropped[n] + amount <= MaxDropped
        /\ registered' = [registered EXCEPT ![n] = @ \ {account}]
        /\ balances' = [balances EXCEPT ![n][account] = 0]
        /\ supply' = [supply EXCEPT ![n] = @ - amount]
        /\ dropped' = [dropped EXCEPT ![n] = @ + amount]
        /\ UNCHANGED <<tokens, paused, jobs, mint_failed, metadata, bridged>>

PoaNext ==
    \/ Pause
    \/ \E n \in Names, md \in Metadata : deploy_token(n, md) \/ set_metadata(n, md)
    \/ \E n \in Names, owner \in Users, amount \in MintAmounts, has_msg \in BOOLEAN :
           ft_deposit(n, owner, amount, has_msg)
    \/ \E j \in Jobs : \/ new(j) \/ TokenSetMetadata(j) \/ TokenDeposit(j)
                       \/ CallFails(j) \/ Deliver(j) \/ ft_resolve_transfer(j)
    \/ \E j \in Jobs : \E unused \in 0 .. MaxSupply : OnTransfer(j, unused)
    \/ \E n \in Names, from \in Users, amount \in MintAmounts :
           \/ ft_withdraw(n, from, amount)
           \/ \E to \in Holders : \/ ft_transfer(n, from, to, amount)
                                  \/ ft_transfer_call(n, from, to, amount)
    \/ \E n \in Names, account \in Users :
           \/ storage_deposit(n, account)
           \/ \E force \in BOOLEAN : storage_unregister(n, account, force)

PoaSpec == PoaInit /\ [][PoaNext]_poaVars
-----------------------------------------------------------------------------
(* The supply of a token is what its accounts hold, and what the bridge    *)
(* knows from the events to be in circulation, but for the tokens that     *)
(* accounts gave up when they were unregistered: every deposit, withdrawal *)
(* and refund, also one to an account that is gone, is counted once        *)
(* (ft_deposit, ft_withdraw, ft_resolve_transfer).                         *)
SupplyIsBacked ==
    \A n \in Names : /\ supply[n] = SumOf(balances[n], Holders)
                     /\ supply[n] + dropped[n] = bridged[n]

(* What a job still has to pay out of the factory's balance: a deposit     *)
(* that the factory sends on, or a transfer to the factory that goes back. *)
PaidByFactory(job, n) ==
    IF /\ job # NoJob /\ job.name = n
       /\ \/ job.step = "transfer_call"
          \/ job.step \in {"on_transfer", "resolve"} /\ job.to = factory
    THEN job.amount ELSE 0
PaidByJobs(n) == [j \in Jobs |-> PaidByFactory(jobs[j], n)]

(* As long as no deposit to a token has failed, every deposit with a msg   *)
(* finds its own tokens when the factory sends them on (ft_deposit):       *)
(* concurrent deposits pass through one balance and do not take from each  *)
(* other.                                                                  *)
DepositsDoNotMix ==
    \A n \in Names : ~ mint_failed[n] =>
        balances[n][factory] >= SumOf(PaidByJobs(n), Jobs)

(* A name whose deployment failed is lost: deploy_token() has registered   *)
(* it and refuses it from then on.                                         *)
FailedNamesStayDead ==
    [][\A n \in tokens :
           ~ Exists(n) /\ (\A j \in Jobs : jobs[j] = NoJob \/ jobs[j].name # n
                                           \/ ~ At(j, "create"))
           => ~ Exists(n)' /\ \A j \in Jobs : jobs'[j] = NoJob \/ jobs'[j].name # n
                                              \/ jobs'[j].step # "create"]_poaVars
=============================================================================
