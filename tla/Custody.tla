------------------------------ MODULE Custody -------------------------------
(***************************************************************************)
(* The token ledger of the Verifier (contracts/defuse/src/contract/tokens) *)
(* and the cross-contract calls that move tokens into and out of it.       *)
(*                                                                         *)
(* A method or callback of the Verifier is one receipt: it runs alone and  *)
(* a panic undoes it.  Between the receipts of one call, those of other    *)
(* calls run in any order.  A call in flight occupies a slot, whose `step' *)
(* names the receipt that comes next.                                      *)
(*                                                                         *)
(* The amounts of a batch are a function from tokens to numbers: a token   *)
(* that is listed twice is one entry with the sum of its amounts.  The     *)
(* loops that resolve a call take minima entry by entry, but with answers  *)
(* that are arbitrary, so they reach no other results.  A missing account  *)
(* has the balances and the lock of one that was just created; no account  *)
(* is ever removed.                                                        *)
(***************************************************************************)
EXTENDS Integers, FiniteSets, Totals

CONSTANTS
    Accounts,     \* account ids inside the Verifier
    Tokens,       \* token ids
    Nfts,         \* those of them that are NEP-171 tokens
    wnear,        \* the NEP-141 token of storage_wnear_id
    Honest,       \* tokens whose contract keeps to its standard
    Batches,      \* amounts that one external call can carry
    Transfers,    \* amounts that one transfer inside the Verifier can carry
    Mints,        \* amounts that a mint or burn intent can carry
    Reports,      \* amounts that other contracts can answer with
    Slots,        \* identities of calls in flight; bounds their number
    MaxAmount,    \* u128::MAX
    MaxLocked,    \* bounds the number of accounts that are locked at a time
    MaxStorage,   \* bounds the wNEAR spent by one withdrawal or unwrap
    Forced        \* {FALSE} or {FALSE, TRUE}: do force_* methods get called?

Amounts == [Tokens -> 0 .. MaxAmount]

ASSUME CustodyAssumption ==
    /\ MaxAmount \in Nat \ {0}
    /\ MaxLocked \in Nat
    /\ MaxStorage \in 0 .. MaxAmount
    /\ Nfts \subseteq Tokens
    /\ Honest \subseteq Tokens
    /\ wnear \in Honest \ Nfts
    /\ Batches \subseteq Amounts
    /\ \A b \in Batches : \/ \A t \in Honest : b[t] = 0
                         \/ \A t \in Tokens \ Honest : b[t] = 0
    /\ Transfers \subseteq Amounts
    /\ Mints \subseteq Amounts
    /\ Reports \subseteq Amounts
    /\ \A b \in Mints, t \in Honest : b[t] = 0
    /\ Forced \subseteq BOOLEAN
    /\ IsFiniteSet(Accounts)
    /\ IsFiniteSet(Slots)

VARIABLES
    balances,    \* Account::token_balances
    supplies,    \* ContractState::total_supplies
    locked,      \* accounts whose Lock is set
    calls,       \* the calls in flight
    held,        \* what the contract of each honest token says the Verifier owns
    owed,        \* history: what is held on behalf of calls in flight
    stranded     \* history: what is held on behalf of nobody

ledgerVars == <<balances, supplies, locked>>
vars == <<balances, supplies, locked, calls, held, owed, stranded>>
-----------------------------------------------------------------------------
Zero == [t \in Tokens |-> 0]
Plus(f, g) == [t \in Tokens |-> f[t] + g[t]]
Minus(f, g) == [t \in Tokens |-> f[t] - g[t]]
Least(f, g) == [t \in Tokens |-> IF f[t] <= g[t] THEN f[t] ELSE g[t]]
AtMost(f, g) == \A t \in Tokens : f[t] <= g[t]
Only(t, n) == [u \in Tokens |-> IF u = t THEN n ELSE 0]

(* The part of an amount that an honest token contract accounts for.       *)
Real(f) == [t \in Tokens |-> IF t \in Honest THEN f[t] ELSE 0]

OfHonestToken(b) == \A t \in Tokens \ Honest : b[t] = 0

(* What a notified receiver asks back: without a well-formed answer, all.  *)
Everything == [t \in Tokens |-> MaxAmount]
Answers == Reports \cup {Everything}

(* The result of a promise as the callback sees it.                        *)
Status == {"ok", "garbled", "failed"}

Steps == {"on_transfer", "resolve_deposit", "refund_deposit",
          "near_withdraw", "send", "receiver", "resolve_withdraw",
          "resolve_transfer", "unwrap"}

(* A call in flight: what it moves and between whom, the step it is at, in *)
(* a withdrawal the wNEAR set aside for storage_deposit, whether it is a   *)
(* transfer_call, whether the tokens have left, and how it ended.          *)
Call == [step : Steps, owner : Accounts, peer : Accounts, amounts : Amounts,
         storage : 0 .. MaxAmount, is_call : BOOLEAN, moved : BOOLEAN,
         status : Status, reported : Amounts]

Idle == [step |-> "idle"]

NewCall(step, owner, peer, amounts) ==
    [step |-> step, owner |-> owner, peer |-> peer, amounts |-> amounts,
     storage |-> 0, is_call |-> FALSE, moved |-> FALSE, status |-> "ok",
     reported |-> Zero]

At(s, step) == calls[s].step = step
Goto(s, call) == calls' = [calls EXCEPT ![s] = call]
Finish(s) == Goto(s, Idle)

TypeOK ==
    /\ balances \in [Accounts -> Amounts]
    /\ supplies \in Amounts
    /\ locked \subseteq Accounts
    /\ calls \in [Slots -> {Idle} \cup Call]
    /\ held \in Amounts
    /\ owed \in [Tokens -> Int]
    /\ stranded \in [Tokens -> Int]

Init ==
    /\ balances = [a \in Accounts |-> Zero]
    /\ supplies = Zero
    /\ locked = {}
    /\ calls = [s \in Slots |-> Idle]
    /\ held = Zero
    /\ owed = Zero
    /\ stranded = Zero
-----------------------------------------------------------------------------
(* Contract::deposit: the checked additions, and no NFT twice.             *)
CanDeposit(owner, b) ==
    /\ \A t \in Tokens : /\ supplies[t] + b[t] <= MaxAmount
                         /\ balances[owner][t] + b[t] <= MaxAmount
    /\ \A t \in Nfts : b[t] > 0 => supplies[t] + b[t] <= 1

Deposit(owner, b) ==
    /\ CanDeposit(owner, b)
    /\ balances' = [balances EXCEPT ![owner] = Plus(@, b)]
    /\ supplies' = Plus(supplies, b)

(* Contract::withdraw: the lock, unless forced, and the checked            *)
(* subtractions from the balance and from the supply.                      *)
CanBurn(owner, b) == AtMost(b, balances[owner]) /\ AtMost(b, supplies)

WithdrawLocked(owner, b, force) ==
    /\ b # Zero
    /\ CanBurn(owner, b)
    /\ balances' = [balances EXCEPT ![owner] = Minus(@, b)]
    /\ supplies' = Minus(supplies, b)
Withdraw(owner, b, force) ==
    /\ owner \notin locked \/ force
    /\ b # Zero
    /\ CanBurn(owner, b)
    /\ balances' = [balances EXCEPT ![owner] = Minus(@, b)]
    /\ supplies' = Minus(supplies, b)

(* internal_mt_batch_transfer, on the balances `bal'.                      *)
CanTransfer(bal, sender, receiver, b, force) ==
    /\ sender # receiver
    /\ sender \notin locked \/ force
    /\ b # Zero
    /\ AtMost(b, bal[sender])
    /\ \A t \in Tokens : bal[receiver][t] + b[t] <= MaxAmount

Transferred(bal, sender, receiver, b) ==
    LET debited == [bal EXCEPT ![sender] = Minus(bal[sender], b)]
    IN  [debited EXCEPT ![receiver] = Plus(debited[receiver], b)]
-----------------------------------------------------------------------------
(* Deposits: ft_transfer_call, nft_transfer_call or mt_batch_transfer_call *)
(* of a token contract in favour of the Verifier.                          *)

(* An honest contract has no more tokens than fit in a u128, and one NFT   *)
(* of each id; others cannot give the Verifier more than they have.        *)
CanReceive(b) ==
    \A t \in Honest : held[t] + b[t] <= IF t \in Nfts THEN 1 ELSE MaxAmount

(* The token contract moves the tokens to the Verifier and calls           *)
(* *_on_transfer.                                                          *)
SendDeposit(s, owner, b) ==
    /\ At(s, "idle")
    /\ b # Zero
    /\ CanReceive(b)
    /\ Goto(s, NewCall("on_transfer", owner, owner, b))
    /\ held' = Plus(held, Real(b))
    /\ owed' = Plus(owed, Real(b))
    /\ UNCHANGED <<ledgerVars, stranded>>

(* {ft,nft,mt}_on_transfer without an action, or with intents to execute   *)
(* later: the whole amount is credited and 0 is returned.                  *)
OnTransfer(s) ==
    /\ At(s, "on_transfer")
    /\ Deposit(calls[s].owner, calls[s].amounts)
    /\ owed' = Minus(owed, Real(calls[s].amounts))
    /\ Finish(s)
    /\ UNCHANGED <<locked, held, stranded>>

(* The same with DepositAction::Notify: the credited account is called,    *)
(* and *_resolve_deposit decides what goes back.                           *)
OnTransferNotify(s) ==
    /\ At(s, "on_transfer")
    /\ Deposit(calls[s].owner, calls[s].amounts)
    /\ owed' = Minus(owed, Real(calls[s].amounts))
    /\ Goto(s, [calls[s] EXCEPT !.step = "resolve_deposit"])
    /\ UNCHANGED <<locked, held, stranded>>

(* The same with DepositAction::Execute and refund_if_fails: the intents,  *)
(* here one transfer of what was deposited, run in the same receipt.       *)
OnTransferExecute(s, receiver) ==
    LET c == calls[s]
        deposited == [balances EXCEPT ![c.owner] = Plus(@, c.amounts)]
    IN  /\ At(s, "on_transfer")
        /\ CanDeposit(c.owner, c.amounts)
        /\ CanTransfer(deposited, c.owner, receiver, c.amounts, FALSE)
        /\ balances' = Transferred(deposited, c.owner, receiver, c.amounts)
        /\ supplies' = Plus(supplies, c.amounts)
        /\ owed' = Minus(owed, Real(c.amounts))
        /\ Finish(s)
        /\ UNCHANGED <<locked, held, stranded>>

(* The same when it panics: it is paused, the message is malformed, the    *)
(* deposit is refused or an intent fails.  All goes back.                  *)
OnTransferPanic(s) ==
    /\ At(s, "on_transfer")
    /\ Goto(s, [calls[s] EXCEPT !.step = "refund_deposit"])
    /\ UNCHANGED <<ledgerVars, held, owed, stranded>>

(* resolve_deposit_internal: what is refunded when `requested' is asked    *)
(* for, which is everything when the answer is missing or malformed.       *)
RefundUncapped(s, requested) == Least(requested, calls[s].amounts)
DepositRefund(s, requested) ==
    Least(Least(requested, calls[s].amounts), balances[calls[s].owner])

ResolveDepositUnburnt(s, requested) ==
    LET refund == DepositRefund(s, requested)
    IN  /\ At(s, "resolve_deposit")
        /\ CanBurn(calls[s].owner, refund)
        /\ balances' = [balances EXCEPT ![calls[s].owner] = Minus(@, refund)]
        /\ owed' = Plus(owed, Real(refund))
        /\ Goto(s, [calls[s] EXCEPT !.step = "refund_deposit",
                                    !.amounts = refund])
        /\ UNCHANGED <<supplies, locked, held, stranded>>
ResolveDeposit(s, requested) ==
    LET refund == DepositRefund(s, requested)
    IN  /\ At(s, "resolve_deposit")
        /\ CanBurn(calls[s].owner, refund)
        /\ balances' = [balances EXCEPT ![calls[s].owner] = Minus(@, refund)]
        /\ supplies' = Minus(supplies, refund)
        /\ owed' = Plus(owed, Real(refund))
        /\ Goto(s, [calls[s] EXCEPT !.step = "refund_deposit",
                                    !.amounts = refund])
        /\ UNCHANGED <<locked, held, stranded>>

(* The token contract takes back what *_on_transfer returned.              *)
RefundDeposit(s) ==
    LET back == Real(calls[s].amounts)
    IN  /\ At(s, "refund_deposit")
        /\ AtMost(back, held)
        /\ held' = Minus(held, back)
        /\ owed' = Minus(owed, back)
        /\ Finish(s)
        /\ UNCHANGED <<ledgerVars, stranded>>
-----------------------------------------------------------------------------
(* Withdrawals: ft_withdraw, nft_withdraw and mt_withdraw, as methods, as  *)
(* intents and forced.                                                     *)

(* internal_{ft,nft,mt}_withdraw: both the tokens and the wNEAR that pays  *)
(* for storage_deposit are burnt before anything is sent.                  *)
StartWithdraw(s, owner, b, storage, is_call, force) ==
    /\ At(s, "idle")
    /\ b # Zero
    /\ Withdraw(owner, Plus(b, Only(wnear, storage)), force)
    /\ Goto(s, [NewCall(IF storage > 0 THEN "near_withdraw" ELSE "send",
                        owner, owner, b)
                EXCEPT !.storage = storage, !.is_call = is_call])
    /\ owed' = Plus(owed, Plus(Real(b), Only(wnear, storage)))
    /\ UNCHANGED <<locked, held, stranded>>

(* wNEAR is unwrapped; do_*_withdraw goes on to the token contract.        *)
NearWithdraw(s) ==
    LET spent == Only(wnear, calls[s].storage)
    IN  /\ At(s, "near_withdraw")
        /\ AtMost(spent, held)
        /\ held' = Minus(held, spent)
        /\ owed' = Minus(owed, spent)
        /\ Goto(s, [calls[s] EXCEPT !.step = "send", !.storage = 0])
        /\ UNCHANGED <<ledgerVars, stranded>>

(* near_withdraw() fails, so do_*_withdraw panics: the wNEAR stays with    *)
(* the Verifier, and *_resolve_withdraw sees a failed transfer.            *)
NearWithdrawFails(s) ==
    LET kept == Only(wnear, calls[s].storage)
    IN  /\ At(s, "near_withdraw")
        /\ owed' = Minus(owed, kept)
        /\ stranded' = Plus(stranded, kept)
        /\ Goto(s, [calls[s] EXCEPT !.step = "resolve_withdraw",
                                    !.status = "failed", !.storage = 0])
        /\ UNCHANGED <<ledgerVars, held>>

(* The token contract transfers the tokens.  A plain transfer is over; a   *)
(* transfer_call goes on to the receiver.                                  *)
Send(s) ==
    LET sent == Real(calls[s].amounts)
    IN  /\ At(s, "send")
        /\ OfHonestToken(calls[s].amounts)
        /\ AtMost(sent, held)
        /\ held' = Minus(held, sent)
        /\ owed' = Minus(owed, sent)
        /\ Goto(s, [calls[s] EXCEPT
                      !.step = IF calls[s].is_call THEN "receiver"
                                            ELSE "resolve_withdraw",
                      !.moved = TRUE])
        /\ UNCHANGED <<ledgerVars, stranded>>

(* The transfer fails, or the receiver has no storage at the token.        *)
SendFails(s) ==
    /\ At(s, "send")
    /\ Goto(s, [calls[s] EXCEPT !.step = "resolve_withdraw",
                                !.status = "failed"])
    /\ UNCHANGED <<ledgerVars, held, owed, stranded>>

(* The receiver of a transfer_call leaves `unused', which the token        *)
(* contract gives back to the Verifier as far as the receiver still has    *)
(* it; the contract answers with the amounts used.                         *)
ReceiverReturns(s, unused) ==
    /\ At(s, "receiver")
    /\ AtMost(unused, calls[s].amounts)
    /\ CanReceive(unused)
    /\ held' = Plus(held, Real(unused))
    /\ owed' = Plus(owed, Real(unused))
    /\ Goto(s, [calls[s] EXCEPT !.step = "resolve_withdraw",
                                !.reported = Minus(calls[s].amounts, unused)])
    /\ UNCHANGED <<ledgerVars, stranded>>

(* The resolve callback of the token contract runs out of gas: the         *)
(* receiver keeps the tokens although the call is reported as failed.      *)
TokenResolveFails(s) ==
    /\ At(s, "receiver")
    /\ Goto(s, [calls[s] EXCEPT !.step = "resolve_withdraw",
                                !.status = "failed"])
    /\ UNCHANGED <<ledgerVars, held, owed, stranded>>

(* A token contract that keeps to no standard answers as it likes.         *)
RogueAnswers(s, status, reported) ==
    /\ At(s, "send")
    /\ ~OfHonestToken(calls[s].amounts)
    /\ Goto(s, [calls[s] EXCEPT !.step = "resolve_withdraw",
                                !.status = status, !.reported = reported])
    /\ UNCHANGED <<ledgerVars, held, owed, stranded>>

(* What *_resolve_withdraw takes to have been transferred.                 *)
UsedUnlessFailed(c) ==
    IF c.status # "ok" THEN Zero
    ELSE IF c.is_call THEN Least(c.reported, c.amounts) ELSE c.amounts
UsedIfSent(c) == c.amounts
Used(c) ==
    CASE c.is_call /\ c.status = "ok"      -> Least(c.reported, c.amounts)
      [] c.is_call /\ c.status = "garbled" -> Zero
      [] c.is_call /\ c.status = "failed"  -> c.amounts
      [] ~c.is_call /\ c.status = "ok"     -> c.amounts
      [] OTHER                             -> Zero

WithdrawRefund(c) == Minus(c.amounts, Used(c))

(* What the Verifier still holds of a withdrawal when it is resolved.      *)
Unsent(c) ==
    IF ~c.moved THEN Real(c.amounts)
    ELSE IF c.is_call /\ c.status = "ok" THEN Real(Minus(c.amounts, c.reported))
    ELSE Zero

(* {ft,nft,mt}_resolve_withdraw.  What is still held and not refunded is   *)
(* nobody's.                                                               *)
ResolveWithdraw(s) ==
    LET c == calls[s]
        lost == Minus(Unsent(c), Real(WithdrawRefund(c)))
    IN  /\ At(s, "resolve_withdraw")
        /\ Deposit(c.owner, WithdrawRefund(c))
        /\ owed' = Minus(owed, Unsent(c))
        /\ stranded' = Plus(stranded, lost)
        /\ Finish(s)
        /\ UNCHANGED <<locked, held>>

(* The same when the deposit of the refund is refused: the callback panics *)
(* and the refund is lost.                                                 *)
ResolveWithdrawPanic(s) ==
    LET c == calls[s]
    IN  /\ At(s, "resolve_withdraw")
        /\ ~CanDeposit(c.owner, WithdrawRefund(c))
        /\ owed' = Minus(owed, Unsent(c))
        /\ stranded' = Plus(stranded, Unsent(c))
        /\ Finish(s)
        /\ UNCHANGED <<ledgerVars, held>>

(* The native_withdraw, storage_deposit and auth_call intents: wNEAR is    *)
(* burnt and unwrapped, and then spent as NEAR.                            *)
StartUnwrap(s, owner, n) ==
    /\ At(s, "idle")
    /\ Withdraw(owner, Only(wnear, n), FALSE)
    /\ Goto(s, [NewCall("unwrap", owner, owner, Zero) EXCEPT !.storage = n])
    /\ owed' = Plus(owed, Only(wnear, n))
    /\ UNCHANGED <<locked, held, stranded>>

Unwrap(s) ==
    LET spent == Only(wnear, calls[s].storage)
    IN  /\ At(s, "unwrap")
        /\ AtMost(spent, held)
        /\ held' = Minus(held, spent)
        /\ owed' = Minus(owed, spent)
        /\ Finish(s)
        /\ UNCHANGED <<ledgerVars, stranded>>

(* near_withdraw() fails: do_native_withdraw, do_storage_deposit or        *)
(* do_auth_call panics, and nothing credits the owner again.               *)
UnwrapFails(s) ==
    LET kept == Only(wnear, calls[s].storage)
    IN  /\ At(s, "unwrap")
        /\ owed' = Minus(owed, kept)
        /\ stranded' = Plus(stranded, kept)
        /\ Finish(s)
        /\ UNCHANGED <<ledgerVars, held>>
-----------------------------------------------------------------------------
(* Transfers inside the Verifier: mt_transfer, mt_batch_transfer, their    *)
(* forced forms and the transfer intent.                                   *)
Transfer(sender, receiver, b, force) ==
    /\ CanTransfer(balances, sender, receiver, b, force)
    /\ balances' = Transferred(balances, sender, receiver, b)
    /\ UNCHANGED <<supplies, locked, calls, held, owed, stranded>>

(* mt_transfer_call, mt_batch_transfer_call, their forced forms and the    *)
(* transfer intent with a notification.                                    *)
TransferCall(s, sender, receiver, b, force) ==
    /\ At(s, "idle")
    /\ CanTransfer(balances, sender, receiver, b, force)
    /\ balances' = Transferred(balances, sender, receiver, b)
    /\ Goto(s, NewCall("resolve_transfer", sender, receiver, b))
    /\ UNCHANGED <<supplies, locked, held, owed, stranded>>

(* mt_resolve_transfer, when the receiver asks to return `requested': all  *)
(* of it when the answer is missing or malformed.                          *)
TransferRefund(s, requested) ==
    Least(Least(requested, calls[s].amounts), balances[calls[s].peer])

Returned(s, refund) ==
    Transferred(balances, calls[s].peer, calls[s].owner, refund)
CanReturn(s, refund) ==
    /\ AtMost(refund, balances[calls[s].peer])
    /\ AtMost(Returned(s, refund)[calls[s].owner], Everything)

ResolveTransfer(s, requested) ==
    LET refund == TransferRefund(s, requested)
    IN  /\ At(s, "resolve_transfer")
        /\ CanReturn(s, refund)
        /\ balances' = Returned(s, refund)
        /\ Finish(s)
        /\ UNCHANGED <<supplies, locked, held, owed, stranded>>

(* The imt_mint intent, for tokens that exist only inside the Verifier,    *)
(* without and with a notification; the minter then gets the refund.       *)
Mint(receiver, b) ==
    /\ b # Zero
    /\ Deposit(receiver, b)
    /\ UNCHANGED <<locked, calls, held, owed, stranded>>

MintNotify(s, minter, receiver, b) ==
    /\ At(s, "idle")
    /\ b # Zero
    /\ Deposit(receiver, b)
    /\ Goto(s, NewCall("resolve_transfer", minter, receiver, b))
    /\ UNCHANGED <<locked, held, owed, stranded>>

(* The imt_burn intent and method.                                         *)
Burn(owner, b) ==
    /\ Withdraw(owner, b, FALSE)
    /\ UNCHANGED <<locked, calls, held, owed, stranded>>

(* force_lock_account and force_unlock_account.                            *)
Lock(a) ==
    /\ a \notin locked
    /\ Cardinality(locked) < MaxLocked
    /\ locked' = locked \cup {a}
    /\ UNCHANGED <<balances, supplies, calls, held, owed, stranded>>

Unlock(a) ==
    /\ a \in locked
    /\ locked' = locked \ {a}
    /\ UNCHANGED <<balances, supplies, calls, held, owed, stranded>>
-----------------------------------------------------------------------------
(* The receipts of the call in slot s, and of the contracts it calls.      *)
Continue(s) ==
    \/ OnTransfer(s)
    \/ OnTransferNotify(s)
    \/ \E a \in Accounts : OnTransferExecute(s, a)
    \/ OnTransferPanic(s)
    \/ \E r \in Answers : ResolveDeposit(s, r)
    \/ RefundDeposit(s)
    \/ NearWithdraw(s)
    \/ NearWithdrawFails(s)
    \/ Send(s)
    \/ SendFails(s)
    \/ \E r \in Reports : ReceiverReturns(s, r)
    \/ TokenResolveFails(s)
    \/ \E status \in Status, r \in Reports : RogueAnswers(s, status, r)
    \/ ResolveWithdraw(s)
    \/ ResolveWithdrawPanic(s)
    \/ Unwrap(s)
    \/ UnwrapFails(s)
    \/ \E r \in Answers : ResolveTransfer(s, r)

(* The calls that start in slot s.                                         *)
Start(s) ==
    \E a \in Accounts :
        \/ \E b \in Batches : SendDeposit(s, a, b)
        \/ \E b \in Batches, n \in 0 .. MaxStorage, is_call \in BOOLEAN :
              StartWithdraw(s, a, b, n, is_call, FALSE)
        \/ \E b \in Batches, is_call \in BOOLEAN :
              TRUE \in Forced /\ StartWithdraw(s, a, b, 0, is_call, TRUE)
        \/ \E n \in 1 .. MaxStorage : StartUnwrap(s, a, n)
        \/ \E r \in Accounts, b \in Transfers, force \in Forced :
              TransferCall(s, a, r, b, force)
        \/ \E r \in Accounts, b \in Mints : MintNotify(s, a, r, b)

Next ==
    \/ \E s \in Slots : Start(s) \/ Continue(s)
    \/ \E a \in Accounts :
        \/ \E r \in Accounts, b \in Transfers, force \in Forced :
              Transfer(a, r, b, force)
        \/ \E b \in Mints : Mint(a, b) \/ Burn(a, b)
        \/ Lock(a)
        \/ Unlock(a)

Spec == Init /\ [][Next]_vars
-----------------------------------------------------------------------------
(* What the Verifier holds on behalf of the call c.                        *)
Pending(c) ==
    CASE c.step \in {"on_transfer", "refund_deposit", "send"} -> Real(c.amounts)
      [] c.step = "near_withdraw" ->
            Plus(Real(c.amounts), Only(wnear, c.storage))
      [] c.step = "unwrap" -> Only(wnear, c.storage)
      [] c.step = "resolve_withdraw" -> Unsent(c)
      [] OTHER -> Zero

PendingOf(t) == [s \in Slots |-> Pending(calls[s])[t]]
BalancesOf(t) == [a \in Accounts |-> balances[a][t]]

(* Solvency: of every honest token, the Verifier holds exactly what its    *)
(* accounts own together, what calls in flight are about to move, and what *)
(* failed calls left behind.  No interleaving of deposits, withdrawals,    *)
(* refunds and their callbacks creates or loses a token.                   *)
Solvent ==
    \A t \in Honest :
        /\ held[t] = supplies[t] + owed[t] + stranded[t]
        /\ owed[t] >= 0
        /\ stranded[t] >= 0

(* The total supply that mt_supply reports, and that guards NFTs and       *)
(* overflow, is the sum of the balances; and what is owed is owed to a     *)
(* call that will still move it.                                           *)
SuppliesAreSums ==
    \A t \in Tokens : /\ supplies[t] = SumOf(BalancesOf(t), Accounts)
                      /\ owed[t] = SumOf(PendingOf(t), Slots)

(* An NFT is never credited twice (NftAlreadyDeposited), not even when its *)
(* contract deposits it again while a refund of it is on its way.          *)
NftsAreUnique ==
    \A t \in Nfts : supplies[t] <= 1

(* The ledger of deposit and withdraw adds up: supplies are sums, and no   *)
(* NFT has two owners.                                                     *)
LedgerAddsUp == SuppliesAreSums /\ NftsAreUnique

(* No resolve callback panics over tokens of an honest contract: the       *)
(* unwraps in resolve_deposit_internal, *_resolve_withdraw and             *)
(* mt_resolve_transfer never fail, so a refund is never lost.              *)
ResolversNeverPanic ==
    \A s \in Slots :
        /\ At(s, "resolve_deposit") =>
              \A r \in Answers : CanBurn(calls[s].owner, DepositRefund(s, r))
        /\ At(s, "resolve_transfer") =>
              \A r \in Answers : CanReturn(s, TransferRefund(s, r))
        /\ At(s, "resolve_withdraw") /\ OfHonestToken(calls[s].amounts) =>
              CanDeposit(calls[s].owner, WithdrawRefund(calls[s]))

(* While an account is locked and nobody forces it, its balance shrinks    *)
(* only by the refund of a deposit or a transfer it was notified of, and   *)
(* by no more than came in with it.                                        *)
LockedKeepsFunds ==
    [][\A a \in locked, t \in Tokens :
          balances'[a][t] < balances[a][t] =>
            \E s \in Slots :
              /\ calls'[s] # calls[s]
              /\ calls[s].step \in {"resolve_deposit", "resolve_transfer"}
              /\ calls[s].peer = a
              /\ balances[a][t] - balances'[a][t] <= calls[s].amounts[t]]_vars

(* Tokens are left without an owner only when near_withdraw fails or when  *)
(* a *_transfer_call is reported as failed, in which case the code refuses *)
(* to refund; a plain withdrawal that fails is always refunded.            *)
OnlyFailedCallsStrand ==
    [][stranded' # stranded =>
          \E s \in Slots :
            /\ calls'[s] # calls[s]
            /\ \/ calls[s].step \in {"near_withdraw", "unwrap"}
               \/ /\ calls[s].step = "resolve_withdraw"
                  /\ calls[s].is_call
                  /\ calls[s].status = "failed"]_vars
=============================================================================
