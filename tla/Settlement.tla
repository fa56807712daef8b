----------------------------- MODULE Settlement -----------------------------
(***************************************************************************)
(* How execute_intents settles a batch of signed intents.  The intents     *)
(* change balances one after the other, and need not add up one by one: a  *)
(* token diff says what its signer gives and takes, not to and from whom.  *)
(* Deltas records the net change of every account; when all intents have   *)
(* run, the transfer matcher turns the changes into transfers between      *)
(* accounts, or the whole batch fails because they do not add up.          *)
(*                                                                         *)
(* Tokens do not meet before the end of the batch, so an intent over       *)
(* several tokens does to each what an intent over that token alone does,  *)
(* and intents here have one token.  An intent is a list `todo' of changes *)
(* of balances, made one per step with nothing in between.                 *)
(***************************************************************************)
EXTENDS Integers, Sequences, Totals

CONSTANTS
    Accounts,
    Fts, Mts, Nfts,     \* NEP-141 tokens, NEP-245 and internal tokens, NEP-171 tokens
    collector,          \* FeesConfig::fee_collector
    fee, MaxPips,       \* FeesConfig::fee, and 100%
    MaxAmount,          \* u128::MAX
    MaxDelta,           \* i128::MAX
    Initial,            \* the balances to start from
    Deltas,             \* the deltas of token diffs
    Moves,              \* the amounts of transfers, withdrawals and mints
    MaxIntents,         \* bound on the intents of a batch
    None                \* no account

Tokens == Fts \cup Mts \cup Nfts
Holdings == Accounts \X Tokens

ASSUME SettlementAssumption ==
    /\ IsFiniteSet(Accounts)
    /\ collector \in Accounts
    /\ None \notin Accounts
    /\ MaxPips \in Nat \ {0} /\ fee \in 0 .. MaxPips
    /\ MaxDelta \in Nat \ {0} /\ MaxAmount \in Nat /\ MaxDelta <= MaxAmount
    /\ Initial \subseteq [Holdings -> 0 .. MaxAmount]
    /\ Deltas \subseteq (-MaxDelta .. MaxDelta) \ {0}
    /\ Moves \subseteq 1 .. MaxAmount
    /\ MaxIntents \in Nat
    /\ Fts \cap (Mts \cup Nfts) = {} /\ Mts \cap Nfts = {}

VARIABLES
    phase,          \* "executing", "matching", or how the batch ended
    balances,
    deposits,       \* TokenTransferMatcher::deposits of each token
    withdrawals,    \* TokenTransferMatcher::withdrawals
    todo,           \* what is left of the running intent
    sender,         \* the matcher's current sender of each token, if any
    receiver,       \* and receiver
    transfers,      \* the transfers that it found
    before,         \* history: the balances before the batch
    outside,        \* history: what was minted to or withdrawn from an account
    net,            \* history: the supply delta of the token diffs
    closed,         \* history: tokens of which a closure was the last intent
    intents         \* number of intents so far

vars == <<phase, balances, deposits, withdrawals, todo, sender, receiver, transfers,
          before, outside, net, closed, intents>>
history == <<before, outside, net, closed, intents>>
matching == <<sender, receiver, transfers>>

---------------------------------------------------------------------------
(* Fees, and the closure of token diffs. *)

Abs(d) == IF d < 0 THEN -d ELSE d

TokenFee(t, amount) ==
    IF t \in Fts \/ (t \in Mts /\ amount > 1) THEN fee ELSE 0

FeeCeil(pips, amount) == (amount * pips + MaxPips - 1) \div MaxPips

\* Division in TLA+ rounds down: of a negative product this is div_ceil when the
\* signs are turned around, and div_euclid as it stands.
SupplyDelta(t, delta) ==
    IF delta < 0
    THEN -((-delta * (MaxPips - TokenFee(t, Abs(delta)))) \div MaxPips)
    ELSE delta

ClosureSupplyDelta(t, delta) ==
    IF -delta < 0
    THEN (-delta * MaxPips) \div (MaxPips - TokenFee(t, Abs(delta)))
    ELSE -delta

---------------------------------------------------------------------------
(* The intents. *)

\* A change that is `outside' goes past the deltas.
Change(a, t, delta) == [holding |-> <<a, t>>, delta |-> delta, outside |-> FALSE]
OutsideChange(a, t, delta) == [holding |-> <<a, t>>, delta |-> delta, outside |-> TRUE]

Execute(changes) ==
    /\ phase = "executing" /\ todo = <<>>
    /\ intents < MaxIntents
    /\ intents' = intents + 1
    /\ todo' = changes
    /\ UNCHANGED <<phase, balances, deposits, withdrawals, matching, before, outside>>

Transfer(a, b, t, amount) ==
    /\ a # b
    /\ Execute(<<Change(a, t, -amount), Change(b, t, amount)>>)
    /\ closed' = closed \ {t}
    /\ UNCHANGED net

FeeChanges(t, delta) ==
    LET collected == FeeCeil(TokenFee(t, Abs(delta)), Abs(delta))
    IN  IF delta < 0 /\ collected > 0 THEN <<Change(collector, t, collected)>> ELSE <<>>

TokenDiff(a, t, delta) ==
    /\ Execute(<<Change(a, t, delta)>> \o FeeChanges(t, delta))
    /\ net' = [net EXCEPT ![t] = @ + SupplyDelta(t, delta)]
    /\ closed' = closed \ {t}

\* A solver computes with closure_many what the token diffs so far lack, and adds it.
Close(a, t) ==
    LET closure == ClosureSupplyDelta(t, net[t]) IN
    /\ net[t] # 0
    /\ fee < MaxPips
    /\ Abs(closure) <= MaxDelta
    /\ Execute(<<Change(a, t, closure)>> \o FeeChanges(t, closure))
    /\ net' = [net EXCEPT ![t] = @ + SupplyDelta(t, closure)]
    /\ closed' = closed \cup {t}

\* Withdrawals and burns take tokens out of the contract, mints bring them into being.
Withdraw(a, t, amount) ==
    /\ Execute(<<OutsideChange(a, t, -amount)>>)
    /\ UNCHANGED <<net, closed>>

Mint(a, t, amount) ==
    /\ Execute(<<OutsideChange(a, t, amount)>>)
    /\ UNCHANGED <<net, closed>>

---------------------------------------------------------------------------
(* The changes of balances. *)

Lesser(m, n) == IF m <= n THEN m ELSE n

SubAddMutantTwice(sub, add, amount) ==
    [sub |-> sub - Lesser(sub, amount), add |-> add + amount]

SubAdd(sub, add, amount) ==
    LET a == Lesser(sub, amount) IN [sub |-> sub - a, add |-> add + (amount - a)]

\* The maps of a holding after a withdrawal (delta < 0) or a deposit.
Withdrawn(h, delta) == SubAdd(deposits[h], withdrawals[h], -delta)
Deposited(h, delta) == SubAdd(withdrawals[h], deposits[h], delta)

DepositsAfter(h, delta) == IF delta < 0 THEN Withdrawn(h, delta).sub ELSE Deposited(h, delta).add
WithdrawalsAfter(h, delta) == IF delta < 0 THEN Withdrawn(h, delta).add ELSE Deposited(h, delta).sub

\* Every sum and difference is checked.
Fits(c) ==
    /\ balances[c.holding] + c.delta \in 0 .. MaxAmount
    /\ ~c.outside => /\ DepositsAfter(c.holding, c.delta) <= MaxAmount
                     /\ WithdrawalsAfter(c.holding, c.delta) <= MaxAmount

Step ==
    LET c == Head(todo)
        h == c.holding
    IN  /\ phase = "executing" /\ todo # <<>>
        /\ Fits(c)
        /\ balances' = [balances EXCEPT ![h] = @ + c.delta]
        /\ IF c.outside
           THEN /\ outside' = [outside EXCEPT ![h] = @ + c.delta]
                /\ UNCHANGED <<deposits, withdrawals>>
           ELSE /\ deposits' = [deposits EXCEPT ![h] = DepositsAfter(h, c.delta)]
                /\ withdrawals' = [withdrawals EXCEPT ![h] = WithdrawalsAfter(h, c.delta)]
                /\ UNCHANGED outside
        /\ todo' = Tail(todo)
        /\ UNCHANGED <<phase, matching, before, net, closed, intents>>

\* The receipt panics: the balances are what they were.
RolledBack(result) ==
    /\ phase' = result
    /\ balances' = before
    /\ todo' = <<>>
    /\ UNCHANGED <<deposits, withdrawals, matching, history>>

StepFails ==
    /\ phase = "executing" /\ todo # <<>>
    /\ ~Fits(Head(todo))
    /\ RolledBack("failed")

---------------------------------------------------------------------------
(* The transfer matcher. *)

\* The next entry of a list that is sorted by descending amounts is any largest one
\* of those that are left.
Largest(amounts, t) ==
    LET left == {a \in Accounts : amounts[<<a, t>>] > 0}
    IN  IF left = {} THEN {None}
        ELSE {a \in left : \A b \in left : amounts[<<b, t>>] <= amounts[<<a, t>>]}

Finalize ==
    /\ phase = "executing" /\ todo = <<>>
    /\ phase' = "matching"
    /\ sender' \in [Tokens -> Accounts \cup {None}]
    /\ receiver' \in [Tokens -> Accounts \cup {None}]
    /\ \A t \in Tokens : sender'[t] \in Largest(withdrawals, t) /\ receiver'[t] \in Largest(deposits, t)
    /\ UNCHANGED <<balances, deposits, withdrawals, todo, transfers, history>>

\* One round of the loop of finalize_into.
Match(t) ==
    /\ phase = "matching"
    /\ sender[t] # None /\ receiver[t] # None
    /\ LET s == <<sender[t], t>>
           r == <<receiver[t], t>>
           amount == Lesser(withdrawals[s], deposits[r])
       IN  /\ transfers' = [transfers EXCEPT ![<<sender[t], receiver[t], t>>] = @ + amount]
           /\ withdrawals' = [withdrawals EXCEPT ![s] = @ - amount]
           /\ deposits' = [deposits EXCEPT ![r] = @ - amount]
           /\ \E a \in IF withdrawals'[s] = 0 THEN Largest(withdrawals', t) ELSE {sender[t]} :
                 sender' = [sender EXCEPT ![t] = a]
           /\ \E a \in IF deposits'[r] = 0 THEN Largest(deposits', t) ELSE {receiver[t]} :
                 receiver' = [receiver EXCEPT ![t] = a]
    /\ UNCHANGED <<phase, balances, todo, history>>

Matched == \A t \in Tokens : sender[t] = None \/ receiver[t] = None

\* What all accounts have of a token.
Column(f, t) == [a \in Accounts |-> f[<<a, t>>]]
Total(f, t) == SumOf(Column(f, t), Accounts)

\* What finalize_into could not match, as a delta of the token.
Unmatched(t) == Total(deposits, t) - Total(withdrawals, t)

\* Receivers that are left are forgotten.
SettleMutant ==
    /\ phase = "matching" /\ Matched
    /\ \A t \in Tokens : sender[t] = None
    /\ phase' = "settled"
    /\ UNCHANGED <<balances, deposits, withdrawals, todo, matching, history>>

Settle ==
    /\ phase = "matching" /\ Matched
    /\ \A t \in Tokens : sender[t] = None /\ receiver[t] = None
    /\ phase' = "settled"
    /\ UNCHANGED <<balances, deposits, withdrawals, todo, matching, history>>

SettleFails ==
    /\ phase = "matching" /\ Matched
    /\ \E t \in Tokens : sender[t] # None \/ receiver[t] # None
    /\ RolledBack(IF \E t \in Tokens : Abs(Unmatched(t)) > MaxDelta THEN "overflow" ELSE "unmatched")

---------------------------------------------------------------------------

Init ==
    /\ phase = "executing"
    /\ before \in Initial
    /\ balances = before
    /\ deposits = [h \in Holdings |-> 0]
    /\ withdrawals = [h \in Holdings |-> 0]
    /\ todo = <<>>
    /\ sender = [t \in Tokens |-> None]
    /\ receiver = [t \in Tokens |-> None]
    /\ transfers = [x \in Accounts \X Accounts \X Tokens |-> 0]
    /\ outside = [h \in Holdings |-> 0]
    /\ net = [t \in Tokens |-> 0]
    /\ closed = {}
    /\ intents = 0

Next ==
    \/ \E a, b \in Accounts, t \in Tokens, amount \in Moves : Transfer(a, b, t, amount)
    \/ \E a \in Accounts, t \in Tokens, delta \in Deltas : TokenDiff(a, t, delta)
    \/ \E a \in Accounts, t \in Tokens : Close(a, t)
    \/ \E a \in Accounts, t \in Tokens, amount \in Moves :
          Withdraw(a, t, amount) \/ Mint(a, t, amount)
    \/ Step
    \/ StepFails
    \/ Finalize
    \/ \E t \in Tokens : Match(t)
    \/ Settle
    \/ SettleFails

Spec == Init /\ [][Next]_vars

---------------------------------------------------------------------------
(* Properties. *)

\* Type invariant: the amounts are u128s, and whoever is sender or receiver has
\* something left to send or to receive.
TypeOK ==
    /\ phase \in {"executing", "matching", "settled", "failed", "overflow", "unmatched"}
    /\ balances \in [Holdings -> 0 .. MaxAmount]
    /\ deposits \in [Holdings -> 0 .. MaxAmount]
    /\ withdrawals \in [Holdings -> 0 .. MaxAmount]
    /\ transfers \in [Accounts \X Accounts \X Tokens -> 0 .. MaxAmount]
    /\ \A t \in Tokens : /\ sender[t] # None => withdrawals[<<sender[t], t>>] > 0
                         /\ receiver[t] # None => deposits[<<receiver[t], t>>] > 0

\* What the transfers that the matcher found, and the event log reports, say of an
\* account.
Received(a, t) == SumOf([b \in Accounts |-> transfers[<<b, a, t>>]], Accounts)
Sent(a, t) == SumOf([b \in Accounts |-> transfers[<<a, b, t>>]], Accounts)

\* The transfers that execute_intents logs explain the balances: when the batch is
\* settled, each balance is the one before the batch with what was minted and
\* withdrawn, plus the transfers to the account, minus the ones from it.  Before,
\* the rest is in the deltas.
TransfersExplainBalances ==
    phase \in {"executing", "matching", "settled"} =>
        \A a \in Accounts, t \in Tokens :
            balances[<<a, t>>] = before[<<a, t>>] + outside[<<a, t>>]
                                  + deposits[<<a, t>>] - withdrawals[<<a, t>>]
                                  + Received(a, t) - Sent(a, t)

\* No token is created or lost by a batch that is settled, whatever its signers
\* gave and took, fees included, and a batch that would not create or lose any is
\* not refused by the matcher: finalize succeeds exactly on the balanced batches.
SettledIffBalanced ==
    [][phase = "matching" /\ phase' # "matching" =>
          (phase' = "settled" <=>
              \A t \in Tokens : Total(balances, t) = Total(before, t) + Total(outside, t))]_vars

\* The unwrap in finalize_into never fails, "since we add only one transfer for each
\* combination of (sender, receiver, token_id)": and nobody is matched with itself,
\* because sub_add never leaves an account in both maps.
OneTransferEach ==
    [][\A t \in Tokens :
          Match(t) => sender[t] # receiver[t] /\ transfers[<<sender[t], receiver[t], t>>] = 0]_vars

\* "Returns TokenDiff closure to successfully execute given set of distinct
\* TokenDiff": after the diff that closure_many computes, the deltas of the token
\* add up, in spite of the fees and the rounding in both of them.
ClosureSettles ==
    phase = "executing" /\ todo = <<>> =>
        \A t \in closed : Total(deposits, t) = Total(withdrawals, t)

\* A batch settles exactly when it is balanced, by one transfer for each pair of
\* accounts and token, and the closure of a set of diffs balances it.
BatchesSettle == SettledIffBalanced /\ OneTransferEach /\ []ClosureSettles

=============================================================================
