----------------------------- MODULE Simulation -----------------------------
(***************************************************************************)
(* One batch of intents, run twice: by execute_intents on the state of the *)
(* contract, and by simulate_intents on a CachedState, which keeps what    *)
(* the batch changed beside a view of the state that it never writes.  The *)
(* engine is the same code in both cases, so the two runs can differ only  *)
(* in what the operations of the State trait return.  An action is one     *)
(* operation, called on both; the batch goes on while both succeed.        *)
(*                                                                         *)
(* Promises are not part of a simulation, and so not of this module.  No   *)
(* intent locks an account, so locks are constant during a batch.          *)
(***************************************************************************)
EXTENDS Integers, Totals

CONSTANTS
    Accounts, Keys, Nonces, Tokens,
    MaxAmount,      \* the largest u128
    MaxOps          \* bound on the operations of a batch

ASSUME SimulationAssumption ==
    MaxAmount \in Nat \ {0} /\ MaxOps \in Nat /\ IsFiniteSet(Accounts)

Amounts == 0..MaxAmount

VARIABLES
    view,       \* the state that the batch started from
    real,       \* the state that execute_intents changes
    cached,     \* the accounts that CachedState keeps
    supply,     \* total supply of each token, which only execute_intents keeps
    signers,    \* accounts that committed a nonce in this batch
    emptied,    \* history: the cached balances that were spent to zero
    events,     \* number of events of set_auth_by_predecessor_id, on either side
    last,       \* the last operation, and whether the two calls succeeded
    ops         \* number of operations so far

vars == <<view, real, cached, supply, signers, emptied, events, last, ops>>

\* What the batch reads and writes of an account.
States == [Accounts -> [locked : BOOLEAN, public_keys : SUBSET Keys, nonces : SUBSET Nonces,
                        auth_enabled : BOOLEAN, balances : [Tokens -> Amounts]]]

\* CachedAccount.  Its maps drop zeros, so a zero of token_amounts is a token
\* that the map does not have.
CachedStates == [Accounts -> [nonces : SUBSET Nonces, toggled : BOOLEAN,
                              public_keys_added : SUBSET Keys,
                              public_keys_removed : SUBSET Keys,
                              token_amounts : [Tokens -> Amounts]]]

NoCache == [nonces |-> {}, toggled |-> FALSE, public_keys_added |-> {},
            public_keys_removed |-> {}, token_amounts |-> [t \in Tokens |-> 0]]

---------------------------------------------------------------------------
(* What CachedState answers. *)

CachedHasPublicKey(a, k) ==
    \/ k \in cached[a].public_keys_added
    \/ k \notin cached[a].public_keys_removed /\ k \in view[a].public_keys

CachedIsNonceUsed(a, n) == n \in cached[a].nonces \/ n \in view[a].nonces

CachedIsAuthEnabled(a) == view[a].auth_enabled # cached[a].toggled

CachedBalanceOf(a, t) ==
    IF cached[a].token_amounts[t] # 0 THEN cached[a].token_amounts[t]
                                      ELSE view[a].balances[t]

---------------------------------------------------------------------------
(* The operations. *)

\* An operation is called on both states, which it takes to newReal and
\* newCached.  The first error ends the batch and undoes it.
Call(op, realOk, cachedOk, newReal, newCached) ==
    /\ last.real_ok /\ last.cached_ok
    /\ ops < MaxOps
    /\ ops' = ops + 1
    /\ last' = [op |-> op, real_ok |-> realOk, cached_ok |-> cachedOk]
    /\ IF realOk /\ cachedOk THEN real' = newReal /\ cached' = newCached
                             ELSE UNCHANGED <<real, cached>>
    /\ UNCHANGED view

CachedCommits(a, n) ==
    ~view[a].locked /\ n \notin view[a].nonces /\ n \notin cached[a].nonces

CommitNonce(a, n) ==
    /\ Call("commit_nonce",
            ~real[a].locked /\ n \notin real[a].nonces,
            CachedCommits(a, n),
            [real EXCEPT ![a].nonces = @ \cup {n}],
            [cached EXCEPT ![a].nonces = @ \cup {n}])
    /\ signers' = signers \cup {a}
    /\ UNCHANGED <<supply, emptied, events>>

CachedAdds(a, k) ==
    IF k \in view[a].public_keys
    THEN [cached EXCEPT ![a].public_keys_removed = @ \ {k}]
    ELSE [cached EXCEPT ![a].public_keys_added = @ \cup {k}]

AddPublicKey(a, k) ==
    /\ Call("add_public_key",
            k \notin real[a].public_keys,
            CachedAdds(a, k) # cached,
            [real EXCEPT ![a].public_keys = @ \cup {k}],
            CachedAdds(a, k))
    /\ UNCHANGED <<supply, signers, emptied, events>>

CachedRemoves(a, k) ==
    IF k \in view[a].public_keys
    THEN [cached EXCEPT ![a].public_keys_removed = @ \cup {k}]
    ELSE [cached EXCEPT ![a].public_keys_added = @ \ {k}]

RemovePublicKey(a, k) ==
    /\ Call("remove_public_key",
            k \in real[a].public_keys,
            CachedRemoves(a, k) # cached,
            [real EXCEPT ![a].public_keys = @ \ {k}],
            CachedRemoves(a, k))
    /\ UNCHANGED <<supply, signers, emptied, events>>

\* What set_auth_by_predecessor_id returns on either side: the engine emits an
\* event if it is true.
RealToggled(a, enable) == real[a].auth_enabled # enable

CachedToggled(a, enable) == CachedIsAuthEnabled(a)

CachedSetsAuthMutant(a, enable) ==
    [cached EXCEPT ![a].toggled = CachedIsAuthEnabled(a) # enable]

CachedSetsAuth(a, enable) ==
    [cached EXCEPT ![a].toggled = @ # (CachedIsAuthEnabled(a) # enable)]

SetAuthByPredecessorId(a, enable) ==
    /\ Call("set_auth_by_predecessor_id", TRUE, TRUE,
            [real EXCEPT ![a].auth_enabled = enable],
            CachedSetsAuth(a, enable))
    /\ events' = [real |-> events.real + (IF RealToggled(a, enable) THEN 1 ELSE 0),
                  cached |-> events.cached + (IF CachedToggled(a, enable) THEN 1 ELSE 0)]
    /\ UNCHANGED <<supply, signers, emptied>>

RealCanSpend(a, t, amount) == amount # 0 /\ amount <= real[a].balances[t]

CachedSpends(a, t, amount) ==
    [cached EXCEPT ![a].token_amounts[t] = CachedBalanceOf(a, t) - amount]

\* internal_sub_balance of either side.
Spend(op, a, t, amount) ==
    /\ Call(op,
            RealCanSpend(a, t, amount),
            amount # 0 /\ amount <= CachedBalanceOf(a, t),
            [real EXCEPT ![a].balances[t] = @ - amount],
            CachedSpends(a, t, amount))
    /\ emptied' = IF amount = CachedBalanceOf(a, t) THEN emptied \cup {<<a, t>>} ELSE emptied
    /\ UNCHANGED <<signers, events>>

\* A transfer or a token diff takes from the signer.
SubBalance(a, t, amount) == Spend("sub_balance", a, t, amount) /\ UNCHANGED supply

\* A withdrawal, or imt_burn: the contract calls withdraw().
Withdraw(a, t, amount) ==
    /\ Spend("withdraw", a, t, amount)
    /\ supply' = IF last'.real_ok /\ last'.cached_ok THEN [supply EXCEPT ![t] = @ - amount]
                                                     ELSE supply

CachedReceivesMutant(a, t, amount) ==
    [cached EXCEPT ![a].token_amounts[t] = @ + amount]

CachedReceives(a, t, amount) ==
    [cached EXCEPT ![a].token_amounts[t] = CachedBalanceOf(a, t) + amount]

\* internal_add_balance of either side.
Receive(op, a, t, amount, realOk) ==
    /\ Call(op,
            realOk /\ amount # 0 /\ real[a].balances[t] + amount <= MaxAmount,
            CachedBalanceOf(a, t) + amount <= MaxAmount,
            [real EXCEPT ![a].balances[t] = @ + amount],
            CachedReceives(a, t, amount))
    /\ UNCHANGED <<signers, emptied, events>>

\* A transfer or a token diff gives to an account, or a fee to the collector.
\* The engine adds what was subtracted before, a positive delta, or a fee that
\* is not zero.
AddBalance(a, t, amount) ==
    /\ amount # 0
    /\ Receive("add_balance", a, t, amount, TRUE)
    /\ UNCHANGED supply

\* imt_mint: the contract calls deposit(), which also keeps the supply.
Mint(a, t, amount) ==
    /\ Receive("mint", a, t, amount, supply[t] + amount <= MaxAmount)
    /\ supply' = IF last'.real_ok /\ last'.cached_ok THEN [supply EXCEPT ![t] = @ + amount]
                                                     ELSE supply

---------------------------------------------------------------------------

Init ==
    /\ view \in States
    /\ supply = [t \in Tokens |-> SumOf([a \in Accounts |-> view[a].balances[t]], Accounts)]
    /\ \A t \in Tokens : supply[t] <= MaxAmount
    /\ real = view
    /\ cached = [a \in Accounts |-> NoCache]
    /\ signers = {}
    /\ emptied = {}
    /\ last = [op |-> "none", real_ok |-> TRUE, cached_ok |-> TRUE]
    /\ events = [real |-> 0, cached |-> 0]
    /\ ops = 0

Next ==
    \/ \E a \in Accounts, n \in Nonces : CommitNonce(a, n)
    \/ \E a \in signers, k \in Keys : AddPublicKey(a, k) \/ RemovePublicKey(a, k)
    \/ \E a \in signers, enable \in BOOLEAN : SetAuthByPredecessorId(a, enable)
    \/ \E a \in signers, t \in Tokens, amount \in Amounts :
          SubBalance(a, t, amount) \/ Withdraw(a, t, amount)
    \/ \E a \in Accounts, t \in Tokens, amount \in Amounts : AddBalance(a, t, amount)
    \/ \E a \in Accounts, t \in Tokens, amount \in Amounts : signers # {} /\ Mint(a, t, amount)

Spec == Init /\ [][Next]_vars

---------------------------------------------------------------------------
(* Properties. *)

\* Type invariant: the states and the cached accounts are what the code keeps.
TypeOK ==
    /\ view \in States /\ real \in States /\ cached \in CachedStates
    /\ supply \in [Tokens -> Int]
    /\ signers \subseteq Accounts /\ emptied \subseteq Accounts \X Tokens
    /\ ops \in 0..MaxOps

\* What decides who may sign is the same in a simulation as in an execution,
\* after any operations: CachedState answers has_public_key, is_nonce_used and
\* is_auth_by_predecessor_id_enabled from what was added to and removed from the
\* view, in any order, as the contract answers them from its state.
AuthorizationAgrees ==
    \A a \in Accounts :
        /\ \A k \in Keys : CachedHasPublicKey(a, k) <=> k \in real[a].public_keys
        /\ \A n \in Nonces : CachedIsNonceUsed(a, n) <=> n \in real[a].nonces
        /\ CachedIsAuthEnabled(a) <=> real[a].auth_enabled

\* A nonce or a key that execute_intents refuses is refused by simulate_intents,
\* and the other way around.
AuthorizationErrorsAgree ==
    last.op \in {"commit_nonce", "add_public_key", "remove_public_key"}
        => last.real_ok = last.cached_ok

\* simulate_intents authorizes what execute_intents authorizes: the same signers,
\* and the same errors.
AuthorizationIsSimulated == AuthorizationAgrees /\ AuthorizationErrorsAgree

\* The balances agree, as long as the simulation did not spend a balance of the
\* account to zero.
BalancesAgreeUntilEmptied ==
    \A a \in Accounts, t \in Tokens :
        <<a, t>> \notin emptied => CachedBalanceOf(a, t) = real[a].balances[t]

\* A simulation never misses an amount that the execution has: whoever can spend
\* in the execution can spend in the simulation.
SimulationIsOptimistic ==
    \A a \in Accounts, t \in Tokens : real[a].balances[t] <= CachedBalanceOf(a, t)

\* Simulated balances are those of the execution, and where they differ, after a
\* balance was spent to zero, they are too large.
BalancesAreSimulated == BalancesAgreeUntilEmptied /\ SimulationIsOptimistic

\* "Cached and real state make the same event-emission decisions"
\* (verification/proof-index.md), "Returns whether authentication by
\* PREDECESSOR_ID was toggled" (the State trait).  Not so:
\* set_auth_by_predecessor_id of CachedState returns whether it was enabled.
SameEvents == events.real = events.cached

=============================================================================
