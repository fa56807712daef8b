--------------------------- MODULE ContractsProofs --------------------------
(***************************************************************************)
(* The wallet, the small contracts, and the simulation of the verifier.    *)
(*                                                                         *)
(* A wallet never accepts a signed message twice, whatever its timeout,    *)
(* the messages its owner signs and the times they are submitted at; it    *)
(* implements its nonces; and it never locks its owners out, for requests  *)
(* of any length.  The deployer puts in force what its owner approved.     *)
(* The events of the deployer, the outlayer app and the treasury logger    *)
(* tell their state.  A simulation authorizes what the execution           *)
(* authorizes, and never finds a balance too small, for any accounts,      *)
(* keys, nonces and tokens and batches of any length.                      *)
(***************************************************************************)
EXTENDS Wallet, ContractEvents, Simulation, Sums

(* The simulation.  Its properties compare answers.  What is inductive     *)
(* compares states: the keys of an account are those of the view without   *)
(* the removed ones and with the added ones, and CachedState only ever     *)
(* removes keys that the view has and adds keys that it does not have.     *)
(* Without that, removing a key that was added could bring back one that   *)
(* the view had.                                                           *)
AccountStates == [locked : BOOLEAN, public_keys : SUBSET Keys, nonces : SUBSET Nonces,
                  auth_enabled : BOOLEAN, balances : [Tokens -> Amounts]]
CachedAccounts == [nonces : SUBSET Nonces, toggled : BOOLEAN,
                   public_keys_added : SUBSET Keys, public_keys_removed : SUBSET Keys,
                   token_amounts : [Tokens -> Amounts]]

(* The account r of the execution is the account v of the view, with what  *)
(* CachedState keeps in c applied to it; balances excepted.                *)
Applied(v, c, r) ==
    /\ r.locked = v.locked
    /\ c.public_keys_removed \subseteq v.public_keys
    /\ c.public_keys_added \cap v.public_keys = {}
    /\ r.public_keys = (v.public_keys \ c.public_keys_removed) \cup c.public_keys_added
    /\ r.nonces = v.nonces \cup c.nonces
    /\ r.auth_enabled <=> (v.auth_enabled # c.toggled)

CacheIsApplied == \A a \in Accounts : Applied(view[a], cached[a], real[a])

(* The balance that CachedState reports, of an account of the view.        *)
BalanceIn(v, c, t) == IF c.token_amounts[t] # 0 THEN c.token_amounts[t] ELSE v.balances[t]

Counted(v, c, r, a, t, e) ==
    /\ r.balances[t] <= BalanceIn(v, c, t)
    /\ <<a, t>> \notin e => BalanceIn(v, c, t) = r.balances[t]

BalancesAreCounted ==
    \A a \in Accounts, t \in Tokens : Counted(view[a], cached[a], real[a], a, t, emptied)

IInv == TypeOK /\ CacheIsApplied /\ BalancesAreCounted /\ AuthorizationErrorsAgree
-----------------------------------------------------------------------------
(* The states of a batch are functions to accounts.                        *)
LEMMA StateTypes == States = [Accounts -> AccountStates]
                    /\ CachedStates = [Accounts -> CachedAccounts]
BY Zenon DEF States, CachedStates, AccountStates, CachedAccounts

(* An operation that fails on either side ends the batch and changes       *)
(* neither; one that succeeds on both takes one account of each to its new *)
(* value.                                                                  *)
Outcome(a, ok, c, r) ==
    \/ ok /\ cached' = [cached EXCEPT ![a] = c] /\ real' = [real EXCEPT ![a] = r]
    \/ UNCHANGED <<real, cached>>

(* A step that leaves what CachedState keeps of an account in line with    *)
(* the account of the execution keeps all of them in line.                 *)
LEMMA StepKeepsIInv ==
    ASSUME IInv, NEW a \in Accounts, NEW ok, NEW c, NEW r, Outcome(a, ok, c, r),
           view' = view,
           ok => /\ c \in CachedAccounts /\ r \in AccountStates
                 /\ Applied(view[a], c, r)
                 /\ \A t \in Tokens : Counted(view[a], c, r, a, t, emptied'),
           emptied \subseteq emptied', emptied' \subseteq Accounts \X Tokens,
           supply' \in [Tokens -> Int], signers' \subseteq Accounts, ops' \in 0 .. MaxOps,
           AuthorizationErrorsAgree'
    PROVE  IInv'
<1>1. /\ view \in States /\ real \in States /\ cached \in CachedStates
    BY Zenon DEF IInv, TypeOK
<1>2. CASE UNCHANGED <<real, cached>>
    <2>1. TypeOK'
        BY <1>1, <1>2, Zenon DEF TypeOK
    <2>2. CacheIsApplied'
        BY <1>2, Zenon DEF IInv, CacheIsApplied
    <2>3. BalancesAreCounted'
        BY <1>2, Zenon DEF IInv, BalancesAreCounted, Counted, BalanceIn
    <2> QED
        BY <2>1, <2>2, <2>3, Zenon DEF IInv
<1>3. CASE /\ ok
           /\ cached' = [cached EXCEPT ![a] = c]
           /\ real' = [real EXCEPT ![a] = r]
    <2>1. real' \in States /\ cached' \in CachedStates
        BY <1>1, <1>3, StateTypes, Zenon
    <2>2. TypeOK'
        BY <1>1, <2>1, Zenon DEF TypeOK
    <2>3. \A b \in Accounts :
              /\ cached'[b] = IF b = a THEN c ELSE cached[b]
              /\ real'[b] = IF b = a THEN r ELSE real[b]
        BY <1>1, <1>3, StateTypes, Zenon
    <2>4. CacheIsApplied'
        BY <1>3, <2>3, Zenon DEF IInv, CacheIsApplied
    <2>5. ASSUME NEW b \in Accounts, NEW t \in Tokens
          PROVE  Counted(view[b], cached'[b], real'[b], b, t, emptied')
        <3>1. CASE b = a
            BY <1>3, <2>3, <3>1, Zenon
        <3>2. CASE b # a
            <4>1. Counted(view[b], cached[b], real[b], b, t, emptied)
                BY Zenon DEF IInv, BalancesAreCounted
            <4> QED
                BY <2>3, <3>2, <4>1, Zenon DEF Counted
        <3> QED
            BY <3>1, <3>2, Zenon
    <2>6. BalancesAreCounted'
        BY <2>5, Zenon DEF BalancesAreCounted
    <2> QED
        BY <2>2, <2>4, <2>6, Zenon DEF IInv
<1> QED
    BY <1>2, <1>3, Zenon DEF Outcome

(* The accounts of a state, one by one.                                    *)
LEMMA AccountTypes ==
    ASSUME IInv, NEW a \in Accounts
    PROVE  /\ view[a] \in AccountStates /\ real[a] \in AccountStates
           /\ cached[a] \in CachedAccounts
           /\ Applied(view[a], cached[a], real[a])
           /\ \A t \in Tokens : Counted(view[a], cached[a], real[a], a, t, emptied)
           /\ real \in [Accounts -> AccountStates]
           /\ cached \in [Accounts -> CachedAccounts]
BY StateTypes, Zenon DEF IInv, TypeOK, CacheIsApplied, BalancesAreCounted

(* A simulated nonce commitment keeps the invariant.                       *)
LEMMA CommitNonceKeepsIInv ==
    ASSUME IInv, NEW a \in Accounts, NEW n \in Nonces, CommitNonce(a, n)
    PROVE  IInv'
<1> DEFINE r == [real[a] EXCEPT !.nonces = @ \cup {n}]
           c == [cached[a] EXCEPT !.nonces = @ \cup {n}]
           rok == ~real[a].locked /\ n \notin real[a].nonces
           cok == CachedCommits(a, n)
<1>1. /\ view' = view /\ ops' \in 0 .. MaxOps
      /\ last' = [op |-> "commit_nonce", real_ok |-> rok, cached_ok |-> cok]
      /\ \/ /\ rok /\ cok
            /\ real' = [real EXCEPT ![a].nonces = @ \cup {n}]
            /\ cached' = [cached EXCEPT ![a].nonces = @ \cup {n}]
         \/ UNCHANGED <<real, cached>>
    BY SimulationAssumption DEF CommitNonce, Call, IInv, TypeOK
<1>2. /\ signers' = signers \cup {a} /\ supply' = supply /\ emptied' = emptied
    BY Zenon DEF CommitNonce
<1>3. /\ real[a] \in AccountStates /\ cached[a] \in CachedAccounts
      /\ Applied(view[a], cached[a], real[a])
      /\ \A t \in Tokens : Counted(view[a], cached[a], real[a], a, t, emptied)
    BY AccountTypes, Zenon
<1>4. rok = cok
    BY <1>3, Zenon DEF Applied, CachedCommits
<1>5. AuthorizationErrorsAgree'
    <2> HIDE DEF rok, cok
    <2> QED
        BY <1>1, <1>4, Zenon DEF AuthorizationErrorsAgree
<1>6. r \in AccountStates /\ c \in CachedAccounts
    BY <1>3, Zenon DEF AccountStates, CachedAccounts
<1>7. Applied(view[a], c, r)
    BY <1>3, Zenon DEF Applied, AccountStates, CachedAccounts
<1>8. \A t \in Tokens : Counted(view[a], c, r, a, t, emptied')
    BY <1>2, <1>3, Zenon DEF Counted, BalanceIn, AccountStates, CachedAccounts
<1>9. Outcome(a, TRUE, c, r)
    BY <1>1, Zenon DEF Outcome
<1>10. /\ emptied' \subseteq Accounts \X Tokens /\ supply' \in [Tokens -> Int]
       /\ signers' \subseteq Accounts /\ emptied \subseteq emptied'
    BY <1>2, Zenon DEF IInv, TypeOK
<1> HIDE DEF r, c
<1> QED
    BY <1>1, <1>5, <1>6, <1>7, <1>8, <1>9, <1>10, StepKeepsIInv, Zenon

(* A simulated add_public_key keeps the invariant.                         *)
LEMMA AddPublicKeyKeepsIInv ==
    ASSUME IInv, NEW a \in signers, NEW k \in Keys, AddPublicKey(a, k)
    PROVE  IInv'
<1> DEFINE r == [real[a] EXCEPT !.public_keys = @ \cup {k}]
           c == IF k \in view[a].public_keys
                THEN [cached[a] EXCEPT !.public_keys_removed = @ \ {k}]
                ELSE [cached[a] EXCEPT !.public_keys_added = @ \cup {k}]
           rok == k \notin real[a].public_keys
           cok == CachedAdds(a, k) # cached
<1>0. a \in Accounts
    BY Zenon DEF IInv, TypeOK
<1>1. /\ view' = view /\ ops' \in 0 .. MaxOps
      /\ last' = [op |-> "add_public_key", real_ok |-> rok, cached_ok |-> cok]
      /\ \/ /\ real' = [real EXCEPT ![a].public_keys = @ \cup {k}]
            /\ cached' = CachedAdds(a, k)
         \/ UNCHANGED <<real, cached>>
    BY SimulationAssumption DEF AddPublicKey, Call, IInv, TypeOK
<1>2. UNCHANGED <<signers, supply, emptied>>
    BY Zenon DEF AddPublicKey
<1>3. /\ view[a] \in AccountStates /\ real[a] \in AccountStates
      /\ cached[a] \in CachedAccounts /\ cached \in [Accounts -> CachedAccounts]
      /\ Applied(view[a], cached[a], real[a])
      /\ \A t \in Tokens : Counted(view[a], cached[a], real[a], a, t, emptied)
    BY <1>0, AccountTypes, Zenon
<1>4. CachedAdds(a, k) = [cached EXCEPT ![a] = c]
    BY <1>0, <1>3, Zenon DEF CachedAdds
<1>5. c # cached[a] <=> IF k \in view[a].public_keys
                         THEN k \in cached[a].public_keys_removed
                         ELSE k \notin cached[a].public_keys_added
    <2> DEFINE was == cached[a]
    <2>1. /\ was.public_keys_removed \in SUBSET Keys
          /\ was.public_keys_added \in SUBSET Keys
          /\ [was EXCEPT !.public_keys_removed = was.public_keys_removed] = was
          /\ [was EXCEPT !.public_keys_added = was.public_keys_added] = was
        BY <1>3, Zenon DEF CachedAccounts
    <2>2. CASE k \in view[a].public_keys
        <3>1. /\ c = [was EXCEPT !.public_keys_removed = @ \ {k}]
              /\ c.public_keys_removed = was.public_keys_removed \ {k}
            BY <1>3, <2>2, Zenon DEF CachedAccounts
        <3>2. c = was <=> was.public_keys_removed \ {k} = was.public_keys_removed
            BY <2>1, <3>1, Zenon
        <3> QED
            BY <2>2, <3>2, Zenon
    <2>3. CASE k \notin view[a].public_keys
        <3>1. /\ c = [was EXCEPT !.public_keys_added = @ \cup {k}]
              /\ c.public_keys_added = was.public_keys_added \cup {k}
            BY <1>3, <2>3, Zenon DEF CachedAccounts
        <3>2. c = was <=> was.public_keys_added \cup {k} = was.public_keys_added
            BY <2>1, <3>1, Zenon
        <3> QED
            BY <2>3, <3>2, Zenon
    <2> QED
        BY <2>2, <2>3, Zenon
<1>6. rok = cok
    <2>1. cok <=> c # cached[a]
        BY <1>0, <1>3, <1>4
    <2>2. rok <=> c # cached[a]
        BY <1>3, <1>5, Zenon DEF Applied
    <2> QED
        BY <2>1, <2>2, Zenon
<1>7. AuthorizationErrorsAgree'
    <2> HIDE DEF rok, cok
    <2> QED
        BY <1>1, <1>6, Zenon DEF AuthorizationErrorsAgree
<1>8. r \in AccountStates /\ c \in CachedAccounts
    BY <1>3, Zenon DEF AccountStates, CachedAccounts
<1>9. Applied(view[a], c, r)
    BY <1>3, Zenon DEF Applied, AccountStates, CachedAccounts
<1>10. \A t \in Tokens : Counted(view[a], c, r, a, t, emptied')
    BY <1>2, <1>3, Zenon DEF Counted, BalanceIn, AccountStates, CachedAccounts
<1>11. Outcome(a, TRUE, c, r)
    BY <1>1, <1>4, Zenon DEF Outcome
<1>12. /\ emptied' \subseteq Accounts \X Tokens /\ supply' \in [Tokens -> Int]
       /\ signers' \subseteq Accounts /\ emptied \subseteq emptied'
    BY <1>2, Zenon DEF IInv, TypeOK
<1> HIDE DEF r, c
<1> QED
    BY <1>0, <1>1, <1>7, <1>8, <1>9, <1>10, <1>11, <1>12, StepKeepsIInv, Zenon

(* A simulated remove_public_key keeps the invariant.                      *)
LEMMA RemovePublicKeyKeepsIInv ==
    ASSUME IInv, NEW a \in signers, NEW k \in Keys, RemovePublicKey(a, k)
    PROVE  IInv'
<1> DEFINE r == [real[a] EXCEPT !.public_keys = @ \ {k}]
           c == IF k \in view[a].public_keys
                THEN [cached[a] EXCEPT !.public_keys_removed = @ \cup {k}]
                ELSE [cached[a] EXCEPT !.public_keys_added = @ \ {k}]
           rok == k \in real[a].public_keys
           cok == CachedRemoves(a, k) # cached
<1>0. a \in Accounts
    BY Zenon DEF IInv, TypeOK
<1>1. /\ view' = view /\ ops' \in 0 .. MaxOps
      /\ last' = [op |-> "remove_public_key", real_ok |-> rok, cached_ok |-> cok]
      /\ \/ /\ real' = [real EXCEPT ![a].public_keys = @ \ {k}]
            /\ cached' = CachedRemoves(a, k)
         \/ UNCHANGED <<real, cached>>
    BY SimulationAssumption DEF RemovePublicKey, Call, IInv, TypeOK
<1>2. UNCHANGED <<signers, supply, emptied>>
    BY Zenon DEF RemovePublicKey
<1>3. /\ view[a] \in AccountStates /\ real[a] \in AccountStates
      /\ cached[a] \in CachedAccounts /\ cached \in [Accounts -> CachedAccounts]
      /\ Applied(view[a], cached[a], real[a])
      /\ \A t \in Tokens : Counted(view[a], cached[a], real[a], a, t, emptied)
    BY <1>0, AccountTypes, Zenon
<1>4. CachedRemoves(a, k) = [cached EXCEPT ![a] = c]
    BY <1>0, <1>3, Zenon DEF CachedRemoves
<1>5. c # cached[a] <=> IF k \in view[a].public_keys
                         THEN k \notin cached[a].public_keys_removed
                         ELSE k \in cached[a].public_keys_added
    <2> DEFINE was == cached[a]
    <2>1. /\ was.public_keys_removed \in SUBSET Keys
          /\ was.public_keys_added \in SUBSET Keys
          /\ [was EXCEPT !.public_keys_removed = was.public_keys_removed] = was
          /\ [was EXCEPT !.public_keys_added = was.public_keys_added] = was
        BY <1>3, Zenon DEF CachedAccounts
    <2>2. CASE k \in view[a].public_keys
        <3>1. /\ c = [was EXCEPT !.public_keys_removed = @ \cup {k}]
              /\ c.public_keys_removed = was.public_keys_removed \cup {k}
            BY <1>3, <2>2, Zenon DEF CachedAccounts
        <3>2. c = was <=> was.public_keys_removed \cup {k} = was.public_keys_removed
            BY <2>1, <3>1, Zenon
        <3> QED
            BY <2>2, <3>2, Zenon
    <2>3. CASE k \notin view[a].public_keys
        <3>1. /\ c = [was EXCEPT !.public_keys_added = @ \ {k}]
              /\ c.public_keys_added = was.public_keys_added \ {k}
            BY <1>3, <2>3, Zenon DEF CachedAccounts
        <3>2. c = was <=> was.public_keys_added \ {k} = was.public_keys_added
            BY <2>1, <3>1, Zenon
        <3> QED
            BY <2>3, <3>2, Zenon
    <2> QED
        BY <2>2, <2>3, Zenon
<1>6. rok = cok
    <2>1. cok <=> c # cached[a]
        BY <1>0, <1>3, <1>4
    <2>2. rok <=> c # cached[a]
        BY <1>3, <1>5, Zenon DEF Applied
    <2> QED
        BY <2>1, <2>2
<1>7. AuthorizationErrorsAgree'
    <2> HIDE DEF rok, cok
    <2> QED
        BY <1>1, <1>6, Zenon DEF AuthorizationErrorsAgree
<1>8. r \in AccountStates /\ c \in CachedAccounts
    BY <1>3, Zenon DEF AccountStates, CachedAccounts
<1>9. Applied(view[a], c, r)
    BY <1>3, Zenon DEF Applied, AccountStates, CachedAccounts
<1>10. \A t \in Tokens : Counted(view[a], c, r, a, t, emptied')
    BY <1>2, <1>3, Zenon DEF Counted, BalanceIn, AccountStates, CachedAccounts
<1>11. Outcome(a, TRUE, c, r)
    BY <1>1, <1>4, Zenon DEF Outcome
<1>12. /\ emptied' \subseteq Accounts \X Tokens /\ supply' \in [Tokens -> Int]
       /\ signers' \subseteq Accounts /\ emptied \subseteq emptied'
    BY <1>2, Zenon DEF IInv, TypeOK
<1> HIDE DEF r, c
<1> QED
    BY <1>0, <1>1, <1>7, <1>8, <1>9, <1>10, <1>11, <1>12, StepKeepsIInv, Zenon

(* A simulated set_auth_by_predecessor_id keeps the invariant.             *)
LEMMA SetAuthKeepsIInv ==
    ASSUME IInv, NEW a \in signers, NEW enable \in BOOLEAN,
           SetAuthByPredecessorId(a, enable)
    PROVE  IInv'
<1> DEFINE r == [real[a] EXCEPT !.auth_enabled = enable]
           c == [cached[a] EXCEPT !.toggled = @ # (CachedIsAuthEnabled(a) # enable)]
<1>0. a \in Accounts
    BY Zenon DEF IInv, TypeOK
<1>1. /\ view' = view /\ ops' \in 0 .. MaxOps
      /\ last'.op = "set_auth_by_predecessor_id"
      /\ real' = [real EXCEPT ![a] = r]
      /\ cached' = [cached EXCEPT ![a] = c]
    BY SimulationAssumption
    DEF SetAuthByPredecessorId, CachedSetsAuth, Call, IInv, TypeOK
<1>2. UNCHANGED <<signers, supply, emptied>>
    BY Zenon DEF SetAuthByPredecessorId
<1>3. /\ view[a] \in AccountStates /\ real[a] \in AccountStates
      /\ cached[a] \in CachedAccounts
      /\ Applied(view[a], cached[a], real[a])
      /\ \A t \in Tokens : Counted(view[a], cached[a], real[a], a, t, emptied)
    BY <1>0, AccountTypes, Zenon
<1>4. AuthorizationErrorsAgree'
    BY <1>1, Zenon DEF AuthorizationErrorsAgree
<1>5. r \in AccountStates /\ c \in CachedAccounts
    BY <1>3, Zenon DEF AccountStates, CachedAccounts, CachedIsAuthEnabled
<1>6. Applied(view[a], c, r)
    BY <1>3, Zenon DEF Applied, AccountStates, CachedAccounts, CachedIsAuthEnabled
<1>7. \A t \in Tokens : Counted(view[a], c, r, a, t, emptied')
    BY <1>2, <1>3, Zenon DEF Counted, BalanceIn, AccountStates, CachedAccounts
<1>8. Outcome(a, TRUE, c, r)
    BY <1>1, Zenon DEF Outcome
<1>9. /\ emptied' \subseteq Accounts \X Tokens /\ supply' \in [Tokens -> Int]
      /\ signers' \subseteq Accounts /\ emptied \subseteq emptied'
    BY <1>2, Zenon DEF IInv, TypeOK
<1> HIDE DEF r, c
<1> QED
    BY <1>0, <1>1, <1>4, <1>5, <1>6, <1>7, <1>8, <1>9, StepKeepsIInv, Zenon

(* The operations on balances have no say in who is authorized.            *)
BalanceOps == {"sub_balance", "withdraw", "add_balance", "mint"}

Rebalanced(a, t, x, y, r, c) ==
    /\ r = [real[a] EXCEPT !.balances[t] = x]
    /\ c = [cached[a] EXCEPT !.token_amounts[t] = y]

BalancesDiffer(a, t, x, y, r, c) ==
    \A u \in Tokens :
        /\ r.balances[u] = IF u = t THEN x ELSE real[a].balances[u]
        /\ c.token_amounts[u] = IF u = t THEN y ELSE cached[a].token_amounts[u]

(* Changing a balance changes neither keys nor nonces.                     *)
LEMMA BalancesAside ==
    ASSUME IInv, NEW a \in Accounts, NEW t \in Tokens, NEW x \in Amounts, NEW y \in Amounts,
           NEW r, NEW c, Rebalanced(a, t, x, y, r, c)
    PROVE  /\ r \in AccountStates /\ c \in CachedAccounts
           /\ Applied(view[a], c, r)
           /\ BalancesDiffer(a, t, x, y, r, c)
<1>1. /\ view[a] \in AccountStates /\ real[a] \in AccountStates
      /\ cached[a] \in CachedAccounts /\ Applied(view[a], cached[a], real[a])
    BY AccountTypes, Zenon
<1>2. /\ real[a].balances \in [Tokens -> Amounts]
      /\ cached[a].token_amounts \in [Tokens -> Amounts]
    BY <1>1, Zenon DEF AccountStates, CachedAccounts
<1>3. /\ r = [real[a] EXCEPT !.balances = [real[a].balances EXCEPT ![t] = x]]
      /\ c = [cached[a] EXCEPT !.token_amounts = [cached[a].token_amounts EXCEPT ![t] = y]]
    BY Zenon DEF Rebalanced
<1>4. /\ [real[a].balances EXCEPT ![t] = x] \in [Tokens -> Amounts]
      /\ [cached[a].token_amounts EXCEPT ![t] = y] \in [Tokens -> Amounts]
    BY <1>2, Zenon
<1>5. r \in AccountStates /\ c \in CachedAccounts
    BY <1>1, <1>3, <1>4, Zenon DEF AccountStates, CachedAccounts
<1>6. Applied(view[a], c, r)
    BY <1>1, <1>3, Zenon DEF Applied, AccountStates, CachedAccounts
<1>7. /\ r.balances = [real[a].balances EXCEPT ![t] = x]
      /\ c.token_amounts = [cached[a].token_amounts EXCEPT ![t] = y]
    BY <1>1, <1>3, Zenon DEF AccountStates, CachedAccounts
<1>8. BalancesDiffer(a, t, x, y, r, c)
    BY <1>2, <1>7, Zenon DEF BalancesDiffer
<1> QED
    BY <1>5, <1>6, <1>8, Zenon

(* internal_sub_balance: both sides take the same amount.  When nothing is *)
(* left in the simulation, the entry is gone from its map, and the balance *)
(* of the view shows again: at least the zero that the execution is at.    *)
LEMMA SpendKeepsIInv ==
    ASSUME IInv, NEW a \in signers, NEW t \in Tokens, NEW amount \in Amounts,
           NEW op \in BalanceOps, Spend(op, a, t, amount), supply' \in [Tokens -> Int]
    PROVE  IInv'
<1> DEFINE held == CachedBalanceOf(a, t)
           ok == amount <= real[a].balances[t] /\ amount <= held
           r == [real[a] EXCEPT !.balances[t] = real[a].balances[t] - amount]
           c == [cached[a] EXCEPT !.token_amounts[t] = held - amount]
<1>0. a \in Accounts
    BY Zenon DEF IInv, TypeOK
<1>1. /\ view' = view /\ ops' \in 0 .. MaxOps /\ last'.op = op
      /\ Outcome(a, ok, c, r)
    BY SimulationAssumption
    DEF Spend, RealCanSpend, CachedSpends, Call, IInv, TypeOK, Outcome
<1>2. /\ signers' = signers
      /\ emptied' = IF amount = held THEN emptied \cup {<<a, t>>} ELSE emptied
    BY Zenon DEF Spend
<1>3. AuthorizationErrorsAgree'
    BY <1>1, Zenon DEF AuthorizationErrorsAgree, BalanceOps
<1>4. /\ view[a] \in AccountStates /\ real[a] \in AccountStates
      /\ cached[a] \in CachedAccounts
      /\ \A u \in Tokens : Counted(view[a], cached[a], real[a], a, u, emptied)
    BY <1>0, AccountTypes, Zenon
<1>5. /\ held \in Amounts /\ real[a].balances[t] \in Amounts
      /\ view[a].balances[t] \in Amounts /\ held = BalanceIn(view[a], cached[a], t)
    BY <1>4, Zenon DEF AccountStates, CachedAccounts, CachedBalanceOf, BalanceIn
<1>6. ASSUME ok
      PROVE  /\ c \in CachedAccounts /\ r \in AccountStates
             /\ Applied(view[a], c, r)
             /\ \A u \in Tokens : Counted(view[a], c, r, a, u, emptied')
    <2> DEFINE x == real[a].balances[t] - amount
               y == held - amount
    <2>1. x \in Amounts /\ y \in Amounts
        BY <1>5, <1>6, SimulationAssumption DEF Amounts
    <2>2. /\ r \in AccountStates /\ c \in CachedAccounts
          /\ Applied(view[a], c, r)
          /\ BalancesDiffer(a, t, x, y, r, c)
        <3> HIDE DEF x, y
        <3>1. Rebalanced(a, t, x, y, r, c)
            BY Zenon DEF Rebalanced, x, y
        <3> HIDE DEF r, c
        <3> QED
            BY <1>0, <2>1, <3>1, BalancesAside, Zenon
    <2> HIDE DEF r, c
    <2>3. ASSUME NEW u \in Tokens
          PROVE  Counted(view[a], c, r, a, u, emptied')
        <3>1. CASE u # t
            <4>1. Counted(view[a], cached[a], real[a], a, u, emptied)
                BY <1>4, Zenon
            <4>2. emptied \subseteq emptied'
                BY <1>2, Zenon
            <4> HIDE DEF x, y
            <4> QED
                BY <2>2, <3>1, <4>1, <4>2, Zenon DEF Counted, BalanceIn, BalancesDiffer
        <3>2. CASE u = t
            <4>1. Counted(view[a], cached[a], real[a], a, t, emptied)
                BY <1>4, Zenon
            <4>2. r.balances[t] = x /\ c.token_amounts[t] = y
                <5> HIDE DEF x, y
                <5> QED
                    BY <2>2, Zenon DEF BalancesDiffer
            <4>3. BalanceIn(view[a], c, t) = IF y # 0 THEN y ELSE view[a].balances[t]
                BY <4>2, Zenon DEF BalanceIn
            <4>4. /\ real[a].balances[t] <= held
                  /\ <<a, t>> \notin emptied => held = real[a].balances[t]
                BY <1>5, <4>1, Zenon DEF Counted
            <4>5. y = 0 <=> amount = held
                BY <1>5, SimulationAssumption DEF Amounts
            <4>6. x <= IF y # 0 THEN y ELSE view[a].balances[t]
                BY <1>5, <1>6, <4>4, SimulationAssumption DEF Amounts
            <4>7. <<a, t>> \notin emptied' => y # 0 /\ x = y
                BY <1>2, <4>4, <4>5, Zenon
            <4> HIDE DEF x, y
            <4> QED
                BY <3>2, <4>2, <4>3, <4>6, <4>7, Zenon DEF Counted
        <3> QED
            BY <3>1, <3>2, Zenon
    <2> QED
        BY <2>2, <2>3, Zenon
<1>7. /\ emptied' \subseteq Accounts \X Tokens /\ signers' \subseteq Accounts
      /\ emptied \subseteq emptied'
    BY <1>0, <1>2 DEF IInv, TypeOK
<1> HIDE DEF r, c, ok
<1> QED
    BY <1>0, <1>1, <1>3, <1>6, <1>7, StepKeepsIInv, Zenon

(* internal_add_balance: both sides add the same amount, which is not      *)
(* zero, to what they report.                                              *)
LEMMA ReceiveKeepsIInv ==
    ASSUME IInv, NEW a \in Accounts, NEW t \in Tokens, NEW amount \in Amounts,
           NEW op \in BalanceOps, NEW realOk, Receive(op, a, t, amount, realOk),
           supply' \in [Tokens -> Int]
    PROVE  IInv'
<1> DEFINE held == CachedBalanceOf(a, t)
           ok == /\ amount # 0 /\ real[a].balances[t] + amount <= MaxAmount
                 /\ held + amount <= MaxAmount
           r == [real[a] EXCEPT !.balances[t] = real[a].balances[t] + amount]
           c == [cached[a] EXCEPT !.token_amounts[t] = held + amount]
<1>1. /\ view' = view /\ ops' \in 0 .. MaxOps /\ last'.op = op
      /\ Outcome(a, ok, c, r)
    BY SimulationAssumption DEF Receive, CachedReceives, Call, IInv, TypeOK, Outcome
<1>2. UNCHANGED <<signers, emptied>>
    BY Zenon DEF Receive
<1>3. AuthorizationErrorsAgree'
    BY <1>1, Zenon DEF AuthorizationErrorsAgree, BalanceOps
<1>4. /\ view[a] \in AccountStates /\ real[a] \in AccountStates
      /\ cached[a] \in CachedAccounts
      /\ \A u \in Tokens : Counted(view[a], cached[a], real[a], a, u, emptied)
    BY AccountTypes, Zenon
<1>5. /\ held \in Amounts /\ real[a].balances[t] \in Amounts
      /\ held = BalanceIn(view[a], cached[a], t)
    BY <1>4, Zenon DEF AccountStates, CachedAccounts, CachedBalanceOf, BalanceIn
<1>6. ASSUME ok
      PROVE  /\ c \in CachedAccounts /\ r \in AccountStates
             /\ Applied(view[a], c, r)
             /\ \A u \in Tokens : Counted(view[a], c, r, a, u, emptied')
    <2> DEFINE x == real[a].balances[t] + amount
               y == held + amount
    <2>1. x \in Amounts /\ y \in Amounts /\ y # 0
        BY <1>5, <1>6, SimulationAssumption DEF Amounts
    <2>2. /\ r \in AccountStates /\ c \in CachedAccounts
          /\ Applied(view[a], c, r)
          /\ BalancesDiffer(a, t, x, y, r, c)
        <3> HIDE DEF x, y
        <3>1. Rebalanced(a, t, x, y, r, c)
            BY Zenon DEF Rebalanced, x, y
        <3> HIDE DEF r, c
        <3> QED
            BY <2>1, <3>1, BalancesAside, Zenon
    <2> HIDE DEF r, c
    <2>3. ASSUME NEW u \in Tokens
          PROVE  Counted(view[a], c, r, a, u, emptied')
        <3>1. CASE u # t
            <4>1. Counted(view[a], cached[a], real[a], a, u, emptied)
                BY <1>4, Zenon
            <4> HIDE DEF x, y
            <4> QED
                BY <1>2, <2>2, <3>1, <4>1, Zenon DEF Counted, BalanceIn, BalancesDiffer
        <3>2. CASE u = t
            <4>1. /\ real[a].balances[t] <= held
                  /\ <<a, t>> \notin emptied => held = real[a].balances[t]
                BY <1>4, <1>5, Zenon DEF Counted
            <4>2. x <= y /\ (<<a, t>> \notin emptied => x = y)
                BY <1>5, <4>1, SimulationAssumption DEF Amounts
            <4> HIDE DEF x, y
            <4>3. r.balances[t] = x /\ c.token_amounts[t] = y
                BY <2>2, Zenon DEF BalancesDiffer
            <4> QED
                BY <1>2, <2>1, <3>2, <4>2, <4>3, Zenon DEF Counted, BalanceIn
        <3> QED
            BY <3>1, <3>2, Zenon
    <2> QED
        BY <2>2, <2>3, Zenon
<1>7. /\ emptied' \subseteq Accounts \X Tokens /\ signers' \subseteq Accounts
      /\ emptied \subseteq emptied'
    BY <1>2, Zenon DEF IInv, TypeOK
<1> HIDE DEF r, c, ok
<1> QED
    BY <1>1, <1>3, <1>6, <1>7, StepKeepsIInv, Zenon
-----------------------------------------------------------------------------
(* A batch starts with nothing cached.                                     *)
LEMMA InitIInv == Init => IInv
<1> SUFFICES ASSUME Init
             PROVE  IInv
    BY Zenon
<1>1. /\ view \in [Accounts -> AccountStates] /\ real = view
      /\ cached = [a \in Accounts |-> NoCache]
    BY StateTypes, Zenon DEF Init
<1>2. NoCache \in CachedAccounts
    BY SimulationAssumption DEF NoCache, CachedAccounts, Amounts
<1>3. supply \in [Tokens -> Int]
    <2>1. ASSUME NEW t \in Tokens
          PROVE  SumOf([a \in Accounts |-> view[a].balances[t]], Accounts) \in Int
        <3>1. [a \in Accounts |-> view[a].balances[t]] \in [Accounts -> Nat]
            BY <1>1, SimulationAssumption DEF AccountStates, Amounts
        <3> QED
            BY <3>1, SumType, SimulationAssumption
    <2>2. supply = [t \in Tokens |-> SumOf([a \in Accounts |-> view[a].balances[t]], Accounts)]
        BY Zenon DEF Init
    <2> QED
        BY <2>1, <2>2, Zenon
<1>4. TypeOK
    <2>1. cached \in [Accounts -> CachedAccounts]
        BY <1>1, <1>2, Zenon
    <2>2. view \in States /\ real \in States /\ cached \in CachedStates
        BY <1>1, <2>1, StateTypes, Zenon
    <2>3. signers = {} /\ emptied = {} /\ ops = 0
        BY Zenon DEF Init
    <2> QED
        BY <1>3, <2>2, <2>3, SimulationAssumption DEF TypeOK
<1>5. CacheIsApplied
    BY <1>1, Zenon DEF CacheIsApplied, Applied, NoCache, AccountStates
<1>6. BalancesAreCounted
    BY <1>1, SimulationAssumption
    DEF BalancesAreCounted, Counted, BalanceIn, NoCache, AccountStates, Amounts
<1>7. AuthorizationErrorsAgree
    BY Zenon DEF Init, AuthorizationErrorsAgree
<1> QED
    BY <1>4, <1>5, <1>6, <1>7, Zenon DEF IInv

(* Every step of a simulation keeps the invariant.                         *)
LEMMA NextKeepsIInv == IInv /\ [Next]_vars => IInv'
<1> SUFFICES ASSUME IInv, [Next]_vars
             PROVE  IInv'
    BY Zenon
<1>0. /\ supply \in [Tokens -> Int] /\ signers \subseteq Accounts
      /\ \A n \in Amounts : n \in Int
    BY SimulationAssumption DEF IInv, TypeOK, Amounts
<1>1. ASSUME NEW a \in Accounts, NEW n \in Nonces, CommitNonce(a, n)
      PROVE  IInv'
    BY <1>1, CommitNonceKeepsIInv, Zenon
<1>2. ASSUME NEW a \in signers, NEW k \in Keys, AddPublicKey(a, k) \/ RemovePublicKey(a, k)
      PROVE  IInv'
    BY <1>2, AddPublicKeyKeepsIInv, RemovePublicKeyKeepsIInv, Zenon
<1>3. ASSUME NEW a \in signers, NEW enable \in BOOLEAN, SetAuthByPredecessorId(a, enable)
      PROVE  IInv'
    BY <1>3, SetAuthKeepsIInv, Zenon
<1>4. ASSUME NEW a \in signers, NEW t \in Tokens, NEW amount \in Amounts,
             SubBalance(a, t, amount) \/ Withdraw(a, t, amount)
      PROVE  IInv'
    <2>1. supply' \in [Tokens -> Int]
        BY <1>0, <1>4 DEF SubBalance, Withdraw
    <2>2. Spend("sub_balance", a, t, amount) \/ Spend("withdraw", a, t, amount)
        BY <1>4, Zenon DEF SubBalance, Withdraw
    <2>3. "sub_balance" \in BalanceOps /\ "withdraw" \in BalanceOps
        BY Zenon DEF BalanceOps
    <2> QED
        BY <2>1, <2>2, <2>3, SpendKeepsIInv, Zenon
<1>5. ASSUME NEW a \in Accounts, NEW t \in Tokens, NEW amount \in Amounts,
             AddBalance(a, t, amount) \/ Mint(a, t, amount)
      PROVE  IInv'
    <2>1. supply' \in [Tokens -> Int]
        <3>1. supply' = supply \/ supply' = [supply EXCEPT ![t] = @ + amount]
            BY <1>5, Zenon DEF AddBalance, Mint
        <3> QED
            BY <1>0, <3>1
    <2>2. "add_balance" \in BalanceOps /\ "mint" \in BalanceOps
        BY Zenon DEF BalanceOps
    <2>3. CASE AddBalance(a, t, amount)
        BY <2>1, <2>2, <2>3, ReceiveKeepsIInv, Zenon DEF AddBalance
    <2>4. CASE Mint(a, t, amount)
        BY <2>1, <2>2, <2>4, ReceiveKeepsIInv, Zenon DEF Mint
    <2> QED
        BY <1>5, <2>3, <2>4, Zenon
<1>6. CASE UNCHANGED vars
    BY <1>6, Zenon DEF vars, IInv, TypeOK, CacheIsApplied, BalancesAreCounted,
                AuthorizationErrorsAgree
<1> QED
    BY <1>1, <1>2, <1>3, <1>4, <1>5, <1>6, Zenon DEF Next

(* The inductive invariant holds after every operation of a batch.         *)
THEOREM SimulationInvariance == Spec => []IInv
BY InitIInv, NextKeepsIInv, PTL DEF Spec

(* What CachedState keeps stays well typed: no balance leaves the range of *)
(* a u128, in the execution or in the simulation.                          *)
THEOREM SimulationTypeCorrect == Spec => []TypeOK
<1>1. IInv => TypeOK
    BY Zenon DEF IInv
<1> QED
    BY <1>1, SimulationInvariance, PTL

(* simulate_intents authorizes what execute_intents authorizes: see        *)
(* AuthorizationIsSimulated.                                               *)
THEOREM SimulationAuthorizes == Spec => []AuthorizationIsSimulated
<1>1. ASSUME IInv
      PROVE  AuthorizationIsSimulated
    <2>1. ASSUME NEW a \in Accounts
          PROVE  /\ \A k \in Keys : CachedHasPublicKey(a, k) <=> k \in real[a].public_keys
                 /\ \A n \in Nonces : CachedIsNonceUsed(a, n) <=> n \in real[a].nonces
                 /\ CachedIsAuthEnabled(a) <=> real[a].auth_enabled
        <3>1. Applied(view[a], cached[a], real[a])
            BY <1>1, AccountTypes, Zenon
        <3> QED
            BY <3>1, Zenon
               DEF Applied, CachedHasPublicKey, CachedIsNonceUsed, CachedIsAuthEnabled
    <2> QED
        BY <1>1, <2>1, Zenon DEF AuthorizationIsSimulated, AuthorizationAgrees, IInv
<1> QED
    BY <1>1, SimulationInvariance, PTL

(* A balance that simulate_intents reports is the one of the execution, or *)
(* was spent to zero and is too large: see BalancesAreSimulated.           *)
THEOREM SimulationCounts == Spec => []BalancesAreSimulated
<1>1. IInv => BalancesAreSimulated
    BY Zenon DEF IInv, BalancesAreCounted, Counted, BalanceIn, BalancesAreSimulated,
           BalancesAgreeUntilEmptied, SimulationIsOptimistic, CachedBalanceOf
<1> QED
    BY <1>1, SimulationInvariance, PTL
-----------------------------------------------------------------------------
(* The rotation keeps every field of the nonces well typed: what           *)
(* check_cleanup() leaves in them are sets of nonces and a timestamp.      *)
LEMMA CleanedTypes ==
    ASSUME NoncesTypeOK
    PROVE  /\ CleanedAt \in 0 .. now
           /\ CleanedOld \subseteq MessageNonces
           /\ CleanedCurrent \subseteq MessageNonces
BY DEF NoncesTypeOK, CleanedAt, CleanedOld, CleanedCurrent

(* Nonces::commit, check_cleanup and the passing of time keep the types of *)
(* the fields of Nonces.                                                   *)
THEOREM NoncesTypeCorrect == NoncesSpec => []NoncesTypeOK
<1>1. NoncesInit => NoncesTypeOK
  BY NoncesAssumption DEF NoncesInit, NoncesTypeOK
<1>2. NoncesTypeOK /\ [NoncesNext]_noncesVars => NoncesTypeOK'
  <2> SUFFICES ASSUME NoncesTypeOK, [NoncesNext]_noncesVars
               PROVE  NoncesTypeOK'
    BY Zenon
  <2>1. ASSUME NEW m \in Messages, Commit(m)
        PROVE  NoncesTypeOK'
    <3>1. m.nonce \in MessageNonces
      BY Zenon DEF MessageNonces
    <3> QED
      BY <2>1, <3>1, CleanedTypes DEF NoncesTypeOK, Commit
  <2>2. CASE CheckCleanup
    BY <2>2, CleanedTypes, Zenon DEF NoncesTypeOK, CheckCleanup
  <2>3. CASE Tick
    BY <2>3, NoncesAssumption DEF NoncesTypeOK, Tick
  <2>4. CASE UNCHANGED noncesVars
    BY <2>4, Zenon DEF NoncesTypeOK, noncesVars
  <2> QED
    BY <2>1, <2>2, <2>3, <2>4, Zenon DEF NoncesNext
<1> QED
  BY <1>1, <1>2, PTL DEF NoncesSpec
-----------------------------------------------------------------------------
(* The rotation of check_cleanup() forgets only nonces of expired          *)
(* messages: a message remembered before it is remembered by the bitmaps   *)
(* it leaves, or has expired.                                              *)
LEMMA CleanupRemembers ==
    ASSUME NoncesTypeOK, NEW m \in Messages, Remembered(m)
    PROVE  \/ m.created_at + Timeout < now
           \/ m.nonce \in CleanedCurrent /\ m.created_at <= CleanedAt + Timeout
           \/ m.nonce \in CleanedOld /\ m.created_at <= CleanedAt
<1> USE NoncesAssumption DEF NoncesTypeOK
<1>1. CASE ~MustRotate
  BY <1>1, Zenon DEF Remembered, CleanedAt, CleanedOld, CleanedCurrent
<1>2. CASE MustRotate /\ ~MustForget
  BY <1>2 DEF Remembered, CleanedAt, CleanedOld, CleanedCurrent, MustRotate
<1>3. CASE MustRotate /\ MustForget
  BY <1>3 DEF Remembered, MustRotate, MustForget
<1> QED
  BY <1>1, <1>2, <1>3, Zenon

(* Every accepted message is remembered until it expires.                  *)
THEOREM RememberedInvariant == NoncesSpec => []UsedNoncesRemembered
<1>1. NoncesInit => UsedNoncesRemembered
  BY DEF NoncesInit, UsedNoncesRemembered
<1>2. NoncesTypeOK /\ UsedNoncesRemembered /\ [NoncesNext]_noncesVars
      => UsedNoncesRemembered'
  <2> SUFFICES ASSUME NoncesTypeOK, UsedNoncesRemembered,
                      [NoncesNext]_noncesVars,
                      NEW m \in Messages, (executions[m] > 0)'
               PROVE  Remembered(m)'
    BY Zenon DEF UsedNoncesRemembered
  <2> USE NoncesAssumption DEF NoncesTypeOK
  <2>1. ASSUME NEW c \in Messages, Commit(c)
        PROVE  Remembered(m)'
    <3>1. CASE m = c
      <4>1. m.created_at <= CleanedAt + Timeout
        BY <2>1, <3>1 DEF Commit, InWindow, CleanedAt, MustRotate
      <4> QED
        BY <2>1, <3>1, <4>1, Zenon DEF Commit, Remembered
    <3>2. CASE m # c
      <4>1. Remembered(m)
        BY <2>1, <3>2, Zenon DEF Commit, UsedNoncesRemembered
      <4> QED
        BY <2>1, <4>1, CleanupRemembers, Zenon DEF Commit, Remembered
    <3> QED
      BY <3>1, <3>2, Zenon
  <2>2. CASE CheckCleanup
    BY <2>2, CleanupRemembers, Zenon
    DEF CheckCleanup, Remembered, UsedNoncesRemembered
  <2>3. CASE Tick
    BY <2>3 DEF Tick, Remembered, UsedNoncesRemembered
  <2>4. CASE UNCHANGED noncesVars
    BY <2>4, Zenon DEF noncesVars, Remembered, UsedNoncesRemembered
  <2> QED
    BY <2>1, <2>2, <2>3, <2>4, Zenon DEF NoncesNext
<1> QED
  BY <1>1, <1>2, NoncesTypeCorrect, PTL DEF NoncesSpec

(* Nonces::commit refuses a message it has accepted: either its window has *)
(* closed or the bitmaps left by check_cleanup() still hold its nonce.     *)
LEMMA CommitOnlyOnce ==
    ASSUME NoncesTypeOK, UsedNoncesRemembered, NEW m \in Messages, Commit(m)
    PROVE  executions[m] = 0
<1> SUFFICES ASSUME executions[m] > 0
             PROVE  FALSE
  BY DEF NoncesTypeOK
<1>1. ~(m.created_at + Timeout < now)
  BY NoncesAssumption DEF Commit, InWindow, NoncesTypeOK
<1>2. m.nonce \in CleanedCurrent \/ m.nonce \in CleanedOld
  BY <1>1, CleanupRemembers, Zenon DEF UsedNoncesRemembered
<1> QED
  BY <1>2, Zenon DEF Commit

(* A signed message is accepted at most once, for every timeout.           *)
THEOREM NoReplayTheorem == NoncesSpec => []NoReplay
<1>1. NoncesInit => NoReplay
  BY DEF NoncesInit, NoReplay
<1>2. NoncesTypeOK /\ UsedNoncesRemembered /\ NoReplay /\ [NoncesNext]_noncesVars
      => NoReplay'
  <2> SUFFICES ASSUME NoncesTypeOK, UsedNoncesRemembered, NoReplay,
                      [NoncesNext]_noncesVars
               PROVE  NoReplay'
    BY Zenon
  <2>1. ASSUME NEW c \in Messages, Commit(c)
        PROVE  NoReplay'
    <3>1. executions[c] = 0
      BY <2>1, CommitOnlyOnce, Zenon
    <3>2. executions' = [executions EXCEPT ![c] = @ + 1]
      BY <2>1, Zenon DEF Commit
    <3> QED
      BY <3>1, <3>2 DEF NoReplay, NoncesTypeOK
  <2>2. CASE CheckCleanup
    BY <2>2, Zenon DEF CheckCleanup, NoReplay
  <2>3. CASE Tick
    BY <2>3, Zenon DEF Tick, NoReplay
  <2>4. CASE UNCHANGED noncesVars
    BY <2>4, Zenon DEF noncesVars, NoReplay
  <2> QED
    BY <2>1, <2>2, <2>3, <2>4, Zenon DEF NoncesNext
<1> QED
  BY <1>1, <1>2, NoncesTypeCorrect, RememberedInvariant, PTL DEF NoncesSpec
-----------------------------------------------------------------------------
(* A wallet implements the nonces on their own: w_execute_signed commits   *)
(* one, w_execute_extension only cleans up.                                *)
THEOREM WalletImplementsNonces == WalletSpec => NoncesSpec
<1>1. WalletInit => NoncesInit
    BY Zenon DEF WalletInit
<1>2. [WalletNext]_walletVars => [NoncesNext]_noncesVars
    <2>1. ASSUME NEW m \in Messages, ExecuteSigned(m)
          PROVE  NoncesNext
        BY <2>1, Zenon DEF ExecuteSigned, NoncesNext
    <2>2. ASSUME NEW caller \in ExtensionIds, NEW request \in Requests,
                 ExecuteExtension(caller, request)
          PROVE  NoncesNext
        BY <2>2, Zenon DEF ExecuteExtension, NoncesNext
    <2>3. CASE Tick
        BY <2>3, Zenon DEF NoncesNext
    <2>4. CASE UNCHANGED walletVars
        BY <2>4, Zenon DEF walletVars
    <2> QED
        BY <2>1, <2>2, <2>3, <2>4, Zenon DEF WalletNext
<1> QED
    BY <1>1, <1>2, PTL DEF WalletSpec, NoncesSpec

(* A wallet runs no signed request twice (w_execute_signed).               *)
THEOREM WalletNoReplay == WalletSpec => []NoReplay
BY WalletImplementsNonces, NoReplayTheorem, PTL
-----------------------------------------------------------------------------
(* f is the loop over the first n operations, from the state a.            *)
IsRun(f, a, list, n) ==
    f = [i \in 0 .. n |-> IF i = 0 THEN a ELSE ExecuteOp(f[i - 1], list[i])]

(* The loop over Request::internal is well defined, however long it is.    *)
LEMMA RunExists ==
    ASSUME NEW a, NEW list, NEW n \in Nat
    PROVE  \E f : IsRun(f, a, list, n)
<1> DEFINE T == {k \in Nat : ~ \E f : IsRun(f, a, list, k)}
<1> SUFFICES ASSUME T # {}
             PROVE  FALSE
    BY Zenon
<1>1. PICK k \in T : \A m \in T : k <= m
    BY LeastElement, Zenon
<1>2. k \in Nat /\ ~ \E f : IsRun(f, a, list, k)
    BY Zenon
<1>3. CASE k = 0
    <2>1. IsRun([i \in 0 .. 0 |-> a], a, list, 0)
        BY DEF IsRun
    <2> QED
        BY <1>2, <1>3, <2>1, Zenon
<1>4. CASE k # 0
    <2>1. k - 1 \in Nat /\ ~ (k <= k - 1)
        BY <1>2, <1>4
    <2>2. PICK f : IsRun(f, a, list, k - 1)
        BY <1>1, <2>1, Zenon
    <2> DEFINE g == [i \in 0 .. k |-> IF i = k THEN ExecuteOp(f[k - 1], list[k]) ELSE f[i]]
    <2>3. ASSUME NEW i \in 0 .. k
          PROVE  g[i] = IF i = 0 THEN a ELSE ExecuteOp(g[i - 1], list[i])
        <3>1. CASE i = 0
            BY <1>2, <1>4, <2>2, <3>1 DEF IsRun
        <3>2. CASE i # 0 /\ i # k
            BY <1>2, <1>4, <2>2, <3>2 DEF IsRun
        <3>3. CASE i = k
            BY <1>2, <1>4, <3>3
        <3> QED
            BY <3>1, <3>2, <3>3, Zenon
    <2>4. IsRun(g, a, list, k)
        BY <2>3, Zenon DEF IsRun
    <2> QED
        BY <1>2, <2>4, Zenon
<1> QED
    BY <1>3, <1>4, Zenon

(* check_lockout: each operation that succeeds leaves somebody who can act.*)
LEMMA OpLeavesSomebody ==
    ASSUME NEW a, NEW op \in WalletOps, ExecuteOp(a, op).ok
    PROVE  ExecuteOp(a, op).sig \/ ExecuteOp(a, op).ext # {}
<1> USE DEF CheckLockout, Failed, Auth
<1>0. a.ok
    BY Zenon DEF ExecuteOp
<1>1. CASE op.op = "set_signature_mode"
    BY <1>0, <1>1, Zenon DEF ExecuteOp, SetSignatureMode
<1>2. CASE op.op = "add_extension"
    BY <1>0, <1>2, Zenon DEF ExecuteOp, AddExtension
<1>3. CASE op.op = "remove_extension"
    BY <1>0, <1>3, Zenon DEF ExecuteOp, RemoveExtension
<1> QED
    BY <1>1, <1>2, <1>3, Zenon DEF WalletOps

(* So does a whole request (execute_request).                              *)
LEMMA RequestLeavesSomebody ==
    ASSUME CanAct, NEW request, request.internal \in Seq(WalletOps),
           ExecuteRequest(request)
    PROVE  CanAct'
<1> DEFINE list == request.internal
           a == Auth(signature_enabled, extensions)
           f == CHOOSE f : IsRun(f, a, list, Len(list))
<1>1. Len(list) \in Nat
    OBVIOUS
<1>2. IsRun(f, a, list, Len(list))
    BY <1>1, RunExists, Zenon
<1>3. ExecuteOps(list) = f[Len(list)]
    BY Zenon DEF ExecuteOps, IsRun
<1> HIDE DEF f
<1>4. CASE Len(list) = 0
    <2>1. ExecuteOps(list) = a
        BY <1>2, <1>3, <1>4 DEF IsRun
    <2> QED
        BY <2>1 DEF ExecuteRequest, CanAct, Auth
<1>5. CASE Len(list) # 0
    <2>1. list[Len(list)] \in WalletOps
        BY <1>1, <1>5
    <2>2. ExecuteOps(list) = ExecuteOp(f[Len(list) - 1], list[Len(list)])
        BY <1>1, <1>2, <1>3, <1>5 DEF IsRun
    <2>3. ExecuteOps(list).sig \/ ExecuteOps(list).ext # {}
        BY <2>1, <2>2, OpLeavesSomebody, Zenon DEF ExecuteRequest
    <2> QED
        BY <2>3, Zenon DEF ExecuteRequest, CanAct
<1> QED
    BY <1>4, <1>5, Zenon

(* Nobody is locked out of a wallet, whatever requests are signed and      *)
(* whatever extensions ask for (check_lockout).                            *)
THEOREM NobodyIsLockedOut == WalletSpec => NeverLockedOut
<1>1. [WalletNext]_walletVars => [CanAct => CanAct']_walletVars
    <2> SUFFICES ASSUME CanAct, [WalletNext]_walletVars
                 PROVE  CanAct'
        BY Zenon
    <2>1. ASSUME NEW m \in Messages, ExecuteSigned(m)
          PROVE  CanAct'
        BY <2>1, RequestLeavesSomebody, WalletAssumption, Zenon DEF ExecuteSigned
    <2>2. ASSUME NEW caller \in ExtensionIds, NEW request \in Requests,
                 ExecuteExtension(caller, request)
          PROVE  CanAct'
        BY <2>2, RequestLeavesSomebody, WalletAssumption, Zenon DEF ExecuteExtension
    <2>3. CASE UNCHANGED authVars
        BY <2>3, Zenon DEF authVars, CanAct
    <2>4. CASE UNCHANGED walletVars
        BY <2>4, Zenon DEF walletVars, authVars, CanAct
    <2> QED
        BY <2>1, <2>2, <2>3, <2>4, Zenon DEF WalletNext
<1> QED
    BY <1>1, PTL DEF WalletSpec, NeverLockedOut
-----------------------------------------------------------------------------
(* The smaller of two numbers.                                             *)
LEMMA MinOfTwo ==
    ASSUME NEW a \in Nat, NEW b \in Nat
    PROVE  Min({a, b}) \in Nat /\ Min({a, b}) <= a /\ Min({a, b}) <= b
<1>1. \E x \in {a, b} : \A y \in {a, b} : x <= y
    OBVIOUS
<1>2. Min({a, b}) \in {a, b} /\ \A y \in {a, b} : Min({a, b}) <= y
    BY <1>1, Zenon DEF Min
<1> QED
    BY <1>2, Zenon

(* The global deployer.  An approval that can still be used is the last    *)
(* one granted, by the present owner and over the present code, and has    *)
(* not been used; a deployment under way knows the balance of the moment   *)
(* in which it was asked for.                                              *)
DeployerInv ==
    /\ state \in State /\ balance \in Nat
    /\ inflight \in [Receipts -> Receipt \cup {Idle}]
    /\ \A r \in Receipts :
           inflight[r] # Idle => inflight[r].initial_balance = inflight[r].own
    /\ granted \in [by : Owners, hash : Hashes, over : Hashes, used : BOOLEAN]
    /\ state.approved_hash \in Codes
       => /\ granted.hash = state.approved_hash
          /\ granted.by = state.owner_id
          /\ granted.over = state.code_hash
          /\ granted.used = FALSE
    /\ deployed # NoCode => state.code_hash = deployed
    /\ indexed = state

(* The default hash, which stands for no approval and no code, is the hash *)
(* of no code.                                                             *)
LEMMA DefaultIsNoCode == DEFAULT_HASH \in Hashes /\ DEFAULT_HASH \notin Codes
    BY DeployerAssumption, Zenon DEF Hashes

(* A deployer that was just created satisfies its invariant.               *)
LEMMA DeployerInitInv == DeployerInit => DeployerInv
<1> SUFFICES ASSUME DeployerInit PROVE DeployerInv
    BY Zenon
<1>1. state \in State
    <2>1. \A account \in Owners, index \in Indices, hash \in Codes \cup {DEFAULT_HASH} :
              PreApprove(WithIndex(Owner(account), index), hash) \in State
        BY DeployerAssumption, DefaultIsNoCode, Zenon
           DEF PreApprove, WithIndex, Owner, State, Hashes
    <2>2. gd_init \in State
        BY DeployerAssumption, DefaultIsNoCode, Zenon DEF gd_init, Owner, State
    <2> QED
        BY <2>1, <2>2 DEF DeployerInit, StateInits
<1>2. balance \in Nat
    BY DeployerAssumption DEF DeployerInit
<1>3. granted = [by |-> state.owner_id, hash |-> state.approved_hash,
                 over |-> state.code_hash, used |-> FALSE]
    BY Zenon DEF DeployerInit
<1>4. granted \in [by : Owners, hash : Hashes, over : Hashes, used : BOOLEAN]
    BY <1>1, <1>3, Zenon DEF State
<1> QED
    BY <1>1, <1>2, <1>3, <1>4 DEF DeployerInit, DeployerInv

(* What the refund of a deployment leaves.                                 *)
LEMMA DeployerRefund ==
    ASSUME NEW paid \in Nat, NEW receipt \in Receipt
    PROVE  /\ RefundOf(paid, receipt) \in Nat
           /\ RefundOf(paid, receipt) <= paid
           /\ RefundOf(paid, receipt) > 0
              => RefundOf(paid, receipt) <= paid - receipt.initial_balance
<1> DEFINE gained == IF paid < receipt.initial_balance THEN 0
                     ELSE paid - receipt.initial_balance
<1>1. receipt.initial_balance \in Nat /\ receipt.deploy_deposit \in Nat
    BY Zenon DEF Receipt
<1>2. /\ gained \in Nat /\ gained <= paid
      /\ gained > 0 => gained = paid - receipt.initial_balance
    BY <1>1
<1>3. RefundOf(paid, receipt) = Min({gained, receipt.deploy_deposit})
    BY Zenon DEF RefundOf
<1> HIDE DEF gained
<1>4. RefundOf(paid, receipt) \in Nat /\ RefundOf(paid, receipt) <= gained
    BY <1>1, <1>2, <1>3, MinOfTwo, Zenon
<1> QED
    BY <1>1, <1>2, <1>4

(* Every receipt the deployer executes keeps its invariant.                *)
LEMMA DeployerKeepsInv == DeployerInv /\ [DeployerNext]_dvars => DeployerInv'
<1> SUFFICES ASSUME DeployerInv, [DeployerNext]_dvars PROVE DeployerInv'
    BY Zenon
<1> USE DEF DeployerInv
<1>1. CASE UNCHANGED dvars
    BY <1>1, Zenon DEF dvars
<1>2. ASSUME NEW caller \in Owners, NEW prior \in Hashes, NEW hash \in Hashes,
             gd_approve(caller, prior, hash)
      PROVE  DeployerInv'
    <2>1. state'.approved_hash = hash /\ state'.owner_id = caller /\ state'.code_hash = prior
          /\ state' \in State /\ state.code_hash = prior
        BY <1>2, Zenon DEF gd_approve, IsOwner, IsCurrentCodeHash, State
    <2>2. granted' \in [by : Owners, hash : Hashes, over : Hashes, used : BOOLEAN]
          /\ granted'.hash = hash /\ granted'.by = caller /\ granted'.over = prior
          /\ granted'.used = FALSE
        BY <1>2, Zenon DEF gd_approve
    <2>3. UNCHANGED <<deployed, balance, inflight>> /\ indexed' = state'
        BY <1>2, Zenon DEF gd_approve, ApproveEvent
    <2> QED
        BY <2>1, <2>2, <2>3, Zenon
<1>3. ASSUME NEW code \in Codes, NEW deposit \in Deposits, gd_deploy(code, deposit)
      PROVE  DeployerInv'
    <2>1. PICK r \in Receipts : inflight' = [inflight EXCEPT ![r] =
                  [code_hash |-> code, deploy_deposit |-> deposit, own |-> balance,
                   initial_balance |-> InitialBalance(deposit)]]
        BY <1>3, Zenon DEF gd_deploy
    <2>2. InitialBalance(deposit) = balance /\ deposit \in Nat
        BY DeployerAssumption DEF InitialBalance
    <2>3. [code_hash |-> code, deploy_deposit |-> deposit, own |-> balance,
           initial_balance |-> InitialBalance(deposit)] \in Receipt
        BY <2>2, Zenon DEF Receipt
    <2>4. inflight' \in [Receipts -> Receipt \cup {Idle}]
          /\ \A i \in Receipts :
                 inflight'[i] # Idle => inflight'[i].initial_balance = inflight'[i].own
        BY <2>1, <2>2, <2>3, Zenon
    <2> QED
        BY <1>3, <2>4, Zenon DEF gd_deploy
<1>4. ASSUME NEW r \in Receipts, gd_post_deploy(r) PROVE DeployerInv'
    <2> DEFINE receipt == inflight[r]
               paid == balance + receipt.deploy_deposit - Cost
    <2>1. receipt \in Receipt /\ receipt.code_hash \in Codes
        BY <1>4, Zenon DEF gd_post_deploy, Receipt
    <2>2. paid \in Nat
        BY <1>4, <2>1, DeployerAssumption DEF gd_post_deploy, CanDeploy, Receipt
    <2>3. balance' = paid - RefundOf(paid, receipt)
        BY <1>4, Zenon DEF gd_post_deploy
    <2>4. balance' \in Nat
        <3> HIDE DEF paid, receipt
        <3> QED
            <4>1. RefundOf(paid, receipt) \in Nat /\ RefundOf(paid, receipt) <= paid
                BY <2>1, <2>2, DeployerRefund, Zenon
            <4> QED
                BY <2>2, <2>3, <4>1
    <2>5. /\ state' \in State /\ state'.approved_hash = DEFAULT_HASH
          /\ state'.code_hash = receipt.code_hash
        BY <1>4, <2>1, DefaultIsNoCode, Zenon DEF gd_post_deploy, PostDeploy, State, Hashes
    <2>6. indexed' = state'
        <3>1. /\ state' = PostDeploy(state, receipt.code_hash)
              /\ indexed' = ApproveEvent(DeployEvent(state, receipt.code_hash), DEFAULT_HASH)
            BY <1>4, Zenon DEF gd_post_deploy
        <3> HIDE DEF receipt
        <3> QED
            BY <3>1, Zenon DEF PostDeploy, ApproveEvent, DeployEvent, State
    <2>7. deployed' = receipt.code_hash
        BY <1>4, Zenon DEF gd_post_deploy
    <2>8. granted' \in [by : Owners, hash : Hashes, over : Hashes, used : BOOLEAN]
        BY <1>4, Zenon DEF gd_post_deploy
    <2>9. inflight' \in [Receipts -> Receipt \cup {Idle}]
          /\ \A i \in Receipts :
                 inflight'[i] # Idle => inflight'[i].initial_balance = inflight'[i].own
        BY <1>4, Zenon DEF gd_post_deploy
    <2> QED
        BY <2>4, <2>5, <2>6, <2>7, <2>8, <2>9, DefaultIsNoCode, Zenon
<1>5. ASSUME NEW r \in Receipts, DeploymentFails(r) PROVE DeployerInv'
    BY <1>5, Zenon DEF DeploymentFails
<1>6. ASSUME NEW caller \in Owners, NEW receiver \in Owners,
             gd_transfer_ownership(caller, receiver)
      PROVE  DeployerInv'
    <2>1. state' \in State /\ state'.approved_hash = DEFAULT_HASH
          /\ state'.code_hash = state.code_hash
        BY <1>6, DefaultIsNoCode, Zenon
           DEF gd_transfer_ownership, TransferTo, ApproveEvent, TransferEvent, State
    <2>2. indexed' = state' /\ UNCHANGED <<deployed, balance, inflight, granted>>
        BY <1>6, Zenon DEF gd_transfer_ownership, TransferTo
    <2> QED
        BY <2>1, <2>2, DefaultIsNoCode, Zenon
<1>7. CASE ReceiveNear
    BY <1>7 DEF ReceiveNear
<1> HIDE DEF DeployerInv
<1> QED
    BY <1>1, <1>2, <1>3, <1>4, <1>5, <1>6, <1>7, Zenon DEF DeployerNext

(* The invariant of the deployer holds in every state: a usable approval   *)
(* is the last one granted, and a deployment under way knows the balance   *)
(* it found.                                                               *)
THEOREM DeployerInvariance == DeployerSpec => []DeployerInv
    BY DeployerInitInv, DeployerKeepsInv, PTL DEF DeployerSpec

(* Whatever gd_post_deploy() puts in force carries an approval of the      *)
(* account that owns the deployer at that moment, given over the code that *)
(* is replaced and not used before: however many deployments were asked    *)
(* for in between, and whatever became of the ownership.                   *)
THEOREM DeployerApproves == DeployerSpec => DeployedWasApproved
<1>1. DeployerInv =>
      [\A r \in Receipts :
           inflight[r] # Idle /\ gd_post_deploy(r)
           => /\ granted.hash = deployed'
              /\ granted.by = state.owner_id
              /\ granted.over = state.code_hash
              /\ ~ granted.used]_dvars
    <2> SUFFICES ASSUME DeployerInv, NEW r \in Receipts, inflight[r] # Idle,
                        gd_post_deploy(r)
                 PROVE  /\ granted.hash = deployed'
                        /\ granted.by = state.owner_id
                        /\ granted.over = state.code_hash
                        /\ granted.used = FALSE
        BY Zenon
    <2>1. inflight[r].code_hash \in Codes
        BY Zenon DEF DeployerInv, Receipt
    <2>2. state.approved_hash = inflight[r].code_hash /\ deployed' = inflight[r].code_hash
        BY Zenon DEF gd_post_deploy, CanDeploy, IsApproved
    <2> QED
        BY <2>1, <2>2, Zenon DEF DeployerInv
<1> QED
    BY <1>1, DeployerInvariance, PTL DEF DeployedWasApproved

(* A deployment whose deposit covers the cost leaves the account what it   *)
(* had when gd_deploy() was called, or what it has now if that is less:    *)
(* for all costs, deposits and balances.                                   *)
THEOREM DeployerIsFree == DeployerSpec => CoveredDeploymentIsFree
<1>1. DeployerInv =>
      [\A r \in Receipts :
           /\ inflight[r] # Idle
           /\ inflight[r].deploy_deposit >= Cost
           /\ gd_post_deploy(r)
           => balance' >= Min({balance, inflight[r].own})]_dvars
    <2> SUFFICES ASSUME DeployerInv, NEW r \in Receipts, inflight[r] # Idle,
                        inflight[r].deploy_deposit >= Cost, gd_post_deploy(r)
                 PROVE  balance' >= Min({balance, inflight[r].own})
        BY Zenon
    <2> DEFINE receipt == inflight[r]
               paid == balance + receipt.deploy_deposit - Cost
    <2>1. /\ receipt \in Receipt /\ receipt.own \in Nat /\ receipt.deploy_deposit \in Nat
          /\ receipt.initial_balance = receipt.own /\ balance \in Nat
        BY Zenon DEF DeployerInv, Receipt
    <2>2. paid \in Nat /\ paid >= balance
        BY <2>1, DeployerAssumption
    <2>3. balance' = paid - RefundOf(paid, receipt)
        BY Zenon DEF gd_post_deploy
    <2> HIDE DEF paid, receipt
    <2>4. balance' \in Nat /\ (balance' >= balance \/ balance' >= receipt.own)
        BY <2>1, <2>2, <2>3, DeployerRefund
    <2>5. /\ Min({balance, receipt.own}) \in Nat
          /\ Min({balance, receipt.own}) <= balance
          /\ Min({balance, receipt.own}) <= receipt.own
        BY <2>1, MinOfTwo, Zenon
    <2>6. balance' >= Min({balance, receipt.own})
        BY <2>1, <2>4, <2>5
    <2> QED
        BY <2>6, Zenon DEF receipt
<1> QED
    BY <1>1, DeployerInvariance, PTL DEF CoveredDeploymentIsFree
-----------------------------------------------------------------------------
(* The outlayer app and the treasury logger.                               *)
AppInv == app \in AppState /\ app_indexed = app

LoggerEvents ==
    [token : LogTokens, amounts : UNION {[1 .. n -> LogAmounts] : n \in 0 .. MaxBatch},
     nonce : Nat]
LoggerInv ==
    /\ nonce \in Nat /\ logged \in Seq(LoggerEvents) /\ Len(logged) = nonce
    /\ \A i \in DOMAIN logged : logged[i].nonce = i - 1

(* What appending does to a sequence.                                      *)
LEMMA Appended ==
    ASSUME NEW S, NEW s \in Seq(S), NEW x \in S
    PROVE  /\ Append(s, x) \in Seq(S) /\ Len(Append(s, x)) = Len(s) + 1
           /\ \A i \in 1 .. Len(s) : Append(s, x)[i] = s[i]
           /\ Append(s, x)[Len(s) + 1] = x
OBVIOUS

(* The invariant of the treasury logger holds in every state.              *)
LEMMA LoggerInvariance == LoggerSpec => []LoggerInv
<1>1. LoggerInit => LoggerInv
    BY DEF LoggerInit, LoggerInv
<1>2. LoggerInv /\ [LoggerNext]_loggerVars => LoggerInv'
    <2> SUFFICES ASSUME LoggerInv, [LoggerNext]_loggerVars PROVE LoggerInv'
        BY Zenon
    <2>1. CASE UNCHANGED loggerVars
        BY <2>1, Zenon DEF LoggerInv, loggerVars
    <2>2. ASSUME NEW token \in LogTokens, NEW ids, NEW owners,
                 NEW amounts \in UNION {[1 .. n -> LogAmounts] : n \in 0 .. MaxBatch},
                 mt_on_transfer(token, ids, owners, amounts)
          PROVE  LoggerInv'
        <3> DEFINE e == [token |-> token, amounts |-> amounts, nonce |-> nonce]
        <3>1. logged' = Append(logged, e) /\ nonce' = nonce + 1
            BY <2>2, Zenon DEF mt_on_transfer, NextNonce
        <3>2. e \in LoggerEvents /\ e.nonce = nonce
            BY Zenon DEF LoggerEvents, LoggerInv
        <3> HIDE DEF e
        <3>3. /\ logged \in Seq(LoggerEvents) /\ nonce \in Nat /\ Len(logged) = nonce
              /\ \A i \in DOMAIN logged : logged[i].nonce = i - 1
            BY Zenon DEF LoggerInv
        <3>4. /\ logged' \in Seq(LoggerEvents) /\ Len(logged') = nonce + 1
              /\ \A i \in 1 .. nonce : logged'[i] = logged[i]
              /\ logged'[nonce + 1] = e
            <4> DEFINE longer == Append(logged, e)
            <4>1. /\ longer \in Seq(LoggerEvents) /\ Len(longer) = Len(logged) + 1
                  /\ \A i \in 1 .. Len(logged) : longer[i] = logged[i]
                  /\ longer[Len(logged) + 1] = e
                BY <3>2, <3>3, Appended, Zenon
            <4> HIDE DEF longer
            <4>2. logged' = longer
                BY <3>1, Zenon DEF longer
            <4> QED
                BY <3>3, <4>1, <4>2, Zenon
        <3>5. DOMAIN logged' = 1 .. nonce + 1 /\ DOMAIN logged = 1 .. nonce
            BY <3>3, <3>4
        <3>6. \A i \in DOMAIN logged' : logged'[i].nonce = i - 1
            BY <3>2, <3>3, <3>4, <3>5
        <3> QED
            BY <3>1, <3>3, <3>4, <3>6 DEF LoggerInv
    <2> QED
        BY <2>1, <2>2, Zenon DEF LoggerNext
<1> QED
    BY <1>1, <1>2, PTL DEF LoggerSpec

(* Whoever follows the events of the three contracts knows their state at  *)
(* any time: the code that the network runs, what is approved, who owns    *)
(* and administers, and the deposits under the nonces 0, 1, 2, ...         *)
THEOREM EventsTellTheTruth == DeployerSpec /\ AppSpec /\ LoggerSpec => []LogsTellTheTruth
<1>1. DeployerInv /\ AppInv /\ LoggerInv => LogsTellTheTruth
    BY Zenon DEF DeployerInv, AppInv, LoggerInv, LogsTellTheTruth
<1>2. AppInit => AppInv
    <2>1. \A admin \in Admins, hash \in AppHashes, url \in Urls :
              WithCodeUrl(WithCodeHash(NewApp(admin), hash), url) \in AppState
        BY AppAssumption, Zenon DEF AppState, NewApp, WithCodeHash, WithCodeUrl
    <2> QED
        BY <2>1 DEF AppInit, AppInits, AppInv
<1>3. AppInv /\ [AppNext]_appVars => AppInv'
    BY Zenon DEF AppInv, AppNext, appVars, AppState, oa_set_code, oa_transfer_admin,
       SetCode, SetCodeEvent, TransferAdminEvent, WithCodeHash, WithCodeUrl
<1> QED
    BY <1>1, <1>2, <1>3, DeployerInvariance, LoggerInvariance, PTL DEF AppSpec
=============================================================================
