------------------------ MODULE SignedIntentsProofs ------------------------
(***************************************************************************)
(* No nonce of an account is spent twice, for any number of accounts,      *)
(* nonces, salts and payloads.  That proof needs only the nonces and the   *)
(* salts: what payloads do to the entries of accounts plays no role.  The  *)
(* second part is about the entries: a lock freezes an account, and what   *)
(* others do to an account takes nothing from its owner.                   *)
(*                                                                         *)
(* The third part is about how the accounts are stored.  Upgrades are      *)
(* invisible: the storage of the verifier, with entries of several         *)
(* versions in it, implements plain accounts, for any accounts, keys,      *)
(* nonces and salts.                                                       *)
(***************************************************************************)
EXTENDS SignedIntents, StorageUpgrade, Sums

IInv == NoncesTypeOK /\ SpentIsRemembered

\* The steps that only change entries of accounts preserve the invariant: it
\* does not mention them.
LEMMA EntriesDoNotMatter ==
    ASSUME IInv, UNCHANGED <<now, nonceVars, saltVars>>
    PROVE  IInv'
BY Zenon DEF IInv, NoncesTypeOK, SpentIsRemembered, AtMostOnce, Dead, IsUsed, nonceVars,
   saltVars

\* Before anything happens, the spent nonces are the ones of migrated accounts.
LEMMA InitIInv == Init => IInv
<1> SUFFICES ASSUME Init PROVE IInv
    BY Zenon
<1>1. LegacyNonces \subseteq Nonces
    BY SignedIntentsAssumption, Zenon
<1>2. \A a \in Accounts : \A n \in Nonces :
          /\ executions[a][n] = IF n \in legacy[a] THEN 1 ELSE 0
          /\ nonces[a] = {}
    BY Zenon DEF Init
<1>3. NoncesTypeOK
    <2>1. legacy \in [Accounts -> SUBSET Nonces]
        BY <1>1, Zenon DEF Init
    <2>2. executions \in [Accounts -> [Nonces -> Nat]]
        BY Zenon DEF Init
    <2> QED
        BY <2>1, <2>2, Zenon DEF Init, NoncesTypeOK
<1>4. SpentIsRemembered
    BY <1>2 DEF Init, SpentIsRemembered, AtMostOnce
<1> QED
    BY <1>3, <1>4, Zenon DEF IInv

\* A payload that execute_signed_intent accepts has a nonce that was never spent:
\* the maps do not have it, and a dead nonce fails verify_intent_nonce.
LEMMA AcceptedIsFresh ==
    ASSUME IInv, NEW p \in Payloads, Accepts(p)
    PROVE  /\ p.signer_id \in Accounts
           /\ p.nonce \in Nonces
           /\ executions[p.signer_id][p.nonce] = 0
           /\ p.nonce[1] \in V1 => IsUsed(SaltOf[p.nonce[1]])
<1> DEFINE a == p.signer_id
           n == p.nonce
<1>1. a \in Accounts /\ n \in Nonces /\ DeadlineOf \in [V1 -> Nat]
    BY SignedIntentsAssumption, Zenon
<1>2. n \notin nonces[a] /\ n \notin legacy[a]
    BY Zenon DEF Accepts, CanCommit
<1>3. n[1] \in V1 => IsValidSalt(SaltOf[n[1]]) /\ DeadlineOf[n[1]] >= now
    BY Zenon DEF Accepts, VerifyIntentNonce
<1>4. ~Dead(n)
    <2> SUFFICES ASSUME n[1] \in V1
                 PROVE  /\ ~(DeadlineOf[n[1]] < now)
                        /\ SaltOf[n[1]] \notin previous \ valid
        BY Zenon DEF Dead
    <2>1. ~(DeadlineOf[n[1]] < now)
        BY <1>1, <1>3 DEF IInv, NoncesTypeOK
    <2>2. SaltOf[n[1]] \notin previous \ valid
        BY <1>3, Zenon DEF IsValidSalt, IInv, SpentIsRemembered
    <2> QED
        BY <2>1, <2>2, Zenon
<1>5. executions[a][n] = 0
    <2>1. executions[a][n] \in Nat
        BY <1>1, Zenon DEF IInv, NoncesTypeOK
    <2>2. ~(executions[a][n] > 0)
        BY <1>1, <1>2, <1>4, Zenon DEF IInv, SpentIsRemembered
    <2> QED
        BY <2>1, <2>2
<1>6. n[1] \in V1 => IsUsed(SaltOf[n[1]])
    BY <1>3, Zenon DEF IsValidSalt, IsUsed, IInv, NoncesTypeOK
<1> QED
    BY <1>1, <1>5, <1>6, Zenon

\* Accepting a payload preserves the invariant: its nonce is spent for the first
\* time, and remembered in the new map.
LEMMA ExecuteIInv ==
    ASSUME IInv, NEW p \in Payloads, ExecuteSignedIntent(p)
    PROVE  IInv'
<1> DEFINE a == p.signer_id
           n == p.nonce
<1>1. /\ a \in Accounts
      /\ n \in Nonces
      /\ executions[a][n] = 0
      /\ n[1] \in V1 => IsUsed(SaltOf[n[1]])
    BY AcceptedIsFresh, Zenon DEF ExecuteSignedIntent
<1>2. /\ UNCHANGED <<now, legacy, saltVars>>
      /\ nonces' = [nonces EXCEPT ![a] = @ \cup {n}]
      /\ executions' = [executions EXCEPT ![a][n] = @ + 1]
    BY Zenon DEF ExecuteSignedIntent
<1>3. NoncesTypeOK /\ SpentIsRemembered
    BY Zenon DEF IInv
<1> HIDE DEF a, n
<1>4. NoncesTypeOK'
    BY <1>1, <1>2, <1>3 DEF NoncesTypeOK, saltVars
<1>5. \A b \in Accounts : \A m \in Nonces :
          /\ m \in nonces'[b] <=> m \in nonces[b] \/ (b = a /\ m = n)
          /\ executions'[b][m] = IF b = a /\ m = n THEN 1 ELSE executions[b][m]
    BY <1>1, <1>2, <1>3 DEF NoncesTypeOK
<1>6. SpentIsRemembered'
    <2>1. AtMostOnce' /\ (current \notin previous)'
        BY <1>2, <1>3, <1>5 DEF SpentIsRemembered, AtMostOnce, saltVars
    <2>2. ASSUME NEW b \in Accounts, NEW m \in Nonces
          PROVE  /\ m \in nonces'[b] /\ m[1] \in V1 => IsUsed(SaltOf[m[1]])'
                 /\ executions'[b][m] > 0 => m \in nonces'[b] \/ m \in legacy'[b] \/ Dead(m)'
        BY <1>1, <1>2, <1>3, <1>5, Zenon DEF SpentIsRemembered, IsUsed, Dead, saltVars
    <2> QED
        BY <2>1, <2>2, Zenon DEF SpentIsRemembered
<1> QED
    BY <1>4, <1>6, Zenon DEF IInv

\* cleanup_nonces preserves the invariant: the nonces of the word that it deletes
\* have the deadline and the salt of the nonce that it was called with, so all of
\* them are dead.
LEMMA CleanupIInv ==
    ASSUME IInv, NEW a \in Accounts, NEW n \in Nonces, CleanupNonces(a, n)
    PROVE  IInv'
<1>1. NoncesTypeOK /\ SpentIsRemembered
    BY Zenon DEF IInv
<1>2. /\ UNCHANGED <<now, legacy, executions, saltVars>>
      /\ nonces' = [nonces EXCEPT ![a] = {m \in @ : m[1] # n[1]}]
      /\ IsNonceCleanable(n)
    BY Zenon DEF CleanupNonces
<1>3. NoncesTypeOK'
    BY <1>1, <1>2, Zenon DEF NoncesTypeOK, saltVars
<1>4. \A b \in Accounts : \A m \in Nonces :
          m \in nonces'[b] <=> m \in nonces[b] /\ (b = a => m[1] # n[1])
    BY <1>1, <1>2, Zenon DEF NoncesTypeOK
<1>5. ASSUME NEW m \in Nonces, m \in nonces[a], m[1] = n[1]
      PROVE  Dead(m)
    BY <1>1, <1>2, <1>5, Zenon
       DEF SpentIsRemembered, IsNonceCleanable, IsValidSalt, IsUsed, Dead
<1>6. ASSUME NEW b \in Accounts, NEW m \in Nonces
      PROVE  /\ m \in nonces'[b] /\ m[1] \in V1 => IsUsed(SaltOf[m[1]])'
             /\ executions'[b][m] > 0 => m \in nonces'[b] \/ m \in legacy'[b] \/ Dead(m)'
    <2>1. Dead(m)' <=> Dead(m)
        BY <1>2, Zenon DEF Dead, saltVars
    <2>2. IsUsed(SaltOf[m[1]])' <=> IsUsed(SaltOf[m[1]])
        BY <1>2, Zenon DEF IsUsed, saltVars
    <2> QED
        BY <1>1, <1>2, <1>4, <1>5, <2>1, <2>2, Zenon DEF SpentIsRemembered
<1> QED
    BY <1>1, <1>2, <1>3, <1>6, Zenon DEF IInv, SpentIsRemembered, AtMostOnce, saltVars

\* What is dead stays dead, and a salt that the registry knows stays known, when
\* the clock moves or the registry changes: the current salt is always a new one.
LEMMA SaltsAndClockIInv ==
    ASSUME IInv,
           UNCHANGED nonceVars,
           \/ Tick
           \/ \E s \in Salts : \/ UpdateCurrentSalt(s)
                               \/ InvalidateCurrentSalt(s)
                               \/ InvalidatePreviousSalt(s)
    PROVE  IInv' /\ \A s \in previous \ valid : ~IsValidSalt(s)'
<1>1. NoncesTypeOK /\ SpentIsRemembered
    BY Zenon DEF IInv
<1> DEFINE Grows ==
        /\ now' \in Nat /\ now <= now'
        /\ current' \in Salts /\ current' \notin previous'
        /\ previous' \in SUBSET Salts /\ valid' \in SUBSET previous'
        /\ previous \ valid \subseteq previous' \ valid'
        /\ previous \cup {current} \subseteq previous' \cup {current'}
<1>2. Grows
    <2>1. CASE Tick
        BY <1>1, <2>1 DEF Tick, NoncesTypeOK, SpentIsRemembered, saltVars
    <2>2. ASSUME NEW s \in Salts, UpdateCurrentSalt(s) \/ InvalidateCurrentSalt(s)
          PROVE  Grows
        <3>1. s # current /\ s \notin previous /\ current' = s /\ now' = now
            BY <2>2, Zenon DEF UpdateCurrentSalt, InvalidateCurrentSalt, IsUsed
        <3>2. previous' = previous \cup {current}
            BY <2>2, Zenon DEF UpdateCurrentSalt, InvalidateCurrentSalt
        <3>3. valid' = valid \cup {current} \/ valid' = valid \ {current}
            BY <2>2, Zenon DEF UpdateCurrentSalt, InvalidateCurrentSalt
        <3> QED
            BY <1>1, <3>1, <3>2, <3>3 DEF NoncesTypeOK, SpentIsRemembered
    <2>3. ASSUME NEW s \in Salts, InvalidatePreviousSalt(s)
          PROVE  Grows
        BY <1>1, <2>3 DEF InvalidatePreviousSalt, NoncesTypeOK, SpentIsRemembered
    <2> QED
        BY <2>1, <2>2, <2>3, Zenon
<1>3. NoncesTypeOK'
    BY <1>1, <1>2, Zenon DEF NoncesTypeOK, nonceVars
<1>4. ASSUME NEW m \in Nonces
      PROVE  /\ Dead(m) => Dead(m)'
             /\ m[1] \in V1 /\ IsUsed(SaltOf[m[1]]) => IsUsed(SaltOf[m[1]])'
    <2>1. m[1] \in V1 => DeadlineOf[m[1]] \in Nat
        BY SignedIntentsAssumption, Zenon
    <2> QED
        BY <1>1, <1>2, <2>1 DEF Dead, IsUsed, NoncesTypeOK
<1>5. SpentIsRemembered'
    BY <1>1, <1>2, <1>4, Zenon DEF SpentIsRemembered, AtMostOnce, nonceVars
<1>6. \A s \in previous \ valid : ~IsValidSalt(s)'
    BY <1>2, Zenon DEF IsValidSalt
<1> QED
    BY <1>3, <1>5, <1>6, Zenon DEF IInv

\* Every step preserves the invariant, and none revives a salt.
LEMMA NextIInv ==
    ASSUME IInv, [Next]_vars
    PROVE  IInv' /\ \A s \in previous \ valid : ~IsValidSalt(s)'
<1>1. CASE UNCHANGED <<now, nonceVars, saltVars>>
    <2>1. IInv'
        BY <1>1, EntriesDoNotMatter, Zenon
    <2>2. \A s \in previous \ valid : ~IsValidSalt(s)'
        BY <1>1, Zenon DEF IInv, SpentIsRemembered, IsValidSalt, saltVars
    <2> QED
        BY <2>1, <2>2, Zenon
<1>2. ASSUME NEW p \in Payloads, ExecuteSignedIntent(p)
      PROVE  IInv' /\ \A s \in previous \ valid : ~IsValidSalt(s)'
    <2>1. UNCHANGED saltVars
        BY <1>2, Zenon DEF ExecuteSignedIntent
    <2> QED
        BY <1>2, <2>1, ExecuteIInv, Zenon DEF IInv, SpentIsRemembered, IsValidSalt, saltVars
<1>3. ASSUME NEW a \in Accounts, NEW n \in Nonces, CleanupNonces(a, n)
      PROVE  IInv' /\ \A s \in previous \ valid : ~IsValidSalt(s)'
    <2>1. UNCHANGED saltVars
        BY <1>3, Zenon DEF CleanupNonces
    <2> QED
        BY <1>3, <2>1, CleanupIInv, Zenon DEF IInv, SpentIsRemembered, IsValidSalt, saltVars
<1>4. ASSUME \/ Tick
             \/ \E s \in Salts : \/ UpdateCurrentSalt(s)
                                 \/ InvalidateCurrentSalt(s)
                                 \/ InvalidatePreviousSalt(s)
      PROVE  IInv' /\ \A s \in previous \ valid : ~IsValidSalt(s)'
    <2>1. UNCHANGED nonceVars
        BY <1>4, Zenon
           DEF Tick, UpdateCurrentSalt, InvalidateCurrentSalt, InvalidatePreviousSalt
    <2> QED
        BY <1>4, <2>1, SaltsAndClockIInv, Zenon
<1>5. ASSUME NEW a \in Accounts,
             \/ DisableAuthByPredecessorId(a)
             \/ ForceLockAccount(a)
             \/ ForceUnlockAccount(a)
             \/ AddBalance(a)
             \/ \E enable \in BOOLEAN : ForceSetAuthByPredecessorId(a, enable)
             \/ \E k \in Keys : OwnChangeKey(a, k) \/ ChangeKey(a, k)
      PROVE  UNCHANGED <<now, nonceVars, saltVars>>
    BY <1>5, Zenon DEF DisableAuthByPredecessorId, ForceLockAccount, ForceUnlockAccount,
       AddBalance, ForceSetAuthByPredecessorId, OwnChangeKey, ChangeKey
<1>6. CASE UNCHANGED vars
    <2>1. UNCHANGED <<now, nonceVars, saltVars>>
        BY <1>6, Zenon DEF vars, nonceVars, saltVars
    <2> QED
        BY <1>1, <2>1, Zenon
<1> QED
    BY <1>1, <1>2, <1>3, <1>4, <1>5, <1>6, Zenon DEF Next

\* The invariant holds in every reachable state: spent nonces are remembered by
\* one of the two maps until they are dead.
THEOREM Remembered == Spec => []SpentIsRemembered
<1>1. Init => IInv
    BY InitIInv, Zenon
<1>2. IInv /\ [Next]_vars => IInv'
    BY NextIInv, Zenon
<1>3. IInv => SpentIsRemembered
    BY Zenon DEF IInv
<1> QED
    BY <1>1, <1>2, <1>3, PTL DEF Spec

\* No nonce of an account is ever spent twice: the replay protection of
\* execute_intents survives every order of payloads, cleanups, rotations and
\* invalidations of salts, locks, and changes of keys.
THEOREM NoncesSpentAtMostOnce == Spec => []AtMostOnce
<1>1. SpentIsRemembered => AtMostOnce
    BY Zenon DEF SpentIsRemembered
<1> QED
    BY <1>1, Remembered, PTL

\* A salt that invalidate_salts made invalid never becomes valid again.
THEOREM InvalidatedForever == Spec => InvalidSaltsStayInvalid
<1>1. Init => IInv
    BY InitIInv, Zenon
<1>2. IInv /\ [Next]_vars => IInv'
    BY NextIInv, Zenon
<1>3. IInv /\ [Next]_vars => [\A s \in previous \ valid : ~IsValidSalt(s)']_vars
    BY NextIInv, Zenon
<1> QED
    BY <1>1, <1>2, <1>3, PTL DEF Spec, InvalidSaltsStayInvalid

---------------------------------------------------------------------------
(* The entries of the accounts. *)

EntriesOK ==
    /\ DOMAIN accounts \subseteq Accounts
    /\ \A a \in DOMAIN accounts : accounts[a] \in AccountEntries

(* An account, stored or new, has a well-typed entry.                      *)
LEMMA EntryType ==
    ASSUME EntriesOK, NEW a \in Accounts
    PROVE  Entry(a) \in AccountEntries
BY Zenon DEF EntriesOK, Entry, Exists, AccountNew, AccountEntries

\* Writing the entry of an account leaves the others alone.
LEMMA PutWritesOne ==
    ASSUME EntriesOK, NEW a \in Accounts, NEW e \in AccountEntries, accounts' = Put(a, e)
    PROVE  /\ EntriesOK'
           /\ DOMAIN accounts' = DOMAIN accounts \cup {a}
           /\ accounts'[a] = e
           /\ \A b \in DOMAIN accounts : b # a => accounts'[b] = accounts[b]
BY Zenon DEF EntriesOK, Put

(* Adding and removing a key gives a well-typed entry.                     *)
LEMMA KeyChangeTypes ==
    ASSUME NEW e \in AccountEntries, NEW k \in Keys, NEW a
    PROVE  KeyAdded(a, e, k) \in AccountEntries /\ KeyRemoved(a, e, k) \in AccountEntries
BY Zenon DEF KeyAdded, KeyRemoved, AccountEntries

\* Every intent of a payload leaves an entry.
LEMMA ApplyIntentType ==
    ASSUME NEW a, NEW r, r.entry \in AccountEntries, NEW i \in AccountIntents
    PROVE  ApplyIntent(a, r, i).entry \in AccountEntries
<1>1. CASE i.op = "add_public_key"
    <2>1. i.public_key \in Keys
        BY <1>1, Zenon DEF AccountIntents
    <2> QED
        BY <1>1, <2>1, KeyChangeTypes, Zenon DEF ApplyIntent
<1>2. CASE i.op = "remove_public_key"
    <2>1. i.public_key \in Keys
        BY <1>2, Zenon DEF AccountIntents
    <2> QED
        BY <1>2, <2>1, KeyChangeTypes, Zenon DEF ApplyIntent
<1>3. CASE i.op = "set_auth_by_predecessor_id"
    <2>1. [r.entry EXCEPT !.auth_disabled = ~i.enabled] \in AccountEntries
        BY Zenon DEF AccountEntries
    <2> QED
        BY <1>3, <2>1, Zenon DEF ApplyIntent
<1>4. CASE i.op \notin {"add_public_key", "remove_public_key", "set_auth_by_predecessor_id"}
    BY <1>4, Zenon DEF ApplyIntent
<1> QED
    BY <1>1, <1>2, <1>3, <1>4, Zenon

\* f is the loop over the first n intents of the list.
IsRun(f, a, intents, n) ==
    f = [k \in 0 .. n |-> IF k = 0 THEN [ok |-> TRUE, entry |-> Entry(a)]
                                  ELSE ApplyIntent(a, f[k - 1], intents[k])]

(* A run of intents applies one intent at each position.                   *)
LEMMA RunStep ==
    ASSUME NEW f, NEW a, NEW intents, NEW n \in Nat, IsRun(f, a, intents, n),
           NEW k \in 0 .. n, k # 0
    PROVE  f[k] = ApplyIntent(a, f[k - 1], intents[k])
<1> HIDE DEF ApplyIntent, Entry
<1> QED
    BY Zenon DEF IsRun

\* The loop over the intents of a payload is well defined, however long it is.
LEMMA RunExists ==
    ASSUME NEW a, NEW intents, NEW n \in Nat
    PROVE  \E f : IsRun(f, a, intents, n)
<1> DEFINE T == {k \in Nat : ~ \E f : IsRun(f, a, intents, k)}
<1> SUFFICES ASSUME T # {}
             PROVE  FALSE
    BY Zenon
<1>1. PICK k \in T : \A m \in T : k <= m
    BY LeastElement, Zenon
<1>2. k \in Nat /\ ~ \E f : IsRun(f, a, intents, k)
    BY Zenon
<1>3. CASE k = 0
    <2>1. IsRun([i \in 0 .. 0 |-> [ok |-> TRUE, entry |-> Entry(a)]], a, intents, 0)
        BY DEF IsRun
    <2> QED
        BY <1>2, <1>3, <2>1, Zenon
<1>4. CASE k # 0
    <2>1. k - 1 \in Nat /\ ~ (k <= k - 1)
        BY <1>2, <1>4
    <2>2. PICK f : IsRun(f, a, intents, k - 1)
        BY <1>1, <2>1, Zenon
    <2> DEFINE g == [i \in 0 .. k |-> IF i = k THEN ApplyIntent(a, f[k - 1], intents[k])
                                               ELSE f[i]]
    <2>3. ASSUME NEW i \in 0 .. k
          PROVE  g[i] = IF i = 0 THEN [ok |-> TRUE, entry |-> Entry(a)]
                                 ELSE ApplyIntent(a, g[i - 1], intents[i])
        <3>1. CASE i = 0
            BY <1>2, <1>4, <2>2, <3>1, SMTT(30) DEF IsRun
        <3>2. CASE i # 0 /\ i # k
            <4>1. i \in 0 .. k - 1 /\ i - 1 \in 0 .. k /\ i - 1 # k
                BY <1>2, <1>4, <3>2
            <4>2. f[i] = ApplyIntent(a, f[i - 1], intents[i])
                <5> HIDE DEF g, T
                <5> QED
                    BY <2>1, <2>2, <3>2, <4>1, RunStep
            <4>3. g[i] = f[i] /\ g[i - 1] = f[i - 1]
                BY <3>2, <4>1, Zenon
            <4> HIDE DEF g
            <4> QED
                BY <3>2, <4>2, <4>3, Zenon
        <3>3. CASE i = k
            BY <1>2, <1>4, <3>3
        <3> QED
            BY <3>1, <3>2, <3>3, Zenon
    <2>4. IsRun(g, a, intents, k)
        BY <2>3, Zenon DEF IsRun
    <2> QED
        BY <1>2, <2>4, Zenon
<1> QED
    BY <1>3, <1>4, Zenon

\* So does a whole payload.
LEMMA ApplyIntentsType ==
    ASSUME EntriesOK, NEW a \in Accounts, NEW intents \in Seq(AccountIntents)
    PROVE  ApplyIntents(a, intents).entry \in AccountEntries
<1> DEFINE f == CHOOSE f : IsRun(f, a, intents, Len(intents))
<1>1. Len(intents) \in Nat
    OBVIOUS
<1>2. IsRun(f, a, intents, Len(intents))
    BY <1>1, RunExists, Zenon
<1>3. ApplyIntents(a, intents) = f[Len(intents)]
    BY Zenon DEF ApplyIntents, IsRun
<1> HIDE DEF f
<1> DEFINE T == {k \in Nat : k <= Len(intents) /\ f[k].entry \notin AccountEntries}
<1>4. SUFFICES ASSUME T # {}
               PROVE  FALSE
    BY <1>1, <1>3
<1>5. PICK k \in T : \A m \in T : k <= m
    BY <1>4, LeastElement, Zenon
<1>6. k \in Nat /\ k <= Len(intents) /\ f[k].entry \notin AccountEntries
    BY Zenon
<1>7. CASE k = 0
    <2>1. f[0] = [ok |-> TRUE, entry |-> Entry(a)]
        BY <1>1, <1>2 DEF IsRun
    <2> QED
        BY <1>6, <1>7, <2>1, EntryType
<1>8. CASE k # 0
    <2>1. k - 1 \in Nat /\ ~ (k <= k - 1) /\ k - 1 <= Len(intents)
        BY <1>1, <1>6, <1>8
    <2>2. f[k - 1].entry \in AccountEntries
        BY <1>5, <2>1, Zenon
    <2>3. f[k] = ApplyIntent(a, f[k - 1], intents[k])
        <3>1. k \in 0 .. Len(intents)
            BY <1>1, <1>6
        <3> HIDE DEF T
        <3> QED
            BY <1>1, <1>2, <1>8, <3>1, RunStep
    <2>4. intents[k] \in AccountIntents
        BY <1>1, <1>6, <1>8
    <2> QED
        BY <1>6, <2>2, <2>3, <2>4, ApplyIntentType, Zenon
<1> QED
    BY <1>7, <1>8, Zenon

\* The entry e of the account a has the keys that a has.
SameKeys(a, e) ==
    /\ e.implicit_public_key_removed = Entry(a).implicit_public_key_removed
    /\ e.public_keys = Entry(a).public_keys

\* A step writes no entry, or one: that of an account that is not locked, or with
\* the keys that the account has.
EntryStep ==
    \/ accounts' = accounts
    \/ \E a \in Accounts : \E e \in AccountEntries :
          accounts' = Put(a, e) /\ (IsAccountLocked(a) => SameKeys(a, e))

(* Every step writes at most one entry, and of a locked account only one   *)
(* with the keys it has.                                                   *)
LEMMA NextEntryStep ==
    ASSUME EntriesOK, [Next]_vars
    PROVE  EntryStep
<1>1. ASSUME NEW p \in Payloads, ExecuteSignedIntent(p)
      PROVE  EntryStep
    <2> DEFINE r == ApplyIntents(p.signer_id, p.intents)
    <2>1. p.signer_id \in Accounts /\ p.intents \in Seq(AccountIntents)
        BY SignedIntentsAssumption, Zenon
    <2>2. r.entry \in AccountEntries
        BY <2>1, ApplyIntentsType, Zenon
    <2>3. accounts' = Put(p.signer_id, r.entry) /\ ~IsAccountLocked(p.signer_id)
        BY <1>1, Zenon DEF ExecuteSignedIntent, Accepts, CanCommit
    <2> HIDE DEF r
    <2> QED
        BY <2>1, <2>2, <2>3, Zenon DEF EntryStep
<1>2. ASSUME NEW a \in Accounts, NEW k \in Keys, OwnChangeKey(a, k) \/ ChangeKey(a, k)
      PROVE  EntryStep
    <2>1. ChangeKey(a, k)
        BY <1>2, Zenon DEF OwnChangeKey
    <2>2. /\ KeyAdded(a, Entry(a), k) \in AccountEntries
          /\ KeyRemoved(a, Entry(a), k) \in AccountEntries
        BY EntryType, KeyChangeTypes, Zenon
    <2> QED
        BY <2>1, <2>2, Zenon DEF ChangeKey, EntryStep
<1>3. ASSUME NEW a \in Accounts, NEW e, accounts' = Put(a, e),
             \/ \E b \in BOOLEAN : e = [Entry(a) EXCEPT !.auth_disabled = b]
             \/ \E b \in BOOLEAN : e = [Entry(a) EXCEPT !.locked = b]
             \/ e = Entry(a)
      PROVE  EntryStep
    <2>1. Entry(a) \in AccountEntries
        BY EntryType, Zenon
    <2>2. e \in AccountEntries /\ SameKeys(a, e)
        BY <1>3, <2>1, Zenon DEF AccountEntries, SameKeys
    <2> QED
        BY <1>3, <2>2, Zenon DEF EntryStep
<1>4. ASSUME NEW a \in Accounts,
             \/ DisableAuthByPredecessorId(a)
             \/ ForceLockAccount(a)
             \/ ForceUnlockAccount(a)
             \/ AddBalance(a)
             \/ \E enable \in BOOLEAN : ForceSetAuthByPredecessorId(a, enable)
      PROVE  EntryStep
    <2>1. CASE DisableAuthByPredecessorId(a)
        BY <1>3, <2>1, Zenon DEF DisableAuthByPredecessorId
    <2>2. CASE ForceLockAccount(a)
        BY <1>3, <2>2, Zenon DEF ForceLockAccount
    <2>3. CASE ForceUnlockAccount(a)
        BY <1>3, <2>3, Zenon DEF ForceUnlockAccount
    <2>4. CASE AddBalance(a)
        BY <1>3, <2>4, Zenon DEF AddBalance
    <2>5. ASSUME NEW enable \in BOOLEAN, ForceSetAuthByPredecessorId(a, enable)
          PROVE  EntryStep
        <3>1. (~enable) \in BOOLEAN
            BY Zenon
        <3> QED
            BY <1>3, <2>5, <3>1, Zenon DEF ForceSetAuthByPredecessorId
    <2> QED
        BY <1>4, <2>1, <2>2, <2>3, <2>4, <2>5, Zenon
<1>5. ASSUME NEW a \in Accounts, NEW n \in Nonces, CleanupNonces(a, n)
      PROVE  EntryStep
    BY <1>5, Zenon DEF CleanupNonces, EntryStep
<1>6. ASSUME \/ Tick
             \/ \E s \in Salts : \/ UpdateCurrentSalt(s)
                                 \/ InvalidateCurrentSalt(s)
                                 \/ InvalidatePreviousSalt(s)
      PROVE  EntryStep
    BY <1>6, Zenon DEF Tick, UpdateCurrentSalt, InvalidateCurrentSalt,
       InvalidatePreviousSalt, EntryStep
<1>7. CASE UNCHANGED vars
    BY <1>7, Zenon DEF vars, EntryStep
<1> QED
    BY <1>1, <1>2, <1>4, <1>5, <1>6, <1>7, Zenon DEF Next

\* The maps of the contract keep their types, also after payloads of any length.
THEOREM TypeCorrect == Spec => []TypeOK
<1>1. Init => IInv /\ EntriesOK
    <2> SUFFICES ASSUME Init
                 PROVE  EntriesOK
        BY InitIInv, Zenon
    <2> QED
        BY Zenon DEF Init, EntriesOK, AccountNew, AccountEntries
<1>2. IInv /\ EntriesOK /\ [Next]_vars => IInv' /\ EntriesOK'
    <2> SUFFICES ASSUME IInv, EntriesOK, [Next]_vars
                 PROVE  EntriesOK'
        BY NextIInv, Zenon
    <2> QED
        BY NextEntryStep, PutWritesOne, Zenon DEF EntryStep, EntriesOK
<1>3. IInv /\ EntriesOK => TypeOK
    BY Zenon DEF IInv, EntriesOK, TypeOK
<1> QED
    BY <1>1, <1>2, <1>3, PTL, SMTT(30) DEF Spec

\* The keys of an account are a matter of its entry.
LEMMA KeysAreInTheEntry ==
    ASSUME NEW a, Exists(a), Exists(a)',
           accounts'[a].implicit_public_key_removed = accounts[a].implicit_public_key_removed,
           accounts'[a].public_keys = accounts[a].public_keys
    PROVE  KeysOf(a)' = KeysOf(a)
BY Zenon DEF KeysOf, HasPublicKey

\* Only a payload of the account spends its nonces, and not while it is locked.
LEMMA LockedSpendsNothing ==
    ASSUME NoncesTypeOK, [Next]_vars, NEW a \in Accounts, IsAccountLocked(a)
    PROVE  executions'[a] = executions[a]
<1>1. ASSUME NEW p \in Payloads, ExecuteSignedIntent(p)
      PROVE  executions'[a] = executions[a]
    <2>1. p.signer_id # a /\ p.signer_id \in Accounts
        BY <1>1, SignedIntentsAssumption, Zenon DEF ExecuteSignedIntent, Accepts, CanCommit
    <2> QED
        BY <1>1, <2>1, Zenon DEF ExecuteSignedIntent, NoncesTypeOK
<1>2. ASSUME NEW b \in Accounts, NEW n \in Nonces, CleanupNonces(b, n)
      PROVE  executions' = executions
    BY <1>2, Zenon DEF CleanupNonces
<1>3. ASSUME \/ Tick
             \/ \E s \in Salts : \/ UpdateCurrentSalt(s)
                                 \/ InvalidateCurrentSalt(s)
                                 \/ InvalidatePreviousSalt(s)
      PROVE  executions' = executions
    BY <1>3, Zenon DEF Tick, UpdateCurrentSalt, InvalidateCurrentSalt,
       InvalidatePreviousSalt, nonceVars
<1>4. ASSUME NEW b \in Accounts,
             \/ DisableAuthByPredecessorId(b)
             \/ ForceLockAccount(b)
             \/ ForceUnlockAccount(b)
             \/ AddBalance(b)
             \/ \E enable \in BOOLEAN : ForceSetAuthByPredecessorId(b, enable)
             \/ \E k \in Keys : OwnChangeKey(b, k) \/ ChangeKey(b, k)
      PROVE  executions' = executions
    BY <1>4, Zenon DEF DisableAuthByPredecessorId, ForceLockAccount, ForceUnlockAccount,
       AddBalance, ForceSetAuthByPredecessorId, OwnChangeKey, ChangeKey, nonceVars
<1>5. CASE UNCHANGED vars
    BY <1>5, Zenon DEF vars
<1> QED
    BY <1>1, <1>2, <1>3, <1>4, <1>5, Zenon DEF Next

\* A locked account is frozen, whatever is signed and whoever calls: see
\* LockedIsFrozen.
THEOREM LocksFreeze == Spec => LockedIsFrozen
<1>1. ASSUME TypeOK, [Next]_vars, NEW a \in Accounts,
             IsAccountLocked(a), IsAccountLocked(a)'
      PROVE  KeysOf(a)' = KeysOf(a) /\ executions'[a] = executions[a]
    <2>1. EntriesOK /\ NoncesTypeOK
        BY <1>1, Zenon DEF TypeOK, EntriesOK
    <2>2. executions'[a] = executions[a]
        BY <1>1, <2>1, LockedSpendsNothing, Zenon
    <2>3. Exists(a) /\ Exists(a)'
        BY <1>1, Zenon DEF IsAccountLocked
    <2>4. CASE accounts' = accounts
        BY <2>2, <2>3, <2>4, KeysAreInTheEntry, Zenon
    <2>5. ASSUME NEW b \in Accounts, NEW e \in AccountEntries,
                 accounts' = Put(b, e), IsAccountLocked(b) => SameKeys(b, e)
          PROVE  KeysOf(a)' = KeysOf(a)
        <3>1. /\ accounts'[b] = e
              /\ \A c \in DOMAIN accounts : c # b => accounts'[c] = accounts[c]
            BY <2>1, <2>5, PutWritesOne, Zenon
        <3>2. CASE a = b
            BY <1>1, <2>3, <2>5, <3>1, <3>2, KeysAreInTheEntry, Zenon DEF SameKeys, Entry
        <3>3. CASE a # b
            BY <2>3, <3>1, <3>3, KeysAreInTheEntry, Zenon DEF Exists
        <3> QED
            BY <3>2, <3>3, Zenon
    <2>6. EntryStep
        BY <1>1, <2>1, NextEntryStep, Zenon
    <2> QED
        BY <2>2, <2>4, <2>5, <2>6, Zenon DEF EntryStep
<1>2. TypeOK /\ [Next]_vars =>
          [\A a \in Accounts :
              IsAccountLocked(a) /\ IsAccountLocked(a)' =>
                 /\ KeysOf(a)' = KeysOf(a)
                 /\ executions'[a] = executions[a]]_vars
    BY <1>1, Zenon
<1> QED
    BY <1>2, TypeCorrect, PTL DEF Spec, LockedIsFrozen

\* A nonce that cleanup_nonces takes does not verify, whatever the deadline of the
\* payload, and neither does any nonce of its word.
LEMMA CleanableDoesNotVerify ==
    ASSUME NoncesTypeOK, NEW n \in Nonces, NEW m \in Nonces, NEW d,
           IsNonceCleanable(n), m[1] = n[1]
    PROVE  ~VerifyIntentNonce(m, d)
<1>1. n[1] \in V1 => DeadlineOf[n[1]] \in Nat
    BY SignedIntentsAssumption, Zenon
<1>2. now \in Nat
    BY Zenon DEF NoncesTypeOK
<1> QED
    BY <1>1, <1>2 DEF IsNonceCleanable, VerifyIntentNonce

(* Cleaning up expired nonces changes the answer to no signed payload.     *)
LEMMA CleanupChangesNoAnswer ==
    ASSUME NoncesTypeOK, NEW a \in Accounts, NEW n \in Nonces, CleanupNonces(a, n),
           NEW p \in Payloads
    PROVE  Accepts(p)' = Accepts(p)
<1>1. /\ now' = now /\ accounts' = accounts /\ legacy' = legacy
      /\ current' = current /\ valid' = valid
      /\ nonces' = [nonces EXCEPT ![a] = {m \in @ : m[1] # n[1]}]
      /\ IsNonceCleanable(n)
    BY Zenon DEF CleanupNonces, saltVars
<1>2. p.signer_id \in Accounts /\ p.nonce \in Nonces
    BY SignedIntentsAssumption, Zenon
<1>3. VerifyIntentNonce(p.nonce, p.deadline)' <=> VerifyIntentNonce(p.nonce, p.deadline)
    BY <1>1, Zenon DEF VerifyIntentNonce, IsValidSalt
<1>4. HasPublicKey(p.signer_id, p.public_key)' <=> HasPublicKey(p.signer_id, p.public_key)
    BY <1>1, Zenon DEF HasPublicKey, Exists
<1>5. CASE p.nonce[1] = n[1]
    <2>1. ~VerifyIntentNonce(p.nonce, p.deadline)
        BY <1>1, <1>2, <1>5, CleanableDoesNotVerify, Zenon
    <2>2. Accepts(p) = FALSE /\ Accepts(p)' = FALSE
        BY <1>3, <2>1, Zenon DEF Accepts
    <2> QED
        BY <2>2, Zenon
<1>6. CASE p.nonce[1] # n[1]
    <2>1. p.nonce \in nonces'[p.signer_id] <=> p.nonce \in nonces[p.signer_id]
        BY <1>1, <1>2, <1>6, Zenon DEF NoncesTypeOK
    <2>2. CanCommit(p.signer_id, p.nonce)' <=> CanCommit(p.signer_id, p.nonce)
        BY <1>1, <2>1, Zenon DEF CanCommit, IsAccountLocked, Exists
    <2> QED
        BY <1>1, <1>3, <1>4, <2>2, Zenon DEF Accepts
<1> QED
    BY <1>5, <1>6, Zenon

\* A new entry has the keys that the account had without one: an account that has
\* a key by its form is an implicit account.
LEMMA CreationKeepsKeys ==
    ASSUME EntriesOK, NEW a \in Accounts,
           AddBalance(a) \/ ForceLockAccount(a) \/ ForceUnlockAccount(a)
    PROVE  /\ KeysOf(a)' = KeysOf(a)
           /\ IsAuthByPredecessorIdEnabled(a)' = IsAuthByPredecessorIdEnabled(a)
<1>1. PICK b \in BOOLEAN :
          accounts' = Put(a, [Entry(a) EXCEPT !.locked = b]) \/ accounts' = Put(a, Entry(a))
    BY Zenon DEF AddBalance, ForceLockAccount, ForceUnlockAccount
<1>2. Entry(a) \in AccountEntries
    BY EntryType, Zenon
<1>3. [Entry(a) EXCEPT !.locked = b] \in AccountEntries
    BY <1>2, Zenon DEF AccountEntries
<1>4. /\ a \in DOMAIN accounts'
      /\ accounts'[a].implicit_public_key_removed = Entry(a).implicit_public_key_removed
      /\ accounts'[a].public_keys = Entry(a).public_keys
      /\ accounts'[a].auth_disabled = Entry(a).auth_disabled
    <2>1. DOMAIN accounts' = DOMAIN accounts \cup {a}
        BY <1>1, <1>2, <1>3, PutWritesOne, Zenon
    <2>2. accounts'[a] = [Entry(a) EXCEPT !.locked = b] \/ accounts'[a] = Entry(a)
        BY <1>1, <1>2, <1>3, PutWritesOne, Zenon
    <2> QED
        BY <1>2, <2>1, <2>2, Zenon DEF AccountEntries
<1>5. CASE Exists(a)
    <2>1. Exists(a)' /\ Entry(a) = accounts[a]
        BY <1>4, <1>5, Zenon DEF Exists, Entry
    <2>2. KeysOf(a)' = KeysOf(a)
        BY <1>4, <1>5, <2>1, KeysAreInTheEntry, Zenon
    <2>3. IsAuthByPredecessorIdEnabled(a)' <=> IsAuthByPredecessorIdEnabled(a)
        BY <1>4, <1>5, <2>1, Zenon DEF IsAuthByPredecessorIdEnabled
    <2>4. IsAuthByPredecessorIdEnabled(a)' = IsAuthByPredecessorIdEnabled(a)
        BY <2>3, Zenon DEF IsAuthByPredecessorIdEnabled
    <2> QED
        BY <2>2, <2>4, Zenon
<1>6. CASE ~Exists(a)
    <2>1. Exists(a)' /\ Entry(a) = AccountNew(a)
        BY <1>4, <1>6, Zenon DEF Exists, Entry
    <2>2. /\ accounts'[a].implicit_public_key_removed = (a \notin ImplicitAccounts)
          /\ accounts'[a].public_keys = {}
          /\ accounts'[a].auth_disabled = FALSE
        BY <1>4, <2>1, SMTT(30) DEF AccountNew
    <2>3. ASSUME NEW k \in Keys
          PROVE  HasPublicKey(a, k)' <=> HasPublicKey(a, k)
        <3>1. ImplicitAccountOf[k] = a => a \in ImplicitAccounts
            BY SignedIntentsAssumption, Zenon
        <3> QED
            BY <1>6, <2>1, <2>2, <3>1, Zenon DEF HasPublicKey
    <2>4. KeysOf(a)' = KeysOf(a)
        BY <2>3, Zenon DEF KeysOf
    <2>5. IsAuthByPredecessorIdEnabled(a)' /\ IsAuthByPredecessorIdEnabled(a)
        BY <1>6, <2>2, Zenon DEF IsAuthByPredecessorIdEnabled
    <2>6. IsAuthByPredecessorIdEnabled(a)' = IsAuthByPredecessorIdEnabled(a)
        BY <2>5, Zenon DEF IsAuthByPredecessorIdEnabled
    <2> QED
        BY <2>4, <2>6, Zenon
<1> QED
    BY <1>5, <1>6, Zenon

\* Neither the garbage collector nor a deposit or a lock changes what the owner of
\* an account may do once it is unlocked: see OthersChangeNothing.
THEOREM OthersAreInvisible == Spec => OthersChangeNothing
<1>1. TypeOK /\ [Next]_vars =>
          [\A a \in Accounts : \A n \in Nonces :
              CleanupNonces(a, n) => \A p \in Payloads : Accepts(p)' = Accepts(p)]_vars
    BY CleanupChangesNoAnswer, Zenon DEF TypeOK
<1>2. TypeOK /\ [Next]_vars =>
          [\A a \in Accounts :
              AddBalance(a) \/ ForceLockAccount(a) \/ ForceUnlockAccount(a) =>
                 /\ KeysOf(a)' = KeysOf(a)
                 /\ IsAuthByPredecessorIdEnabled(a)' = IsAuthByPredecessorIdEnabled(a)]_vars
    BY CreationKeepsKeys, Zenon DEF TypeOK, EntriesOK
<1> QED
    BY <1>1, <1>2, TypeCorrect, PTL
        DEF Spec, OthersChangeNothing, CleanupIsUnobservable, CreationIsInvisible

---------------------------------------------------------------------------
(* Upgrades of the storage. *)


Flags == {"IMPLICIT_PUBLIC_KEY_REMOVED", "AUTH_BY_PREDECESSOR_ID_DISABLED"}
Codes == {"V0", "V1", "Latest"}
Legacy(a) == <<a, "_LegacyNonces">>
Optimized(a) == <<a, "OptimizedNonces">>

(* Accounts in memory of the code c.                                       *)
AccountsOf(c, a) ==
    [locked : IF c = "V0" THEN {FALSE} ELSE BOOLEAN,
     nonces : {IF c = "Latest" THEN Optimized(a) ELSE Legacy(a)},
     legacy : IF c = "Latest" THEN {NoPrefix, Legacy(a)} ELSE {NoPrefix},
     flags : SUBSET (IF c = "V0" THEN {"IMPLICIT_PUBLIC_KEY_REMOVED"} ELSE Flags),
     prefix : {a}]

(* The account of a in memory of the code c, when es is stored.  This and  *)
(* what follows is about any values of the variables, so that it can be    *)
(* used before and after a step.                                           *)
Read(c, es, a) ==
    IF a \in DOMAIN es
    THEN IF c = "Latest" THEN Deserialize(es[a]) ELSE DeserializeEarlier(es[a])
    ELSE IF c = "Latest" THEN AccountNewLatest(a) ELSE LegacyAccountNew(a)

(* What is stored for a was written by the deployed code or an earlier     *)
(* one, and earlier code left the new map of nonces empty.                 *)
Stored(c, es, nm, a) ==
    \/ /\ \E acc \in AccountsOf("V0", a) : es[a] = SerializeV0(acc)
       /\ nm[Optimized(a)] = {}
    \/ /\ c # "V0"
       /\ \E acc \in AccountsOf("V1", a) : es[a] = SerializeV1(acc)
       /\ nm[Optimized(a)] = {}
    \/ /\ c = "Latest"
       /\ \E acc \in AccountsOf("Latest", a) : es[a] = SerializeLatest(acc)

(* Nothing is left of an account that has no entry.                        *)
Nothing(nm, ks, a) == nm[Legacy(a)] = {} /\ nm[Optimized(a)] = {} /\ ks[a] = {}

AllNonces == UNION {NoncesOf[a] : a \in Ids}

Inv(c, es, nm, ks) ==
    /\ c \in Codes
    /\ DOMAIN es \subseteq Ids
    /\ nm \in [Ids \X Prefixes -> SUBSET AllNonces]
    /\ ks \in [Ids -> SUBSET StoredKeys]
    /\ \A a \in Ids : IF a \in DOMAIN es THEN Stored(c, es, nm, a) ELSE Nothing(nm, ks, a)
    /\ \A a \in Ids : ks[a] \cap ImplicitKeys(a) = {}

StorageInv ==
    /\ Inv(code, entries, nonce_maps, key_sets)
    /\ code = "Latest" => IsVersioned(root)

(* What the views show of an account, and of an account in memory.         *)
Rest(nm, acc) == IF acc.legacy = NoPrefix THEN {} ELSE nm[acc.legacy]
Maps(nm, acc) == nm[acc.nonces] \cup Rest(nm, acc)
AreNonces(S) == S \subseteq AllNonces
AreMaps(nm) == nm \in [Ids \X Prefixes -> SUBSET AllNonces]
With(nm, acc, S) == [nm EXCEPT ![acc.nonces] = S]
KeysShown(ks, acc, a) ==
    ks[a] \cup IF "IMPLICIT_PUBLIC_KEY_REMOVED" \in acc.flags THEN {} ELSE ImplicitKeys(a)

ShownLocked(c, es) == [a \in Ids |-> Read(c, es, a).locked]
ShownAuth(c, es) ==
    [a \in Ids |-> "AUTH_BY_PREDECESSOR_ID_DISABLED" \in Read(c, es, a).flags]
ShownKeys(c, es, ks) == [a \in Ids |-> KeysShown(ks, Read(c, es, a), a)]
ShownUsed(c, es, nm) == [a \in Ids |-> Maps(nm, Read(c, es, a))]

(* The entries after the code c wrote the account acc of a.                *)
Wrote(c, es, a, acc) ==
    [b \in DOMAIN es \cup {a} |->
        IF b = a THEN IF c = "V0" THEN SerializeV0(acc)
                      ELSE IF c = "V1" THEN SerializeV1(acc) ELSE SerializeLatest(acc)
        ELSE es[b]]

(* The maps of accounts other than a stay as they are.                     *)
OthersKept(a, nm, nm2, ks, ks2) ==
    \A b \in Ids \ {a} : /\ nm2[Legacy(b)] = nm[Legacy(b)]
                        /\ nm2[Optimized(b)] = nm[Optimized(b)]
                        /\ ks2[b] = ks[b]
-----------------------------------------------------------------------------
(* What is written can be read.                                            *)
LEMMA RoundTripV0 ==
    ASSUME NEW a \in Ids, NEW acc \in AccountsOf("V0", a)
    PROVE  /\ ~IsVersioned(SerializeV0(acc))
           /\ AccountV0(SerializeV0(acc)) = acc
<1>1. acc.nonces = <<a, "_LegacyNonces">> /\ acc.legacy = NoPrefix /\ acc.prefix = a
    BY Zenon DEF AccountsOf, Legacy
<1>2. Len(acc.nonces) = 2
    BY <1>1
<1>3. ~IsVersioned(SerializeV0(acc))
    BY <1>2, StorageAssumption DEF IsVersioned, SerializeV0
<1>4. RemovedFlag("IMPLICIT_PUBLIC_KEY_REMOVED" \in acc.flags) = acc.flags
    <2>1. acc.flags \subseteq {"IMPLICIT_PUBLIC_KEY_REMOVED"}
        BY Zenon DEF AccountsOf
    <2> QED BY <2>1, Zenon DEF RemovedFlag
<1>5. acc = [locked |-> FALSE, nonces |-> acc.nonces, legacy |-> NoPrefix,
             flags |-> acc.flags, prefix |-> acc.prefix]
    BY <1>1, Zenon DEF AccountsOf
<1>6. AccountV0(SerializeV0(acc)) =
          [locked |-> FALSE, nonces |-> acc.nonces, legacy |-> NoPrefix,
           flags |-> acc.flags, prefix |-> acc.prefix]
    BY <1>4, Zenon DEF AccountV0, SerializeV0
<1> QED BY <1>3, <1>5, <1>6, Zenon

(* Reading what the V1 code wrote gives the account it wrote.              *)
LEMMA RoundTripV1 ==
    ASSUME NEW a \in Ids, NEW acc \in AccountsOf("V1", a)
    PROVE  /\ IsVersioned(SerializeV1(acc)) /\ SerializeV1(acc)[2] = 1
           /\ AccountV1(SerializeV1(acc)) = acc
<1>1. acc = [locked |-> acc.locked, nonces |-> acc.nonces, legacy |-> NoPrefix,
             flags |-> acc.flags, prefix |-> acc.prefix]
    BY Zenon DEF AccountsOf
<1> QED BY <1>1, Zenon DEF AccountV1, SerializeV1, IsVersioned

(* Reading what the latest code wrote gives the account it wrote.          *)
LEMMA RoundTripLatest ==
    ASSUME NEW a \in Ids, NEW acc \in AccountsOf("Latest", a)
    PROVE  /\ IsVersioned(SerializeLatest(acc)) /\ SerializeLatest(acc)[2] = 2
           /\ AccountLatest(SerializeLatest(acc)) = acc
<1>1. acc = [locked |-> acc.locked, nonces |-> acc.nonces, legacy |-> acc.legacy,
             flags |-> acc.flags, prefix |-> acc.prefix]
    BY Zenon DEF AccountsOf
<1> QED BY <1>1, Zenon DEF AccountLatest, SerializeLatest, IsVersioned

(* A V0 account is a V1 account, and either becomes one of the latest code *)
(* with the same lock, flags and prefix.                                   *)
LEMMA Conversions ==
    ASSUME NEW a \in Ids, NEW acc
    PROVE  /\ acc \in AccountsOf("V0", a) => acc \in AccountsOf("V1", a)
           /\ acc \in AccountsOf("V1", a) =>
                 WithLegacy(acc) = [locked |-> acc.locked, nonces |-> Optimized(a),
                                    legacy |-> Legacy(a), flags |-> acc.flags, prefix |-> a]
           /\ acc \in AccountsOf("V1", a) => WithLegacy(acc) \in AccountsOf("Latest", a)
<1>1. acc \in AccountsOf("V0", a) => acc \in AccountsOf("V1", a)
    BY Zenon DEF AccountsOf, Flags
<1>2. ASSUME acc \in AccountsOf("V1", a)
      PROVE  WithLegacy(acc) = [locked |-> acc.locked, nonces |-> Optimized(a),
                                legacy |-> Legacy(a), flags |-> acc.flags, prefix |-> a]
    <2>1. acc.nonces = Legacy(a) /\ acc.prefix = a
        BY <1>2, Zenon DEF AccountsOf
    <2> QED BY <2>1, Zenon DEF WithLegacy, Nest, Optimized
<1>3. ASSUME acc \in AccountsOf("V1", a)
      PROVE  WithLegacy(acc) \in AccountsOf("Latest", a)
    BY <1>2, <1>3 DEF AccountsOf
<1> QED BY <1>1, <1>2, <1>3, Zenon

(* Reading an entry of an earlier version, or of the version of the code.  *)
LEMMA ReadV0 ==
    ASSUME NEW a \in Ids, NEW c \in Codes, NEW es, a \in DOMAIN es,
           NEW acc \in AccountsOf("V0", a), es[a] = SerializeV0(acc)
    PROVE  Read(c, es, a) = IF c = "Latest" THEN WithLegacy(acc) ELSE acc
BY RoundTripV0, Zenon DEF Read, Deserialize, DeserializeEarlier

(* A V1 entry is read as its account, by the latest code with its nonces   *)
(* as legacy ones.                                                         *)
LEMMA ReadV1 ==
    ASSUME NEW a \in Ids, NEW c \in Codes, NEW es, a \in DOMAIN es,
           NEW acc \in AccountsOf("V1", a), es[a] = SerializeV1(acc)
    PROVE  Read(c, es, a) = IF c = "Latest" THEN WithLegacy(acc) ELSE acc
BY RoundTripV1 DEF Read, Deserialize, DeserializeEarlier

(* An entry of the latest code is read as its account.                     *)
LEMMA ReadLatest ==
    ASSUME NEW a \in Ids, NEW es, a \in DOMAIN es,
           NEW acc \in AccountsOf("Latest", a), es[a] = SerializeLatest(acc)
    PROVE  Read("Latest", es, a) = acc
BY RoundTripLatest DEF Read, Deserialize

(* The account each code makes for a new id is one of its accounts.        *)
LEMMA NewAccounts ==
    ASSUME NEW a \in Ids
    PROVE  /\ LegacyAccountNew(a) \in AccountsOf("V0", a)
           /\ LegacyAccountNew(a) \in AccountsOf("V1", a)
           /\ AccountNewLatest(a) \in AccountsOf("Latest", a)
<1>1. \A removed \in BOOLEAN : RemovedFlag(removed) \subseteq {"IMPLICIT_PUBLIC_KEY_REMOVED"}
    BY Zenon DEF RemovedFlag
<1> QED BY <1>1, Zenon
DEF LegacyAccountNew, AccountNewLatest, AccountsOf, Nest, Legacy, Optimized, Flags

(* Whatever is stored, the code has an account of its own kind in memory.  *)
LEMMA Loaded ==
    ASSUME NEW c, NEW es, NEW nm, NEW ks, Inv(c, es, nm, ks), NEW a \in Ids
    PROVE  Read(c, es, a) \in AccountsOf(c, a)
<1>0. c \in Codes
    BY Zenon DEF Inv
<1>1. CASE a \notin DOMAIN es
    BY <1>0, <1>1, NewAccounts, Zenon DEF Read, Codes
<1>2. CASE a \in DOMAIN es
    <2>0. Stored(c, es, nm, a)
        BY <1>2, Zenon DEF Inv
    <2>1. ASSUME NEW acc \in AccountsOf("V0", a), es[a] = SerializeV0(acc)
          PROVE  Read(c, es, a) \in AccountsOf(c, a)
        BY <1>0, <1>2, <2>1, ReadV0, Conversions DEF Codes
    <2>2. ASSUME c # "V0", NEW acc \in AccountsOf("V1", a), es[a] = SerializeV1(acc)
          PROVE  Read(c, es, a) \in AccountsOf(c, a)
        BY <1>0, <1>2, <2>2, ReadV1, Conversions DEF Codes
    <2>3. ASSUME c = "Latest",
                 NEW acc \in AccountsOf("Latest", a), es[a] = SerializeLatest(acc)
          PROVE  Read(c, es, a) \in AccountsOf(c, a)
        BY <1>2, <2>3, ReadLatest, Zenon
    <2> QED BY <2>0, <2>1, <2>2, <2>3, Zenon DEF Stored
<1> QED BY <1>1, <1>2, Zenon

(* An account without an entry is shown as the account that a call would   *)
(* create.                                                                 *)
LEMMA Created ==
    ASSUME NEW c, NEW es, NEW nm, NEW ks, Inv(c, es, nm, ks),
           NEW a \in Ids, a \notin DOMAIN es, NEW acc, acc = Read(c, es, a)
    PROVE  /\ acc.locked = FALSE
           /\ "AUTH_BY_PREDECESSOR_ID_DISABLED" \notin acc.flags
           /\ KeysShown(ks, acc, a) = ImplicitKeys(a)
           /\ Maps(nm, acc) = {}
<1>1. acc \in AccountsOf(c, a)
    BY Loaded, Zenon
<1>2. Nothing(nm, ks, a)
    BY Zenon DEF Inv
<1>3. acc = IF c = "Latest" THEN AccountNewLatest(a) ELSE LegacyAccountNew(a)
    BY Zenon DEF Read
<1>4. acc.locked = FALSE /\ acc.legacy = NoPrefix
    BY <1>3 DEF AccountNewLatest, LegacyAccountNew
<1>5. /\ "AUTH_BY_PREDECESSOR_ID_DISABLED" \notin acc.flags
      /\ "IMPLICIT_PUBLIC_KEY_REMOVED" \in acc.flags => a \notin ImplicitKeyIds
    BY <1>3, StorageAssumption DEF AccountNewLatest, LegacyAccountNew, RemovedFlag
<1>6. "IMPLICIT_PUBLIC_KEY_REMOVED" \in acc.flags => ImplicitKeys(a) = {}
    BY <1>5, StorageAssumption, Zenon DEF ImplicitKeys
<1>7. KeysShown(ks, acc, a) = ImplicitKeys(a)
    BY <1>2, <1>6, Zenon DEF KeysShown, Nothing
<1>8. Maps(nm, acc) = {}
    BY <1>1, <1>2, <1>4, Zenon DEF AccountsOf, Rest, Maps, Nothing
<1> QED BY <1>4, <1>5, <1>7, <1>8, Zenon

(* The account read for an id keeps its collections under that id.         *)
LEMMA Prefix ==
    ASSUME NEW c, NEW es, NEW nm, NEW ks, Inv(c, es, nm, ks), NEW a \in Ids
    PROVE  /\ Read(c, es, a).prefix = a
           /\ Read(c, es, a).nonces # NoPrefix
           /\ Read(c, es, a).locked \in BOOLEAN
<1>1. \A acc \in AccountsOf(c, a) :
         acc.prefix = a /\ acc.nonces # NoPrefix /\ acc.locked \in BOOLEAN
    <2> SUFFICES ASSUME NEW acc \in AccountsOf(c, a)
                 PROVE  acc.prefix = a /\ acc.nonces # NoPrefix /\ acc.locked \in BOOLEAN
        BY Zenon
    <2>1. acc.prefix = a
        BY Zenon DEF AccountsOf
    <2>2. acc.nonces \in {Legacy(a), Optimized(a)}
        BY Zenon DEF AccountsOf
    <2>3. Len(NoPrefix) = 0 /\ Len(Legacy(a)) = 2 /\ Len(Optimized(a)) = 2
        BY Zenon DEF NoPrefix, Legacy, Optimized
    <2>4. acc.locked \in BOOLEAN
        BY Zenon DEF AccountsOf
    <2> QED BY <2>1, <2>2, <2>3, <2>4
<1>2. Read(c, es, a) \in AccountsOf(c, a)
    BY Loaded, Zenon
<1> QED BY <1>1, <1>2, Zenon

(* The queries give for an id without an entry what they would give for    *)
(* the new account.                                                        *)
LEMMA Shown ==
    ASSUME NEW c, NEW es, NEW nm, NEW ks, Inv(c, es, nm, ks), NEW a \in Ids
    PROVE  /\ (a \in DOMAIN es /\ Read(c, es, a).locked) = Read(c, es, a).locked
           /\ (a \in DOMAIN es /\ "AUTH_BY_PREDECESSOR_ID_DISABLED" \in Read(c, es, a).flags)
              = ("AUTH_BY_PREDECESSOR_ID_DISABLED" \in Read(c, es, a).flags)
           /\ (IF a \in DOMAIN es THEN KeysShown(ks, Read(c, es, a), a) ELSE ImplicitKeys(a))
              = KeysShown(ks, Read(c, es, a), a)
           /\ (IF a \in DOMAIN es THEN Maps(nm, Read(c, es, a)) ELSE {})
              = Maps(nm, Read(c, es, a))
<1> DEFINE acc == Read(c, es, a)
<1>1. acc.locked \in BOOLEAN
    BY Prefix, Zenon
<1>2. a \notin DOMAIN es =>
         /\ acc.locked = FALSE
         /\ "AUTH_BY_PREDECESSOR_ID_DISABLED" \notin acc.flags
         /\ KeysShown(ks, acc, a) = ImplicitKeys(a)
         /\ Maps(nm, acc) = {}
    BY Created, Zenon
<1> HIDE DEF acc
<1>3. (a \in DOMAIN es /\ acc.locked) = acc.locked
    BY <1>1, <1>2, Zenon
<1>4. (a \in DOMAIN es /\ "AUTH_BY_PREDECESSOR_ID_DISABLED" \in acc.flags)
      = ("AUTH_BY_PREDECESSOR_ID_DISABLED" \in acc.flags)
    BY <1>2
<1>5. (IF a \in DOMAIN es THEN KeysShown(ks, acc, a) ELSE ImplicitKeys(a))
      = KeysShown(ks, acc, a)
    BY <1>2, Zenon
<1>6. (IF a \in DOMAIN es THEN Maps(nm, acc) ELSE {}) = Maps(nm, acc)
    BY <1>2, Zenon
<1> QED BY <1>3, <1>4, <1>5, <1>6, Zenon DEF acc

(* The views, before a step and after it.                                  *)
LEMMA ViewsNow ==
    ASSUME Inv(code, entries, nonce_maps, key_sets)
    PROVE  /\ LockedView = ShownLocked(code, entries)
           /\ AuthView = ShownAuth(code, entries)
           /\ KeysView = ShownKeys(code, entries, key_sets)
           /\ UsedView = ShownUsed(code, entries, nonce_maps)
<1>1. LockedView = ShownLocked(code, entries)
    <2>1. \A a \in Ids : (a \in DOMAIN entries /\ Read(code, entries, a).locked)
                        = Read(code, entries, a).locked
        BY Shown, Zenon
    <2>2. LockedView = [a \in Ids |-> a \in DOMAIN entries /\ Read(code, entries, a).locked]
        BY Zenon DEF LockedView, IsLocked, HasEntry, GetOrCreate, Read
    <2> QED BY <2>1, <2>2, Zenon DEF ShownLocked
<1>2. AuthView = ShownAuth(code, entries)
    <2> DEFINE Off(a) == "AUTH_BY_PREDECESSOR_ID_DISABLED" \in Read(code, entries, a).flags
    <2>1. \A a \in Ids : (a \in DOMAIN entries /\ Off(a)) = Off(a)
        BY Shown, Zenon
    <2>2. AuthView = [a \in Ids |-> a \in DOMAIN entries /\ Off(a)]
        BY Zenon DEF AuthView, IsAuthDisabled, HasEntry, GetOrCreate, Read
    <2>3. ShownAuth(code, entries) = [a \in Ids |-> Off(a)]
        BY Zenon DEF ShownAuth
    <2> HIDE DEF Off
    <2> QED BY <2>1, <2>2, <2>3, Zenon
<1>3. KeysView = ShownKeys(code, entries, key_sets)
    <2>1. \A a \in Ids : Read(code, entries, a).prefix = a
        BY Prefix, Zenon
    <2>2. \A a \in Ids : (IF a \in DOMAIN entries THEN KeysShown(key_sets, Read(code, entries, a), a)
                         ELSE ImplicitKeys(a)) = KeysShown(key_sets, Read(code, entries, a), a)
        BY Shown
    <2>3. KeysView = [a \in Ids |-> IF a \in DOMAIN entries THEN KeysShown(key_sets, Read(code, entries, a), a)
                                     ELSE ImplicitKeys(a)]
        BY <2>1, Zenon DEF KeysView, PublicKeys, HasEntry, GetOrCreate, KeysShown, Read
    <2> QED BY <2>2, <2>3, Zenon DEF ShownKeys
<1>4. UsedView = ShownUsed(code, entries, nonce_maps)
    <2>1. \A a \in Ids : Read(code, entries, a).nonces # NoPrefix
        BY Prefix, Zenon
    <2>2. \A a \in Ids : (IF a \in DOMAIN entries THEN Maps(nonce_maps, Read(code, entries, a)) ELSE {})
                        = Maps(nonce_maps, Read(code, entries, a))
        BY Shown, Zenon
    <2>3. UsedView = [a \in Ids |-> IF a \in DOMAIN entries THEN Maps(nonce_maps, Read(code, entries, a)) ELSE {}]
        BY <2>1, Zenon
           DEF UsedView, UsedNonces, NoncesIn, HasEntry, GetOrCreate, Rest, Maps, Read
    <2> QED BY <2>2, <2>3, Zenon DEF ShownUsed
<1> QED BY <1>1, <1>2, <1>3, <1>4, Zenon

(* The same of the views after a step.                                     *)
LEMMA ViewsNext ==
    ASSUME Inv(code', entries', nonce_maps', key_sets')
    PROVE  /\ LockedView' = ShownLocked(code', entries')
           /\ AuthView' = ShownAuth(code', entries')
           /\ KeysView' = ShownKeys(code', entries', key_sets')
           /\ UsedView' = ShownUsed(code', entries', nonce_maps')
<1>1. LockedView' = ShownLocked(code', entries')
    <2>1. \A a \in Ids : (a \in DOMAIN entries' /\ Read(code', entries', a).locked)
                        = Read(code', entries', a).locked
        BY Shown, Zenon
    <2>2. LockedView' = [a \in Ids |-> a \in DOMAIN entries' /\ Read(code', entries', a).locked]
        BY Zenon DEF LockedView, IsLocked, HasEntry, GetOrCreate, Read
    <2> QED BY <2>1, <2>2, Zenon DEF ShownLocked
<1>2. AuthView' = ShownAuth(code', entries')
    <2> DEFINE Off(a) == "AUTH_BY_PREDECESSOR_ID_DISABLED" \in Read(code', entries', a).flags
    <2>1. \A a \in Ids : (a \in DOMAIN entries' /\ Off(a)) = Off(a)
        BY Shown, Zenon
    <2>2. AuthView' = [a \in Ids |-> a \in DOMAIN entries' /\ Off(a)]
        BY Zenon DEF AuthView, IsAuthDisabled, HasEntry, GetOrCreate, Read
    <2>3. ShownAuth(code', entries') = [a \in Ids |-> Off(a)]
        BY Zenon DEF ShownAuth
    <2> HIDE DEF Off
    <2> QED BY <2>1, <2>2, <2>3, Zenon
<1>3. KeysView' = ShownKeys(code', entries', key_sets')
    <2>1. \A a \in Ids : Read(code', entries', a).prefix = a
        BY Prefix, Zenon
    <2>2. \A a \in Ids : (IF a \in DOMAIN entries' THEN KeysShown(key_sets', Read(code', entries', a), a)
                         ELSE ImplicitKeys(a)) = KeysShown(key_sets', Read(code', entries', a), a)
        BY Shown
    <2>3. KeysView' = [a \in Ids |-> IF a \in DOMAIN entries' THEN KeysShown(key_sets', Read(code', entries', a), a)
                                     ELSE ImplicitKeys(a)]
        BY <2>1, Zenon DEF KeysView, PublicKeys, HasEntry, GetOrCreate, KeysShown, Read
    <2> QED BY <2>2, <2>3, Zenon DEF ShownKeys
<1>4. UsedView' = ShownUsed(code', entries', nonce_maps')
    <2>1. \A a \in Ids : Read(code', entries', a).nonces # NoPrefix
        BY Prefix, Zenon
    <2>2. \A a \in Ids : (IF a \in DOMAIN entries' THEN Maps(nonce_maps', Read(code', entries', a)) ELSE {})
                        = Maps(nonce_maps', Read(code', entries', a))
        BY Shown, Zenon
    <2>3. UsedView' = [a \in Ids |-> IF a \in DOMAIN entries' THEN Maps(nonce_maps', Read(code', entries', a)) ELSE {}]
        BY <2>1, Zenon
           DEF UsedView, UsedNonces, NoncesIn, HasEntry, GetOrCreate, Rest, Maps, Read
    <2> QED BY <2>2, <2>3, Zenon DEF ShownUsed
<1> QED BY <1>1, <1>2, <1>3, <1>4, Zenon
-----------------------------------------------------------------------------
(* What the code wrote is what it reads, and other accounts are untouched. *)
LEMMA ReadWrote ==
    ASSUME NEW c \in Codes, NEW es, NEW a \in Ids, NEW acc \in AccountsOf(c, a)
    PROVE  /\ Read(c, Wrote(c, es, a, acc), a) = acc
           /\ \A b \in Ids \ {a} : Read(c, Wrote(c, es, a, acc), b) = Read(c, es, b)
<1> DEFINE es2 == Wrote(c, es, a, acc)
<1>1. /\ DOMAIN es2 = DOMAIN es \cup {a}
      /\ \A b \in DOMAIN es \ {a} : es2[b] = es[b]
      /\ c = "V0" => es2[a] = SerializeV0(acc)
      /\ c = "V1" => es2[a] = SerializeV1(acc)
      /\ c = "Latest" => es2[a] = SerializeLatest(acc)
    BY Zenon DEF Wrote
<1> HIDE DEF es2
<1>2. Read(c, es2, a) = acc
    <2>1. CASE c = "V0"
        BY <1>1, <2>1, ReadV0
    <2>2. CASE c = "V1"
        BY <1>1, <2>2, ReadV1
    <2>3. CASE c = "Latest"
        BY <1>1, <2>3, ReadLatest, Zenon
    <2> QED BY <2>1, <2>2, <2>3, Zenon DEF Codes
<1>3. \A b \in Ids \ {a} : Read(c, es2, b) = Read(c, es, b)
    BY <1>1, Zenon DEF Read
<1> QED BY <1>2, <1>3, Zenon DEF es2

(* A call writes the account acc of a, and changes the maps of a only: the *)
(* new one of nonces only if the code knows of it.                         *)
LEMMA CallKeepsInv ==
    ASSUME NEW c, NEW es, NEW nm, NEW ks, Inv(c, es, nm, ks),
           NEW a \in Ids, NEW acc \in AccountsOf(c, a),
           NEW nm2 \in [Ids \X Prefixes -> SUBSET AllNonces],
           NEW ks2 \in [Ids -> SUBSET StoredKeys],
           OthersKept(a, nm, nm2, ks, ks2),
           c # "Latest" => nm2[Optimized(a)] = nm[Optimized(a)],
           ks2[a] \cap ImplicitKeys(a) = {}
    PROVE  Inv(c, Wrote(c, es, a, acc), nm2, ks2)
<1> DEFINE es2 == Wrote(c, es, a, acc)
<1>0. c \in Codes
    BY Zenon DEF Inv
<1>1. /\ DOMAIN es2 = DOMAIN es \cup {a}
      /\ \A b \in DOMAIN es \ {a} : es2[b] = es[b]
      /\ c = "V0" => es2[a] = SerializeV0(acc)
      /\ c = "V1" => es2[a] = SerializeV1(acc)
      /\ c = "Latest" => es2[a] = SerializeLatest(acc)
    BY Zenon DEF Wrote
<1> HIDE DEF es2
<1>2. DOMAIN es2 \subseteq Ids
    BY <1>1, Zenon DEF Inv
<1>3. \A b \in Ids : ks2[b] \cap ImplicitKeys(b) = {}
    BY Zenon DEF Inv, OthersKept
<1>4. ASSUME NEW b \in Ids \ {a}
      PROVE  IF b \in DOMAIN es2 THEN Stored(c, es2, nm2, b) ELSE Nothing(nm2, ks2, b)
    <2>1. CASE b \in DOMAIN es
        <3>1. Stored(c, es, nm, b) /\ b \in DOMAIN es2 /\ es2[b] = es[b]
            BY <1>1, <2>1, Zenon DEF Inv
        <3> QED BY <3>1, Zenon DEF Stored, OthersKept
    <2>2. CASE b \notin DOMAIN es
        <3>1. Nothing(nm, ks, b) /\ b \notin DOMAIN es2
            BY <1>1, <2>2, Zenon DEF Inv
        <3> QED BY <3>1, Zenon DEF Nothing, OthersKept
    <2> QED BY <2>1, <2>2, Zenon
<1>5. Stored(c, es2, nm2, a)
    <2>1. c # "Latest" => nm2[Optimized(a)] = {}
        BY Zenon DEF Inv, Stored, Nothing
    <2> QED BY <1>0, <1>1, <2>1, Zenon DEF Stored, Codes
<1>6. a \in DOMAIN es2
    BY <1>1, Zenon
<1>7. Inv(c, es2, nm2, ks2)
    BY <1>0, <1>2, <1>3, <1>4, <1>5, <1>6, Zenon DEF Inv
<1> QED BY <1>7, Zenon DEF es2

(* What the views show once the account acc of a has been put.             *)
ShowsPut(c, es, nm, ks, a, acc, nm2, ks2) ==
    /\ ShownLocked(c, Wrote(c, es, a, acc))
          = [ShownLocked(c, es) EXCEPT ![a] = acc.locked]
    /\ ShownAuth(c, Wrote(c, es, a, acc))
          = [ShownAuth(c, es) EXCEPT
               ![a] = "AUTH_BY_PREDECESSOR_ID_DISABLED" \in acc.flags]
    /\ ShownKeys(c, Wrote(c, es, a, acc), ks2)
          = [ShownKeys(c, es, ks) EXCEPT ![a] = KeysShown(ks2, acc, a)]
    /\ ShownUsed(c, Wrote(c, es, a, acc), nm2)
          = [ShownUsed(c, es, nm) EXCEPT ![a] = Maps(nm2, acc)]

(* What the views show after it.                                           *)
LEMMA CallShown ==
    ASSUME NEW c, NEW es, NEW nm, NEW ks, Inv(c, es, nm, ks),
           NEW a \in Ids, NEW acc \in AccountsOf(c, a), NEW nm2, NEW ks2,
           OthersKept(a, nm, nm2, ks, ks2)
    PROVE  ShowsPut(c, es, nm, ks, a, acc, nm2, ks2)
<1> DEFINE es2 == Wrote(c, es, a, acc)
<1>1. /\ Read(c, es2, a) = acc
      /\ \A b \in Ids \ {a} : Read(c, es2, b) = Read(c, es, b)
    BY ReadWrote DEF Inv
<1> HIDE DEF es2
<1>2. ShownLocked(c, es2) = [ShownLocked(c, es) EXCEPT ![a] = acc.locked]
    BY <1>1, Zenon DEF ShownLocked
<1>3. ShownAuth(c, es2) = [ShownAuth(c, es) EXCEPT
                             ![a] = "AUTH_BY_PREDECESSOR_ID_DISABLED" \in acc.flags]
    BY <1>1, Zenon DEF ShownAuth
<1>4. ShownKeys(c, es2, ks2) = [ShownKeys(c, es, ks) EXCEPT ![a] = KeysShown(ks2, acc, a)]
    <2>1. \A b \in Ids \ {a} : KeysShown(ks2, Read(c, es2, b), b) = KeysShown(ks, Read(c, es, b), b)
        BY <1>1, Zenon DEF KeysShown, OthersKept
    <2> QED BY <1>1, <2>1, Zenon DEF ShownKeys
<1>5. ShownUsed(c, es2, nm2) = [ShownUsed(c, es, nm) EXCEPT ![a] = Maps(nm2, acc)]
    <2>1. ASSUME NEW b \in Ids \ {a}
          PROVE  Maps(nm2, Read(c, es, b)) = Maps(nm, Read(c, es, b))
        <3>1. Read(c, es, b) \in AccountsOf(c, b)
            BY Loaded, Zenon
        <3>2. /\ Read(c, es, b).nonces \in {Legacy(b), Optimized(b)}
              /\ Read(c, es, b).legacy \in {NoPrefix, Legacy(b)}
            BY <3>1, Zenon DEF AccountsOf
        <3> QED BY <3>2, Zenon DEF Rest, Maps, OthersKept
    <2> QED BY <1>1, <2>1, Zenon DEF ShownUsed
<1> QED BY <1>2, <1>3, <1>4, <1>5, Zenon DEF es2, ShowsPut

(* Together: a call that puts the account acc of a.                        *)
LEMMA Call ==
    ASSUME StorageInv, NEW a \in Ids, NEW acc \in AccountsOf(code, a), PutEntry(a, acc),
           nonce_maps' \in [Ids \X Prefixes -> SUBSET AllNonces],
           key_sets' \in [Ids -> SUBSET StoredKeys],
           OthersKept(a, nonce_maps, nonce_maps', key_sets, key_sets'),
           code # "Latest" => nonce_maps'[Optimized(a)] = nonce_maps[Optimized(a)],
           key_sets'[a] \cap ImplicitKeys(a) = {}
    PROVE  /\ StorageInv'
           /\ LockedView' = [LockedView EXCEPT ![a] = acc.locked]
           /\ AuthView' = [AuthView EXCEPT ![a] = "AUTH_BY_PREDECESSOR_ID_DISABLED" \in acc.flags]
           /\ KeysView' = [KeysView EXCEPT ![a] = KeysShown(key_sets', acc, a)]
           /\ UsedView' = [UsedView EXCEPT ![a] = Maps(nonce_maps', acc)]
           /\ code' = code /\ (code = "Latest" => root'[4] = root[4])
<1>0. /\ Inv(code, entries, nonce_maps, key_sets)
      /\ code \in Codes /\ code' = code
    BY Zenon DEF StorageInv, Inv, PutEntry
<1>1. entries' = Wrote(code, entries, a, acc)
    BY <1>0, Zenon DEF PutEntry, Serialize, Wrote, Codes
<1>2. Inv(code', entries', nonce_maps', key_sets')
    <2>1. Inv(code, Wrote(code, entries, a, acc), nonce_maps', key_sets')
        BY <1>0, CallKeepsInv, Zenon
    <2> QED BY <1>0, <1>1, <2>1, Zenon
<1>3. code = "Latest" => IsVersioned(root') /\ root'[4] = root[4]
    <2> SUFFICES ASSUME code = "Latest" PROVE IsVersioned(root') /\ root'[4] = root[4]
        BY Zenon
    <2>1. IsVersioned(root)
        BY Zenon DEF StorageInv
    <2>2. PICK random \in RandomSalts :
              root' = <<VERSIONED_MAGIC_PREFIX, 1, Cardinality(DOMAIN entries \cup {a}),
                        CurrentSalt(random)>>
        BY Zenon DEF PutEntry, Return, SerializeRoot
    <2>3. CurrentSalt(random) = root[4]
        BY <2>1, Zenon DEF CurrentSalt
    <2> QED BY <2>2, <2>3, Zenon DEF IsVersioned
<1>4. StorageInv'
    BY <1>0, <1>2, <1>3, Zenon DEF StorageInv
<1>6. /\ ShownLocked(code, entries') = [ShownLocked(code, entries) EXCEPT ![a] = acc.locked]
      /\ ShownAuth(code, entries') = [ShownAuth(code, entries) EXCEPT
             ![a] = "AUTH_BY_PREDECESSOR_ID_DISABLED" \in acc.flags]
      /\ ShownKeys(code, entries', key_sets')
             = [ShownKeys(code, entries, key_sets) EXCEPT ![a] = KeysShown(key_sets', acc, a)]
      /\ ShownUsed(code, entries', nonce_maps')
             = [ShownUsed(code, entries, nonce_maps) EXCEPT ![a] = Maps(nonce_maps', acc)]
    <2> DEFINE es2 == Wrote(code, entries, a, acc)
    <2>1. /\ ShownLocked(code, es2) = [ShownLocked(code, entries) EXCEPT ![a] = acc.locked]
          /\ ShownAuth(code, es2) = [ShownAuth(code, entries) EXCEPT
                 ![a] = "AUTH_BY_PREDECESSOR_ID_DISABLED" \in acc.flags]
          /\ ShownKeys(code, es2, key_sets')
                 = [ShownKeys(code, entries, key_sets) EXCEPT ![a] = KeysShown(key_sets', acc, a)]
          /\ ShownUsed(code, es2, nonce_maps')
                 = [ShownUsed(code, entries, nonce_maps) EXCEPT ![a] = Maps(nonce_maps', acc)]
        <3>1. ShowsPut(code, entries, nonce_maps, key_sets, a, acc, nonce_maps', key_sets')
            BY <1>0, CallShown, Zenon
        <3> QED BY <3>1, Zenon DEF ShowsPut
    <2> QED BY <1>1, <2>1, Zenon
<1>7. /\ LockedView = ShownLocked(code, entries)
      /\ AuthView = ShownAuth(code, entries)
      /\ KeysView = ShownKeys(code, entries, key_sets)
      /\ UsedView = ShownUsed(code, entries, nonce_maps)
    BY <1>0, ViewsNow, Zenon
<1>8. /\ LockedView' = ShownLocked(code, entries')
      /\ AuthView' = ShownAuth(code, entries')
      /\ KeysView' = ShownKeys(code, entries', key_sets')
      /\ UsedView' = ShownUsed(code, entries', nonce_maps')
    BY <1>0, <1>2, ViewsNext, Zenon
<1> QED BY <1>0, <1>3, <1>4, <1>6, <1>7, <1>8, Zenon

(* Every view is a function on the ids.                                    *)
LEMMA ViewsAreFunctions ==
    /\ LockedView = [a \in Ids |-> LockedView[a]]
    /\ AuthView = [a \in Ids |-> AuthView[a]]
    /\ KeysView = [a \in Ids |-> KeysView[a]]
    /\ UsedView = [a \in Ids |-> UsedView[a]]
BY Zenon DEF LockedView, AuthView, KeysView, UsedView

(* What the account of a shows before the call.                            *)
LEMMA Before ==
    ASSUME StorageInv, NEW a \in Ids, NEW acc, acc = GetOrCreate(a)
    PROVE  /\ acc \in AccountsOf(code, a)
           /\ LockedView[a] = acc.locked
           /\ AuthView[a] = ("AUTH_BY_PREDECESSOR_ID_DISABLED" \in acc.flags)
           /\ KeysView[a] = KeysShown(key_sets, acc, a)
           /\ UsedView[a] = Maps(nonce_maps, acc)
           /\ DOMAIN LockedView = Ids /\ DOMAIN AuthView = Ids
           /\ DOMAIN KeysView = Ids /\ DOMAIN UsedView = Ids
<1>1. Inv(code, entries, nonce_maps, key_sets)
    BY Zenon DEF StorageInv
<1>2. acc = Read(code, entries, a)
    BY Zenon DEF GetOrCreate, Read, HasEntry
<1>3. acc \in AccountsOf(code, a)
    BY <1>1, <1>2, Loaded, Zenon
<1>4. /\ LockedView = ShownLocked(code, entries)
      /\ AuthView = ShownAuth(code, entries)
      /\ KeysView = ShownKeys(code, entries, key_sets)
      /\ UsedView = ShownUsed(code, entries, nonce_maps)
    BY <1>1, ViewsNow, Zenon
<1> QED BY <1>2, <1>3, <1>4, Zenon DEF ShownLocked, ShownAuth, ShownKeys, ShownUsed

(* The account as it was shows what it showed.                             *)
LEMMA Unshown ==
    ASSUME StorageInv, NEW a \in Ids, NEW acc, acc = GetOrCreate(a)
    PROVE  /\ [LockedView EXCEPT ![a] = acc.locked] = LockedView
           /\ [AuthView EXCEPT ![a] = "AUTH_BY_PREDECESSOR_ID_DISABLED" \in acc.flags] = AuthView
           /\ [KeysView EXCEPT ![a] = KeysShown(key_sets, acc, a)] = KeysView
           /\ [UsedView EXCEPT ![a] = Maps(nonce_maps, acc)] = UsedView
<1>1. /\ LockedView[a] = acc.locked
      /\ AuthView[a] = ("AUTH_BY_PREDECESSOR_ID_DISABLED" \in acc.flags)
      /\ KeysView[a] = KeysShown(key_sets, acc, a)
      /\ UsedView[a] = Maps(nonce_maps, acc)
    BY Before, Zenon
<1>2. [LockedView EXCEPT ![a] = acc.locked] = LockedView
    BY <1>1, ViewsAreFunctions, Zenon
<1>3. [AuthView EXCEPT ![a] = "AUTH_BY_PREDECESSOR_ID_DISABLED" \in acc.flags] = AuthView
    BY <1>1, ViewsAreFunctions, Zenon
<1>4. [KeysView EXCEPT ![a] = KeysShown(key_sets, acc, a)] = KeysView
    BY <1>1, ViewsAreFunctions, Zenon
<1>5. [UsedView EXCEPT ![a] = Maps(nonce_maps, acc)] = UsedView
    BY <1>1, ViewsAreFunctions, Zenon
<1> QED BY <1>2, <1>3, <1>4, <1>5, Zenon

-----------------------------------------------------------------------------
(* An account in memory with other flags, or another lock, is an account   *)
(* in memory.                                                              *)
LEMMA Flagged ==
    ASSUME NEW c \in Codes, NEW a \in Ids, NEW acc \in AccountsOf(c, a), NEW nm, NEW F,
           F \subseteq acc.flags \cup
               (IF c = "V0" THEN {"IMPLICIT_PUBLIC_KEY_REMOVED"} ELSE Flags)
    PROVE  /\ [acc EXCEPT !.flags = F] \in AccountsOf(c, a)
           /\ [acc EXCEPT !.flags = F].locked = acc.locked
           /\ [acc EXCEPT !.flags = F].flags = F
           /\ Maps(nm, [acc EXCEPT !.flags = F]) = Maps(nm, acc)
<1> DEFINE new == [acc EXCEPT !.flags = F]
<1>1. new \in AccountsOf(c, a)
    BY Zenon DEF AccountsOf
<1>2. new.locked = acc.locked /\ new.flags = F /\ new.nonces = acc.nonces
      /\ new.legacy = acc.legacy
    BY Zenon DEF AccountsOf
<1> HIDE DEF new
<1>3. Maps(nm, new) = Maps(nm, acc)
    BY <1>2, Zenon DEF Rest, Maps
<1> QED BY <1>1, <1>2, <1>3, Zenon DEF new

(* Locking or unlocking an account changes nothing else of it.             *)
LEMMA Relocked ==
    ASSUME NEW c \in Codes \ {"V0"}, NEW a \in Ids, NEW acc \in AccountsOf(c, a),
           NEW nm, NEW L \in BOOLEAN
    PROVE  /\ [acc EXCEPT !.locked = L] \in AccountsOf(c, a)
           /\ [acc EXCEPT !.locked = L].locked = L
           /\ [acc EXCEPT !.locked = L].flags = acc.flags
           /\ Maps(nm, [acc EXCEPT !.locked = L]) = Maps(nm, acc)
<1> DEFINE new == [acc EXCEPT !.locked = L]
<1>1. new \in AccountsOf(c, a)
    BY Zenon DEF AccountsOf
<1>2. new.locked = L /\ new.flags = acc.flags /\ new.nonces = acc.nonces
      /\ new.legacy = acc.legacy
    BY Zenon DEF AccountsOf
<1> HIDE DEF new
<1>3. Maps(nm, new) = Maps(nm, acc)
    BY <1>2, Zenon DEF Rest, Maps
<1> QED BY <1>1, <1>2, <1>3, Zenon DEF new

(* A call that changes no map.                                             *)
LEMMA CallOfEntry ==
    ASSUME StorageInv, NEW a \in Ids, NEW acc \in AccountsOf(code, a), PutEntry(a, acc),
           UNCHANGED <<nonce_maps, key_sets>>
    PROVE  /\ StorageInv'
           /\ LockedView' = [LockedView EXCEPT ![a] = acc.locked]
           /\ AuthView' = [AuthView EXCEPT ![a] = "AUTH_BY_PREDECESSOR_ID_DISABLED" \in acc.flags]
           /\ KeysView' = [KeysView EXCEPT ![a] = KeysShown(key_sets, acc, a)]
           /\ UsedView' = [UsedView EXCEPT ![a] = Maps(nonce_maps, acc)]
           /\ code' = code /\ (code = "Latest" => root'[4] = root[4])
<1>1. /\ nonce_maps' \in [Ids \X Prefixes -> SUBSET AllNonces]
      /\ key_sets' \in [Ids -> SUBSET StoredKeys]
      /\ key_sets'[a] \cap ImplicitKeys(a) = {}
      /\ nonce_maps'[Optimized(a)] = nonce_maps[Optimized(a)]
    BY Zenon DEF StorageInv, Inv
<1>2. OthersKept(a, nonce_maps, nonce_maps', key_sets, key_sets')
    BY Zenon DEF OthersKept
<1>3. nonce_maps' = nonce_maps /\ key_sets' = key_sets
    BY Zenon
<1> QED BY <1>1, <1>2, <1>3, Call

(* A key shown, or not.                                                    *)
LEMMA KeyShown ==
    ASSUME NEW a \in Ids, NEW k \in StoredKeys, NEW acc, NEW ks
    PROVE  /\ ImplicitIdOf[k] = a => ImplicitKeys(a) = {k}
           /\ ImplicitIdOf[k] # a => k \notin ImplicitKeys(a)
BY StorageAssumption, Zenon DEF ImplicitKeys
-----------------------------------------------------------------------------
(* Each call is a step of the plain accounts, or shows nothing.            *)
LEMMA AddsKey ==
    ASSUME StorageInv, NEW a \in Ids, NEW k \in StoredKeys, AddPublicKey(a, k)
    PROVE  /\ StorageInv' /\ Plain!AddKey(a, k)
           /\ code' = code /\ (code = "Latest" => root'[4] = root[4])
<1> DEFINE acc == GetOrCreate(a)
<1>0. /\ code \in Codes /\ key_sets \in [Ids -> SUBSET StoredKeys]
      /\ key_sets[a] \cap ImplicitKeys(a) = {}
    BY Zenon DEF StorageInv, Inv
<1>1. /\ acc \in AccountsOf(code, a)
      /\ LockedView[a] = acc.locked
      /\ KeysView[a] = KeysShown(key_sets, acc, a) /\ DOMAIN KeysView = Ids
    BY Before, Zenon
<1>2. /\ [LockedView EXCEPT ![a] = acc.locked] = LockedView
      /\ [AuthView EXCEPT ![a] = "AUTH_BY_PREDECESSOR_ID_DISABLED" \in acc.flags] = AuthView
      /\ [UsedView EXCEPT ![a] = Maps(nonce_maps, acc)] = UsedView
    BY Unshown, Zenon
<1>3. ~acc.locked /\ UNCHANGED nonce_maps /\ acc.prefix = a
    BY <1>1, Zenon DEF AddPublicKey, AccountsOf
<1>4. CASE ImplicitIdOf[k] = a
    <2> DEFINE F == acc.flags \ {"IMPLICIT_PUBLIC_KEY_REMOVED"}
               new == [acc EXCEPT !.flags = F]
    <2>1. /\ "IMPLICIT_PUBLIC_KEY_REMOVED" \in acc.flags
          /\ PutEntry(a, new) /\ UNCHANGED key_sets
        BY <1>4, Zenon DEF AddPublicKey
    <2>2. F \subseteq acc.flags \cup (IF code = "V0" THEN {"IMPLICIT_PUBLIC_KEY_REMOVED"} ELSE Flags)
        BY Zenon DEF Flags
    <2> HIDE DEF acc, F
    <2>3. /\ new \in AccountsOf(code, a) /\ new.locked = acc.locked /\ new.flags = F
          /\ Maps(nonce_maps, new) = Maps(nonce_maps, acc)
        BY <1>0, <1>1, <2>2, Flagged, SMTT(30)
    <2> HIDE DEF new
    <2>4. /\ KeysShown(key_sets, new, a) = KeysShown(key_sets, acc, a) \cup {k}
          /\ k \notin KeysShown(key_sets, acc, a)
        BY <1>0, <1>4, <2>1, <2>3, KeyShown DEF KeysShown, F
    <2>5. ("AUTH_BY_PREDECESSOR_ID_DISABLED" \in new.flags)
          = ("AUTH_BY_PREDECESSOR_ID_DISABLED" \in acc.flags)
        BY <2>3, SMTT(30) DEF F
    <2>6. /\ StorageInv'
          /\ LockedView' = [LockedView EXCEPT ![a] = new.locked]
          /\ AuthView' = [AuthView EXCEPT ![a] = "AUTH_BY_PREDECESSOR_ID_DISABLED" \in new.flags]
          /\ KeysView' = [KeysView EXCEPT ![a] = KeysShown(key_sets, new, a)]
          /\ UsedView' = [UsedView EXCEPT ![a] = Maps(nonce_maps, new)]
          /\ code' = code /\ (code = "Latest" => root'[4] = root[4])
        <3>1. UNCHANGED <<nonce_maps, key_sets>>
            BY <1>3, <2>1, Zenon
        <3> QED BY <2>1, <2>3, <3>1, CallOfEntry, Zenon
    <2>7. LockedView' = LockedView /\ AuthView' = AuthView /\ UsedView' = UsedView
        BY <1>2, <2>3, <2>5, <2>6, Zenon
    <2>8. KeysView' = [KeysView EXCEPT ![a] = @ \cup {k}]
        BY <1>1, <2>4, <2>6, Zenon
    <2> QED BY <1>1, <1>3, <2>4, <2>6, <2>7, <2>8, Zenon DEF Plain!AddKey
<1>5. CASE ImplicitIdOf[k] # a
    <2>1. /\ k \notin key_sets[a] /\ PutEntry(a, acc)
          /\ key_sets' = [key_sets EXCEPT ![a] = @ \cup {k}]
        BY <1>3, <1>5, Zenon DEF AddPublicKey
    <2> HIDE DEF acc
    <2>2. /\ key_sets' \in [Ids -> SUBSET StoredKeys] /\ key_sets'[a] = key_sets[a] \cup {k}
          /\ key_sets'[a] \cap ImplicitKeys(a) = {}
        BY <1>0, <1>5, <2>1, KeyShown, SMTT(30)
    <2>3. /\ OthersKept(a, nonce_maps, nonce_maps', key_sets, key_sets')
          /\ nonce_maps'[Optimized(a)] = nonce_maps[Optimized(a)]
          /\ nonce_maps' \in [Ids \X Prefixes -> SUBSET AllNonces]
        BY <1>0, <1>3, <2>1, Zenon DEF OthersKept, StorageInv, Inv
    <2>4. /\ KeysShown(key_sets', acc, a) = KeysShown(key_sets, acc, a) \cup {k}
          /\ k \notin KeysShown(key_sets, acc, a)
        BY <1>5, <2>1, <2>2, KeyShown, Zenon DEF KeysShown
    <2>5. /\ StorageInv'
          /\ LockedView' = [LockedView EXCEPT ![a] = acc.locked]
          /\ AuthView' = [AuthView EXCEPT ![a] = "AUTH_BY_PREDECESSOR_ID_DISABLED" \in acc.flags]
          /\ KeysView' = [KeysView EXCEPT ![a] = KeysShown(key_sets', acc, a)]
          /\ UsedView' = [UsedView EXCEPT ![a] = Maps(nonce_maps', acc)]
          /\ code' = code /\ (code = "Latest" => root'[4] = root[4])
        BY <1>1, <2>1, <2>2, <2>3, Call, Zenon
    <2>6. LockedView' = LockedView /\ AuthView' = AuthView /\ UsedView' = UsedView
        BY <1>2, <1>3, <2>5, Zenon
    <2>7. KeysView' = [KeysView EXCEPT ![a] = @ \cup {k}]
        BY <1>1, <2>4, <2>5, Zenon
    <2> QED BY <1>1, <1>3, <2>4, <2>5, <2>6, <2>7, Zenon DEF Plain!AddKey
<1> QED BY <1>4, <1>5, Zenon

(* remove_public_key is the removal of a key from the plain account.       *)
LEMMA RemovesKey ==
    ASSUME StorageInv, NEW a \in Ids, NEW k \in StoredKeys, RemovePublicKey(a, k)
    PROVE  /\ StorageInv' /\ Plain!RemoveKey(a, k)
           /\ code' = code /\ (code = "Latest" => root'[4] = root[4])
<1> DEFINE acc == GetOrCreate(a)
<1>0. /\ code \in Codes /\ key_sets \in [Ids -> SUBSET StoredKeys]
      /\ key_sets[a] \cap ImplicitKeys(a) = {}
    BY Zenon DEF StorageInv, Inv
<1>1. /\ acc \in AccountsOf(code, a)
      /\ LockedView[a] = acc.locked
      /\ KeysView[a] = KeysShown(key_sets, acc, a) /\ DOMAIN KeysView = Ids
    BY Before, Zenon
<1>2. /\ [LockedView EXCEPT ![a] = acc.locked] = LockedView
      /\ [AuthView EXCEPT ![a] = "AUTH_BY_PREDECESSOR_ID_DISABLED" \in acc.flags] = AuthView
      /\ [UsedView EXCEPT ![a] = Maps(nonce_maps, acc)] = UsedView
    BY Unshown, Zenon
<1>3. ~acc.locked /\ UNCHANGED nonce_maps /\ acc.prefix = a
    BY <1>1, Zenon DEF RemovePublicKey, AccountsOf
<1>4. CASE ImplicitIdOf[k] = a
    <2> DEFINE F == acc.flags \cup {"IMPLICIT_PUBLIC_KEY_REMOVED"}
               new == [acc EXCEPT !.flags = F]
    <2>1. /\ "IMPLICIT_PUBLIC_KEY_REMOVED" \notin acc.flags
          /\ PutEntry(a, new) /\ UNCHANGED key_sets
        BY <1>4, Zenon DEF RemovePublicKey
    <2>2. F \subseteq acc.flags \cup (IF code = "V0" THEN {"IMPLICIT_PUBLIC_KEY_REMOVED"} ELSE Flags)
        BY SMTT(30) DEF Flags
    <2> HIDE DEF acc, F
    <2>3. /\ new \in AccountsOf(code, a) /\ new.locked = acc.locked /\ new.flags = F
          /\ Maps(nonce_maps, new) = Maps(nonce_maps, acc)
        BY <1>0, <1>1, <2>2, Flagged
    <2> HIDE DEF new
    <2>4. /\ KeysShown(key_sets, new, a) = KeysShown(key_sets, acc, a) \ {k}
          /\ k \in KeysShown(key_sets, acc, a)
        BY <1>0, <1>4, <2>1, <2>3, KeyShown, SMTT(30) DEF KeysShown, F
    <2>5. ("AUTH_BY_PREDECESSOR_ID_DISABLED" \in new.flags)
          = ("AUTH_BY_PREDECESSOR_ID_DISABLED" \in acc.flags)
        BY <2>3, SMTT(30) DEF F
    <2>6. /\ StorageInv'
          /\ LockedView' = [LockedView EXCEPT ![a] = new.locked]
          /\ AuthView' = [AuthView EXCEPT ![a] = "AUTH_BY_PREDECESSOR_ID_DISABLED" \in new.flags]
          /\ KeysView' = [KeysView EXCEPT ![a] = KeysShown(key_sets, new, a)]
          /\ UsedView' = [UsedView EXCEPT ![a] = Maps(nonce_maps, new)]
          /\ code' = code /\ (code = "Latest" => root'[4] = root[4])
        <3>1. UNCHANGED <<nonce_maps, key_sets>>
            BY <1>3, <2>1, Zenon
        <3> QED BY <2>1, <2>3, <3>1, CallOfEntry, Zenon
    <2>7. LockedView' = LockedView /\ AuthView' = AuthView /\ UsedView' = UsedView
        BY <1>2, <2>3, <2>5, <2>6, Zenon
    <2>8. KeysView' = [KeysView EXCEPT ![a] = @ \ {k}]
        BY <1>1, <2>4, <2>6, Zenon
    <2> QED BY <1>1, <1>3, <2>4, <2>6, <2>7, <2>8, Zenon DEF Plain!RemoveKey
<1>5. CASE ImplicitIdOf[k] # a
    <2>1. /\ k \in key_sets[a] /\ PutEntry(a, acc)
          /\ key_sets' = [key_sets EXCEPT ![a] = @ \ {k}]
        BY <1>3, <1>5, Zenon DEF RemovePublicKey
    <2> HIDE DEF acc
    <2>2. /\ key_sets' \in [Ids -> SUBSET StoredKeys] /\ key_sets'[a] = key_sets[a] \ {k}
          /\ key_sets'[a] \cap ImplicitKeys(a) = {}
        BY <1>0, <1>5, <2>1, KeyShown, Zenon
    <2>3. /\ OthersKept(a, nonce_maps, nonce_maps', key_sets, key_sets')
          /\ nonce_maps'[Optimized(a)] = nonce_maps[Optimized(a)]
          /\ nonce_maps' \in [Ids \X Prefixes -> SUBSET AllNonces]
        BY <1>0, <1>3, <2>1, Zenon DEF OthersKept, StorageInv, Inv
    <2>4. /\ KeysShown(key_sets', acc, a) = KeysShown(key_sets, acc, a) \ {k}
          /\ k \in KeysShown(key_sets, acc, a)
        BY <1>5, <2>1, <2>2, KeyShown, SMTT(30) DEF KeysShown
    <2>5. /\ StorageInv'
          /\ LockedView' = [LockedView EXCEPT ![a] = acc.locked]
          /\ AuthView' = [AuthView EXCEPT ![a] = "AUTH_BY_PREDECESSOR_ID_DISABLED" \in acc.flags]
          /\ KeysView' = [KeysView EXCEPT ![a] = KeysShown(key_sets', acc, a)]
          /\ UsedView' = [UsedView EXCEPT ![a] = Maps(nonce_maps', acc)]
          /\ code' = code /\ (code = "Latest" => root'[4] = root[4])
        BY <1>1, <2>1, <2>2, <2>3, Call, Zenon
    <2>6. LockedView' = LockedView /\ AuthView' = AuthView /\ UsedView' = UsedView
        BY <1>2, <1>3, <2>5, Zenon
    <2>7. KeysView' = [KeysView EXCEPT ![a] = @ \ {k}]
        BY <1>1, <2>4, <2>5, Zenon
    <2> QED BY <1>1, <1>3, <2>4, <2>5, <2>6, <2>7, Zenon DEF Plain!RemoveKey
<1> QED BY <1>4, <1>5, Zenon

(* Putting a set of nonces in the map of an account changes what the account *)
(* shows, and nothing that others show.                                      *)
IsMapChange(c, a, acc, nm, ks, S) ==
    /\ AreMaps(With(nm, acc, S))
    /\ OthersKept(a, nm, With(nm, acc, S), ks, ks)
    /\ c # "Latest" => With(nm, acc, S)[Optimized(a)] = nm[Optimized(a)]
    /\ Maps(With(nm, acc, S), acc) = S \cup Rest(nm, acc)

(* A call that changes the map of nonces that its code writes.             *)
LEMMA MapChanged ==
    ASSUME NEW c, NEW es, NEW nm, NEW ks, Inv(c, es, nm, ks),
           NEW a \in Ids, NEW acc \in AccountsOf(c, a), NEW S, AreNonces(S)
    PROVE  IsMapChange(c, a, acc, nm, ks, S)
<1> DEFINE nm2 == With(nm, acc, S)
<1>0. nm \in [Ids \X Prefixes -> SUBSET AllNonces] /\ c \in Codes
    BY Zenon DEF Inv
<1>1. /\ acc.nonces = IF c = "Latest" THEN Optimized(a) ELSE Legacy(a)
      /\ acc.legacy = NoPrefix \/ (c = "Latest" /\ acc.legacy = Legacy(a))
    BY Zenon DEF AccountsOf
<1>2. \A b \in Ids : /\ Legacy(b) \in Ids \X Prefixes /\ Optimized(b) \in Ids \X Prefixes
                     /\ Legacy(b) # Optimized(a) /\ Optimized(b) # Legacy(a)
                     /\ b # a => Legacy(b) # Legacy(a) /\ Optimized(b) # Optimized(a)
    BY Zenon DEF Legacy, Optimized, Prefixes
<1>3. acc.nonces \in Ids \X Prefixes
    BY <1>1, <1>2, Zenon
<1>4. AreMaps(nm2) /\ nm2[acc.nonces] = S
    BY <1>0, <1>3, Zenon DEF With, AreMaps, AreNonces
<1>5. \A h \in Ids \X Prefixes : h # acc.nonces => nm2[h] = nm[h]
    BY <1>0, Zenon DEF With
<1> HIDE DEF nm2
<1>6. OthersKept(a, nm, nm2, ks, ks)
    BY <1>1, <1>2, <1>5, Zenon DEF OthersKept
<1>7. c # "Latest" => nm2[Optimized(a)] = nm[Optimized(a)]
    BY <1>1, <1>2, <1>5, Zenon
<1>8. acc.legacy # NoPrefix => nm2[acc.legacy] = nm[acc.legacy]
    BY <1>1, <1>2, <1>5, Zenon
<1>9. Maps(nm2, acc) = S \cup Rest(nm, acc)
    BY <1>4, <1>8, Zenon DEF Rest, Maps
<1> QED BY <1>4, <1>6, <1>7, <1>9, Zenon DEF nm2, IsMapChange

(* commit_nonce is the commitment of a nonce by the plain account.         *)
LEMMA Commits ==
    ASSUME StorageInv, NEW a \in Ids, NEW n \in NoncesOf[a], CommitNonce(a, n)
    PROVE  /\ StorageInv' /\ Plain!Commit(a, n)
           /\ code' = code /\ (code = "Latest" => root'[4] = root[4])
<1> DEFINE acc == GetOrCreate(a)
           S == nonce_maps[acc.nonces] \cup {n}
<1>0. /\ code \in Codes /\ key_sets \in [Ids -> SUBSET StoredKeys]
      /\ key_sets[a] \cap ImplicitKeys(a) = {}
      /\ nonce_maps \in [Ids \X Prefixes -> SUBSET AllNonces]
    BY Zenon DEF StorageInv, Inv
<1>1. /\ acc \in AccountsOf(code, a)
      /\ LockedView[a] = acc.locked
      /\ UsedView[a] = Maps(nonce_maps, acc) /\ DOMAIN UsedView = Ids
    BY Before, Zenon
<1>2. /\ [LockedView EXCEPT ![a] = acc.locked] = LockedView
      /\ [AuthView EXCEPT ![a] = "AUTH_BY_PREDECESSOR_ID_DISABLED" \in acc.flags] = AuthView
      /\ [KeysView EXCEPT ![a] = KeysShown(key_sets, acc, a)] = KeysView
    BY Unshown, Zenon
<1>3. acc.nonces # NoPrefix /\ acc.nonces \in Ids \X Prefixes
    <2>1. acc = Read(code, entries, a)
        BY Zenon DEF GetOrCreate, Read, HasEntry
    <2>2. acc.nonces # NoPrefix
        BY <2>1, Prefix DEF StorageInv
    <2> QED BY <1>1, <2>2 DEF AccountsOf, Legacy, Optimized, Prefixes
<1>4. /\ ~acc.locked /\ n \notin NoncesIn(acc.legacy) /\ n \notin NoncesIn(acc.nonces)
      /\ nonce_maps' = [nonce_maps EXCEPT ![acc.nonces] = S]
      /\ PutEntry(a, acc) /\ key_sets' = key_sets
    BY Zenon DEF CommitNonce
<1> HIDE DEF acc
<1>5. n \notin Maps(nonce_maps, acc)
    BY <1>3, <1>4, Zenon DEF Rest, Maps, NoncesIn
<1>6. S \in SUBSET AllNonces
    BY <1>0, <1>3, SMTT(30) DEF AllNonces
<1> HIDE DEF S
<1>7. /\ nonce_maps' \in [Ids \X Prefixes -> SUBSET AllNonces]
      /\ OthersKept(a, nonce_maps, nonce_maps', key_sets, key_sets')
      /\ code # "Latest" => nonce_maps'[Optimized(a)] = nonce_maps[Optimized(a)]
      /\ Maps(nonce_maps', acc) = S \cup Rest(nonce_maps, acc)
    <2> DEFINE nm2 == With(nonce_maps, acc, S)
    <2>1. AreNonces(S) /\ Inv(code, entries, nonce_maps, key_sets)
        BY <1>6, Zenon DEF AreNonces, StorageInv
    <2>2. /\ AreMaps(nm2)
          /\ OthersKept(a, nonce_maps, nm2, key_sets, key_sets)
          /\ code # "Latest" => nm2[Optimized(a)] = nonce_maps[Optimized(a)]
          /\ Maps(nm2, acc) = S \cup Rest(nonce_maps, acc)
        <3>1. IsMapChange(code, a, acc, nonce_maps, key_sets, S)
            BY <1>1, <2>1, MapChanged, Zenon
        <3> QED BY <3>1, Zenon DEF IsMapChange
    <2>3. nonce_maps' = nm2
        BY <1>4, Zenon DEF With
    <2> QED BY <1>4, <2>2, <2>3, Zenon DEF AreMaps
<1>8. Maps(nonce_maps', acc) = Maps(nonce_maps, acc) \cup {n}
    BY <1>7, Zenon DEF Rest, Maps, S
<1>9. /\ StorageInv'
      /\ LockedView' = [LockedView EXCEPT ![a] = acc.locked]
      /\ AuthView' = [AuthView EXCEPT ![a] = "AUTH_BY_PREDECESSOR_ID_DISABLED" \in acc.flags]
      /\ KeysView' = [KeysView EXCEPT ![a] = KeysShown(key_sets', acc, a)]
      /\ UsedView' = [UsedView EXCEPT ![a] = Maps(nonce_maps', acc)]
      /\ code' = code /\ (code = "Latest" => root'[4] = root[4])
    <2>1. key_sets' \in [Ids -> SUBSET StoredKeys] /\ key_sets'[a] \cap ImplicitKeys(a) = {}
        BY <1>0, <1>4, Zenon
    <2> QED BY <1>1, <1>4, <1>7, <2>1, Call, Zenon
<1>10. LockedView' = LockedView /\ AuthView' = AuthView /\ KeysView' = KeysView
    BY <1>2, <1>4, <1>9, Zenon
<1>11. UsedView' = [UsedView EXCEPT ![a] = @ \cup {n}]
    BY <1>1, <1>8, <1>9, Zenon
<1> QED BY <1>1, <1>4, <1>5, <1>9, <1>10, <1>11, Zenon DEF Plain!Commit

(* cleanup_nonce_by_prefix is the cleanup of a word of the plain account.  *)
LEMMA CleansUp ==
    ASSUME StorageInv, NEW a \in Ids, NEW w \in CleanableWords, CleanupNonceByPrefix(a, w)
    PROVE  /\ StorageInv' /\ Plain!Cleanup(a, w)
           /\ code' = code /\ (code = "Latest" => root'[4] = root[4])
<1> DEFINE acc == GetOrCreate(a)
           S == {n \in nonce_maps[acc.nonces] : n[1] # w}
           rest == Rest(nonce_maps, acc)
           kept == {n \in rest : n[1] = w}
<1>0. /\ code \in Codes /\ key_sets \in [Ids -> SUBSET StoredKeys]
      /\ key_sets[a] \cap ImplicitKeys(a) = {}
      /\ nonce_maps \in [Ids \X Prefixes -> SUBSET AllNonces]
    BY Zenon DEF StorageInv, Inv
<1>1. /\ acc \in AccountsOf(code, a)
      /\ UsedView[a] = Maps(nonce_maps, acc) /\ DOMAIN UsedView = Ids
    BY Before, Zenon
<1>2. /\ [LockedView EXCEPT ![a] = acc.locked] = LockedView
      /\ [AuthView EXCEPT ![a] = "AUTH_BY_PREDECESSOR_ID_DISABLED" \in acc.flags] = AuthView
      /\ [KeysView EXCEPT ![a] = KeysShown(key_sets, acc, a)] = KeysView
    BY Unshown, Zenon
<1>3. acc.nonces \in Ids \X Prefixes
    BY <1>1 DEF AccountsOf, Legacy, Optimized, Prefixes
<1>4. /\ nonce_maps' = [nonce_maps EXCEPT ![acc.nonces] = S]
      /\ PutEntry(a, acc) /\ key_sets' = key_sets
    BY Zenon DEF CleanupNonceByPrefix
<1> HIDE DEF acc
<1>5. S \in SUBSET AllNonces
    BY <1>0, <1>3, Zenon
<1>6. /\ Maps(nonce_maps, acc) = nonce_maps[acc.nonces] \cup rest
      /\ kept \subseteq {n \in Maps(nonce_maps, acc) : n[1] = w}
      /\ S \cup rest = {n \in Maps(nonce_maps, acc) : n[1] # w} \cup kept
    BY Zenon DEF Rest, Maps
<1> HIDE DEF S, kept
<1>7. /\ nonce_maps' \in [Ids \X Prefixes -> SUBSET AllNonces]
      /\ OthersKept(a, nonce_maps, nonce_maps', key_sets, key_sets')
      /\ code # "Latest" => nonce_maps'[Optimized(a)] = nonce_maps[Optimized(a)]
      /\ Maps(nonce_maps', acc) = S \cup rest
    <2> DEFINE nm2 == With(nonce_maps, acc, S)
    <2>1. AreNonces(S) /\ Inv(code, entries, nonce_maps, key_sets)
        BY <1>5, Zenon DEF AreNonces, StorageInv
    <2>2. /\ AreMaps(nm2)
          /\ OthersKept(a, nonce_maps, nm2, key_sets, key_sets)
          /\ code # "Latest" => nm2[Optimized(a)] = nonce_maps[Optimized(a)]
          /\ Maps(nm2, acc) = S \cup Rest(nonce_maps, acc)
        <3>1. IsMapChange(code, a, acc, nonce_maps, key_sets, S)
            BY <1>1, <2>1, MapChanged, Zenon
        <3> QED BY <3>1, Zenon DEF IsMapChange
    <2>3. nonce_maps' = nm2
        BY <1>4, Zenon DEF With
    <2> QED BY <1>4, <2>2, <2>3, Zenon DEF AreMaps
<1>8. /\ StorageInv'
      /\ LockedView' = [LockedView EXCEPT ![a] = acc.locked]
      /\ AuthView' = [AuthView EXCEPT ![a] = "AUTH_BY_PREDECESSOR_ID_DISABLED" \in acc.flags]
      /\ KeysView' = [KeysView EXCEPT ![a] = KeysShown(key_sets', acc, a)]
      /\ UsedView' = [UsedView EXCEPT ![a] = Maps(nonce_maps', acc)]
      /\ code' = code /\ (code = "Latest" => root'[4] = root[4])
    <2>1. key_sets' \in [Ids -> SUBSET StoredKeys] /\ key_sets'[a] \cap ImplicitKeys(a) = {}
        BY <1>0, <1>4, Zenon
    <2> QED BY <1>1, <1>4, <1>7, <2>1, Call, Zenon
<1>9. LockedView' = LockedView /\ AuthView' = AuthView /\ KeysView' = KeysView
    BY <1>2, <1>4, <1>8, Zenon
<1>10. /\ kept \in SUBSET {n \in UsedView[a] : n[1] = w}
       /\ UsedView' = [UsedView EXCEPT ![a] = {n \in @ : n[1] # w} \cup kept]
    BY <1>1, <1>6, <1>7, <1>8, Zenon
<1> QED BY <1>8, <1>9, <1>10, Zenon DEF Plain!Cleanup

(* A call that shows another lock or another flag, or nothing.             *)
LEMMA SetsAuth ==
    ASSUME StorageInv, NEW a \in Ids, NEW enable \in BOOLEAN, NEW force \in BOOLEAN,
           SetAuthByPredecessorId(a, enable, force)
    PROVE  /\ StorageInv' /\ Plain!Switch(a)
           /\ code' = code /\ (code = "Latest" => root'[4] = root[4])
<1> DEFINE acc == GetOrCreate(a)
           F == IF enable THEN acc.flags \ {"AUTH_BY_PREDECESSOR_ID_DISABLED"}
                          ELSE acc.flags \cup {"AUTH_BY_PREDECESSOR_ID_DISABLED"}
           new == [acc EXCEPT !.flags = F]
<1>1. acc \in AccountsOf(code, a) /\ code \in Codes
    BY Before, Zenon DEF StorageInv, Inv
<1>2. /\ [LockedView EXCEPT ![a] = acc.locked] = LockedView
      /\ [KeysView EXCEPT ![a] = KeysShown(key_sets, acc, a)] = KeysView
      /\ [UsedView EXCEPT ![a] = Maps(nonce_maps, acc)] = UsedView
    BY Unshown, Zenon
<1>3. code # "V0" /\ PutEntry(a, new) /\ UNCHANGED <<nonce_maps, key_sets>>
    BY Zenon DEF SetAuthByPredecessorId
<1>4. /\ F \subseteq acc.flags \cup (IF code = "V0" THEN {"IMPLICIT_PUBLIC_KEY_REMOVED"} ELSE Flags)
      /\ ("IMPLICIT_PUBLIC_KEY_REMOVED" \in F) = ("IMPLICIT_PUBLIC_KEY_REMOVED" \in acc.flags)
      /\ ("AUTH_BY_PREDECESSOR_ID_DISABLED" \in F) \in BOOLEAN
    BY <1>3 DEF Flags
<1> HIDE DEF acc, F
<1>5. /\ new \in AccountsOf(code, a) /\ new.locked = acc.locked /\ new.flags = F
      /\ Maps(nonce_maps, new) = Maps(nonce_maps, acc)
    BY <1>1, <1>4, Flagged
<1> HIDE DEF new
<1>6. KeysShown(key_sets, new, a) = KeysShown(key_sets, acc, a)
    BY <1>4, <1>5, Zenon DEF KeysShown
<1>7. /\ StorageInv'
      /\ LockedView' = [LockedView EXCEPT ![a] = new.locked]
      /\ AuthView' = [AuthView EXCEPT ![a] = "AUTH_BY_PREDECESSOR_ID_DISABLED" \in new.flags]
      /\ KeysView' = [KeysView EXCEPT ![a] = KeysShown(key_sets, new, a)]
      /\ UsedView' = [UsedView EXCEPT ![a] = Maps(nonce_maps, new)]
      /\ code' = code /\ (code = "Latest" => root'[4] = root[4])
    BY <1>3, <1>5, CallOfEntry, Zenon
<1>8. LockedView' = LockedView /\ KeysView' = KeysView /\ UsedView' = UsedView
    BY <1>2, <1>5, <1>6, <1>7, Zenon
<1>9. \E b \in BOOLEAN : AuthView' = [AuthView EXCEPT ![a] = b]
    BY <1>4, <1>5, <1>7, Zenon
<1> QED BY <1>7, <1>8, <1>9, Zenon DEF Plain!Switch

(* Locking and unlocking switch the plain account.                         *)
LEMMA SetsLock ==
    ASSUME StorageInv, NEW a \in Ids, NEW L \in BOOLEAN, code # "V0",
           PutEntry(a, [GetOrCreate(a) EXCEPT !.locked = L]), UNCHANGED <<nonce_maps, key_sets>>
    PROVE  /\ StorageInv' /\ Plain!Switch(a)
           /\ code' = code /\ (code = "Latest" => root'[4] = root[4])
<1> DEFINE acc == GetOrCreate(a)
           new == [acc EXCEPT !.locked = L]
<1>1. acc \in AccountsOf(code, a) /\ code \in Codes \ {"V0"}
    BY Before, Zenon DEF StorageInv, Inv
<1>2. /\ [AuthView EXCEPT ![a] = "AUTH_BY_PREDECESSOR_ID_DISABLED" \in acc.flags] = AuthView
      /\ [KeysView EXCEPT ![a] = KeysShown(key_sets, acc, a)] = KeysView
      /\ [UsedView EXCEPT ![a] = Maps(nonce_maps, acc)] = UsedView
    BY Unshown, Zenon
<1>3. PutEntry(a, new)
    BY Zenon
<1> HIDE DEF acc
<1>4. /\ new \in AccountsOf(code, a) /\ new.locked = L /\ new.flags = acc.flags
      /\ Maps(nonce_maps, new) = Maps(nonce_maps, acc)
    BY <1>1, Relocked
<1> HIDE DEF new
<1>5. KeysShown(key_sets, new, a) = KeysShown(key_sets, acc, a)
    BY <1>4, Zenon DEF KeysShown
<1>6. /\ StorageInv'
      /\ LockedView' = [LockedView EXCEPT ![a] = new.locked]
      /\ AuthView' = [AuthView EXCEPT ![a] = "AUTH_BY_PREDECESSOR_ID_DISABLED" \in new.flags]
      /\ KeysView' = [KeysView EXCEPT ![a] = KeysShown(key_sets, new, a)]
      /\ UsedView' = [UsedView EXCEPT ![a] = Maps(nonce_maps, new)]
      /\ code' = code /\ (code = "Latest" => root'[4] = root[4])
    BY <1>3, <1>4, CallOfEntry, Zenon
<1>7. AuthView' = AuthView /\ KeysView' = KeysView /\ UsedView' = UsedView
    BY <1>2, <1>4, <1>5, <1>6, Zenon
<1>8. LockedView' = [LockedView EXCEPT ![a] = L]
    BY <1>4, <1>6, Zenon
<1> QED BY <1>6, <1>7, <1>8, Zenon DEF Plain!Switch

(* A deposit, which may store a migrated entry, shows nothing.             *)
LEMMA Deposits ==
    ASSUME StorageInv, NEW a \in Ids, InternalAddBalance(a)
    PROVE  /\ StorageInv' /\ UNCHANGED Plain!plainVars
           /\ code' = code /\ (code = "Latest" => root'[4] = root[4])
<1> DEFINE acc == GetOrCreate(a)
<1>1. acc \in AccountsOf(code, a)
    BY Before, Zenon
<1>2. /\ [LockedView EXCEPT ![a] = acc.locked] = LockedView
      /\ [AuthView EXCEPT ![a] = "AUTH_BY_PREDECESSOR_ID_DISABLED" \in acc.flags] = AuthView
      /\ [KeysView EXCEPT ![a] = KeysShown(key_sets, acc, a)] = KeysView
      /\ [UsedView EXCEPT ![a] = Maps(nonce_maps, acc)] = UsedView
    BY Unshown, Zenon
<1>3. PutEntry(a, acc) /\ UNCHANGED <<nonce_maps, key_sets>>
    BY SMTT(30) DEF InternalAddBalance
<1> HIDE DEF acc
<1>4. /\ StorageInv'
      /\ LockedView' = [LockedView EXCEPT ![a] = acc.locked]
      /\ AuthView' = [AuthView EXCEPT ![a] = "AUTH_BY_PREDECESSOR_ID_DISABLED" \in acc.flags]
      /\ KeysView' = [KeysView EXCEPT ![a] = KeysShown(key_sets, acc, a)]
      /\ UsedView' = [UsedView EXCEPT ![a] = Maps(nonce_maps, acc)]
      /\ code' = code /\ (code = "Latest" => root'[4] = root[4])
    BY <1>1, <1>3, CallOfEntry, Zenon
<1> QED BY <1>2, <1>4, Zenon DEF Plain!plainVars
-----------------------------------------------------------------------------
(* Later code reads what earlier code wrote, and shows what it showed: the *)
(* nonces are in the legacy map now, and the new map is empty.             *)
LEMMA Upgraded ==
    ASSUME NEW c, NEW es, NEW nm, NEW ks, Inv(c, es, nm, ks),
           NEW d, \/ c = "V0" /\ d \in {"V1", "Latest"}
                  \/ c = "V1" /\ d = "Latest"
    PROVE  /\ Inv(d, es, nm, ks)
           /\ ShownLocked(d, es) = ShownLocked(c, es)
           /\ ShownAuth(d, es) = ShownAuth(c, es)
           /\ ShownKeys(d, es, ks) = ShownKeys(c, es, ks)
           /\ ShownUsed(d, es, nm) = ShownUsed(c, es, nm)
<1>0. c \in Codes /\ d \in Codes /\ c # "Latest" /\ d # "V0"
    BY Zenon DEF Codes
<1>1. Inv(d, es, nm, ks)
    <2>1. \A a \in Ids : Stored(c, es, nm, a) => Stored(d, es, nm, a)
        BY <1>0, Zenon DEF Stored
    <2> QED BY <1>0, <2>1, Zenon DEF Inv
<1>2. ASSUME NEW a \in Ids, NEW old, old = Read(c, es, a), NEW new, new = Read(d, es, a)
      PROVE  /\ new.locked = old.locked
             /\ ("AUTH_BY_PREDECESSOR_ID_DISABLED" \in new.flags)
                = ("AUTH_BY_PREDECESSOR_ID_DISABLED" \in old.flags)
             /\ KeysShown(ks, new, a) = KeysShown(ks, old, a)
             /\ Maps(nm, new) = Maps(nm, old)
    <2>1. CASE a \notin DOMAIN es
        <3>1. \A e \in {c, d} :
                 /\ Read(e, es, a).locked = FALSE
                 /\ "AUTH_BY_PREDECESSOR_ID_DISABLED" \notin Read(e, es, a).flags
                 /\ KeysShown(ks, Read(e, es, a), a) = ImplicitKeys(a)
                 /\ Maps(nm, Read(e, es, a)) = {}
            <4> SUFFICES ASSUME NEW e \in {c, d}
                         PROVE  /\ Read(e, es, a).locked = FALSE
                                /\ "AUTH_BY_PREDECESSOR_ID_DISABLED" \notin Read(e, es, a).flags
                                /\ KeysShown(ks, Read(e, es, a), a) = ImplicitKeys(a)
                                /\ Maps(nm, Read(e, es, a)) = {}
                BY Zenon
            <4>1. Inv(e, es, nm, ks)
                BY <1>1, Zenon
            <4> QED BY <2>1, <4>1, Created, Zenon
        <3>2. new.locked = old.locked
            BY <1>2, <3>1, Zenon
        <3>3. ("AUTH_BY_PREDECESSOR_ID_DISABLED" \in new.flags)
              = ("AUTH_BY_PREDECESSOR_ID_DISABLED" \in old.flags)
            BY <1>2, <3>1
        <3>4. KeysShown(ks, new, a) = KeysShown(ks, old, a) /\ Maps(nm, new) = Maps(nm, old)
            BY <1>2, <3>1, Zenon
        <3> QED BY <3>2, <3>3, <3>4, Zenon
    <2>2. CASE a \in DOMAIN es
        <3>1. /\ nm[Optimized(a)] = {}
              /\ old \in AccountsOf("V1", a)
              /\ new = old \/ new = WithLegacy(old)
            <4>0. Stored(c, es, nm, a)
                BY <2>2, Zenon DEF Inv
            <4>1. CASE \E acc \in AccountsOf("V0", a) : es[a] = SerializeV0(acc)
                <5>1. PICK acc \in AccountsOf("V0", a) : es[a] = SerializeV0(acc)
                    BY <4>1, Zenon
                <5>2. /\ Read(c, es, a) = IF c = "Latest" THEN WithLegacy(acc) ELSE acc
                      /\ Read(d, es, a) = IF d = "Latest" THEN WithLegacy(acc) ELSE acc
                    BY <1>0, <2>2, <5>1, ReadV0, Zenon
                <5>3. acc \in AccountsOf("V1", a)
                    BY Conversions, Zenon
                <5>4. nm[Optimized(a)] = {}
                    BY <1>0, <4>0, Zenon DEF Stored
                <5> QED BY <1>0, <1>2, <5>2, <5>3, <5>4, Zenon
            <4>2. CASE \E acc \in AccountsOf("V1", a) : es[a] = SerializeV1(acc)
                <5>1. PICK acc \in AccountsOf("V1", a) : es[a] = SerializeV1(acc)
                    BY <4>2, Zenon
                <5>2. /\ Read(c, es, a) = IF c = "Latest" THEN WithLegacy(acc) ELSE acc
                      /\ Read(d, es, a) = IF d = "Latest" THEN WithLegacy(acc) ELSE acc
                    BY <1>0, <2>2, <5>1, ReadV1, Zenon
                <5>3. nm[Optimized(a)] = {}
                    BY <1>0, <4>0, Zenon DEF Stored
                <5> QED BY <1>0, <1>2, <5>1, <5>2, <5>3, Zenon
            <4> QED BY <1>0, <4>0, <4>1, <4>2, Zenon DEF Stored
        <3>2. CASE new = WithLegacy(old)
            <4>1. new = [locked |-> old.locked, nonces |-> Optimized(a),
                         legacy |-> Legacy(a), flags |-> old.flags, prefix |-> a]
                BY <3>1, <3>2, Conversions, Zenon
            <4>2. /\ new.locked = old.locked /\ new.flags = old.flags
                  /\ new.nonces = Optimized(a) /\ new.legacy = Legacy(a)
                BY <4>1, Zenon
            <4>3. old.nonces = Legacy(a) /\ old.legacy = NoPrefix
                BY <3>1, Zenon DEF AccountsOf
            <4>4. Legacy(a) # NoPrefix
                <5>1. Len(NoPrefix) = 0 /\ Len(Legacy(a)) = 2
                    BY SMTT(30) DEF NoPrefix, Legacy
                <5> QED BY <5>1
            <4>5. Maps(nm, new) = Maps(nm, old)
                BY <3>1, <4>2, <4>3, <4>4, Zenon DEF Maps, Rest
            <4> QED BY <4>2, <4>5, Zenon DEF KeysShown
        <3> QED BY <3>1, <3>2, Zenon
    <2> QED BY <2>1, <2>2, Zenon
<1>3. ShownLocked(d, es) = ShownLocked(c, es)
    BY <1>2, Zenon DEF ShownLocked
<1>4. ShownAuth(d, es) = ShownAuth(c, es)
    BY <1>2, Zenon DEF ShownAuth
<1>5. ShownKeys(d, es, ks) = ShownKeys(c, es, ks)
    BY <1>2, Zenon DEF ShownKeys
<1>6. ShownUsed(d, es, nm) = ShownUsed(c, es, nm)
    BY <1>2, Zenon DEF ShownUsed
<1> QED BY <1>1, <1>3, <1>4, <1>5, <1>6, Zenon

(* An upgrade of the code, with the migration of the root, shows nothing.  *)
LEMMA Upgrades ==
    ASSUME StorageInv, NEW d \in {"V1", "Latest"}, Upgrade(d)
    PROVE  StorageInv' /\ UNCHANGED Plain!plainVars /\ code # "Latest"
<1>0. /\ Inv(code, entries, nonce_maps, key_sets)
      /\ code' = d /\ entries' = entries /\ nonce_maps' = nonce_maps /\ key_sets' = key_sets
      /\ code # "Latest"
      /\ \/ code = "V0" /\ d \in {"V1", "Latest"}
         \/ code = "V1" /\ d = "Latest"
    BY Zenon DEF StorageInv, Upgrade
<1>1. /\ Inv(d, entries, nonce_maps, key_sets)
      /\ ShownLocked(d, entries) = ShownLocked(code, entries)
      /\ ShownAuth(d, entries) = ShownAuth(code, entries)
      /\ ShownKeys(d, entries, key_sets) = ShownKeys(code, entries, key_sets)
      /\ ShownUsed(d, entries, nonce_maps) = ShownUsed(code, entries, nonce_maps)
    BY <1>0, Upgraded
<1>2. Inv(code', entries', nonce_maps', key_sets')
    BY <1>0, <1>1, Zenon
<1>3. d = "Latest" => IsVersioned(root')
    BY DEF Upgrade, Return, SerializeRoot, IsVersioned
<1>4. StorageInv'
    BY <1>0, <1>2, <1>3, Zenon DEF StorageInv
<1>5. /\ LockedView = ShownLocked(code, entries)
      /\ AuthView = ShownAuth(code, entries)
      /\ KeysView = ShownKeys(code, entries, key_sets)
      /\ UsedView = ShownUsed(code, entries, nonce_maps)
    BY <1>0, ViewsNow, Zenon
<1>6. /\ LockedView' = ShownLocked(code', entries')
      /\ AuthView' = ShownAuth(code', entries')
      /\ KeysView' = ShownKeys(code', entries', key_sets')
      /\ UsedView' = ShownUsed(code', entries', nonce_maps')
    BY <1>2, ViewsNext, Zenon
<1>7. /\ LockedView' = LockedView /\ AuthView' = AuthView
      /\ KeysView' = KeysView /\ UsedView' = UsedView
    BY <1>0, <1>1, <1>5, <1>6, Zenon
<1> QED BY <1>0, <1>4, <1>7, Zenon DEF Plain!plainVars
-----------------------------------------------------------------------------
(* A fresh contract shows the initial plain accounts.                      *)
LEMMA Starts == StorageInit => StorageInv /\ Plain!Init
<1> SUFFICES ASSUME StorageInit PROVE StorageInv /\ Plain!Init
    BY Zenon
<1>1. /\ code = "V0" /\ DOMAIN entries = {}
      /\ nonce_maps = [h \in Ids \X Prefixes |-> {}]
      /\ key_sets = [a \in Ids |-> {}]
    BY DEF StorageInit
<1>2. \A a \in Ids : Nothing(nonce_maps, key_sets, a)
    BY <1>1, Zenon DEF Nothing, Legacy, Optimized, Prefixes
<1>3. StorageInv
    BY <1>1, <1>2, Zenon DEF StorageInv, Inv, Codes
<1>4. \A a \in Ids : ~HasEntry(a)
    BY <1>1, Zenon DEF HasEntry
<1>5. LockedView = [a \in Ids |-> FALSE] /\ AuthView = [a \in Ids |-> FALSE]
    BY <1>4, Zenon DEF LockedView, AuthView, IsLocked, IsAuthDisabled
<1>6. KeysView = [a \in Ids |-> {k \in StoredKeys : ImplicitIdOf[k] = a}]
    BY <1>4, Zenon DEF KeysView, PublicKeys, ImplicitKeys
<1>7. UsedView = [a \in Ids |-> {}]
    BY <1>4, Zenon DEF UsedView, UsedNonces
<1> QED BY <1>3, <1>5, <1>6, <1>7, Zenon DEF Plain!Init

(* One step of the storage is one of the plain accounts, or shows nothing. *)
LEMMA Steps ==
    ASSUME StorageInv, [StorageNext]_storageVars
    PROVE  /\ StorageInv' /\ [Plain!Next]_(Plain!plainVars)
           /\ code = "Latest" => code' = code /\ root'[4] = root[4]
<1>1. ASSUME NEW a \in Ids, NEW k \in StoredKeys, AddPublicKey(a, k)
      PROVE  /\ StorageInv' /\ Plain!Next
             /\ code = "Latest" => code' = code /\ root'[4] = root[4]
    BY <1>1, AddsKey, Zenon DEF Plain!Next
<1>2. ASSUME NEW a \in Ids, NEW k \in StoredKeys, RemovePublicKey(a, k)
      PROVE  /\ StorageInv' /\ Plain!Next
             /\ code = "Latest" => code' = code /\ root'[4] = root[4]
    BY <1>2, RemovesKey, Zenon DEF Plain!Next
<1>3. ASSUME NEW a \in Ids, NEW n \in NoncesOf[a], CommitNonce(a, n)
      PROVE  /\ StorageInv' /\ Plain!Next
             /\ code = "Latest" => code' = code /\ root'[4] = root[4]
    BY <1>3, Commits, Zenon DEF Plain!Next
<1>4. ASSUME NEW a \in Ids, NEW w \in CleanableWords, CleanupNonceByPrefix(a, w)
      PROVE  /\ StorageInv' /\ Plain!Next
             /\ code = "Latest" => code' = code /\ root'[4] = root[4]
    BY <1>4, CleansUp, Zenon DEF Plain!Next
<1>5. ASSUME NEW a \in Ids, NEW enable \in BOOLEAN, NEW force \in BOOLEAN,
             SetAuthByPredecessorId(a, enable, force)
      PROVE  /\ StorageInv' /\ Plain!Next
             /\ code = "Latest" => code' = code /\ root'[4] = root[4]
    BY <1>5, SetsAuth, Zenon DEF Plain!Next
<1>6. ASSUME NEW a \in Ids, LockStored(a) \/ UnlockStored(a)
      PROVE  /\ StorageInv' /\ Plain!Next
             /\ code = "Latest" => code' = code /\ root'[4] = root[4]
    BY <1>6, SetsLock, Zenon DEF LockStored, UnlockStored, Plain!Next
<1>7. ASSUME NEW a \in Ids, InternalAddBalance(a)
      PROVE  /\ StorageInv' /\ UNCHANGED Plain!plainVars
             /\ code = "Latest" => code' = code /\ root'[4] = root[4]
    BY <1>7, Deposits, Zenon
<1>8. ASSUME NEW d \in {"V1", "Latest"}, Upgrade(d)
      PROVE  StorageInv' /\ UNCHANGED Plain!plainVars /\ code # "Latest"
    BY <1>8, Upgrades, Zenon
<1>9. CASE UNCHANGED storageVars
    <2>1. /\ code' = code /\ root' = root /\ entries' = entries
          /\ nonce_maps' = nonce_maps /\ key_sets' = key_sets
        BY <1>9, Zenon DEF storageVars
    <2>2. StorageInv'
        BY <2>1, Zenon DEF StorageInv, IsVersioned
    <2>3. /\ LockedView' = LockedView /\ AuthView' = AuthView
          /\ KeysView' = KeysView /\ UsedView' = UsedView
        <3>1. Inv(code, entries, nonce_maps, key_sets)
            BY Zenon DEF StorageInv
        <3>2. Inv(code', entries', nonce_maps', key_sets')
            BY <2>1, <3>1, Zenon
        <3> QED BY <2>1, <3>1, <3>2, ViewsNow, ViewsNext, Zenon
    <2> QED BY <2>1, <2>2, <2>3, Zenon DEF Plain!plainVars
<1> QED BY <1>1, <1>2, <1>3, <1>4, <1>5, <1>6, <1>7, <1>8, <1>9, Zenon DEF StorageNext

(* Every entry is one that the deployed code or an earlier one wrote for   *)
(* its account, and the map of nonces that only the latest code writes is  *)
(* empty until that code has written the entry.                            *)
THEOREM StorageIsReadable == StorageSpec => []StorageInv
<1>1. StorageInit => StorageInv
    BY Starts, Zenon
<1>2. StorageInv /\ [StorageNext]_storageVars => StorageInv'
    BY Steps, Zenon
<1> QED BY <1>1, <1>2, PTL DEF StorageSpec

(* Upgrades are invisible: the storage implements the plain accounts, and  *)
(* the current salt is kept from the upgrade that brought it on.           *)
THEOREM StorageImplementsPlainAccounts == StorageSpec => UpgradesAreInvisible
<1>1. StorageInit => Plain!Init
    BY Starts, Zenon
<1>2. StorageInv /\ [StorageNext]_storageVars => [Plain!Next]_(Plain!plainVars)
    BY Steps, Zenon
<1>3. StorageInv /\ StorageInv' /\ [StorageNext]_storageVars =>
         [code = "Latest" => \A r, s \in RandomSalts : CurrentSalt(r) = CurrentSalt(s)']_storageVars
    <2> SUFFICES ASSUME StorageInv, StorageInv', [StorageNext]_storageVars, code = "Latest",
                        NEW r \in RandomSalts, NEW s \in RandomSalts
                 PROVE  CurrentSalt(r) = CurrentSalt(s)'
        BY Zenon
    <2>1. code' = code /\ root'[4] = root[4]
        BY Steps, Zenon
    <2>2. IsVersioned(root) /\ IsVersioned(root)'
        BY <2>1, Zenon DEF StorageInv
    <2> QED BY <2>1, <2>2, Zenon DEF CurrentSalt
<1> QED BY <1>1, <1>2, <1>3, StorageIsReadable, PTL
        DEF StorageSpec, UpgradesAreInvisible, SaltIsKept, Plain!Spec

=============================================================================
