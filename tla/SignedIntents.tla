--------------------------- MODULE SignedIntents ---------------------------
(***************************************************************************)
(* Who may act for an account of the verifier contract, and how often:     *)
(* the account entries (public keys, authentication by predecessor id,     *)
(* lock), the nonces that signed payloads consume, the salts that nonces   *)
(* are bound to, and the garbage collector that deletes used nonces.       *)
(*                                                                         *)
(* A nonce has 32 bytes.  The bitmap of an account stores it as a bit (its *)
(* last byte) of a word (the 31 bytes before), so a nonce is a pair of a   *)
(* word and a bit.  A versioned nonce has its salt and its deadline in the *)
(* first bytes, that is, in the word: V1 is the set of the words that      *)
(* parse, SaltOf and DeadlineOf what they parse to.                        *)
(*                                                                         *)
(* A call that takes a list handles its entries one after the other.  What *)
(* it does is what the same calls with one entry each do when they follow  *)
(* each other at one time, and a list that fails changes nothing, so an    *)
(* action takes one entry.                                                 *)
(***************************************************************************)
EXTENDS Integers, Sequences

CONSTANTS
    Accounts,           \* account ids
    ImplicitAccounts,   \* the ones that are implicit by their form
    Keys,               \* public keys
    ImplicitAccountOf,  \* the implicit account id of a key
    Words, Bits,        \* the two parts of a nonce
    V1,                 \* the words that parse as a versioned nonce
    Salts, SaltOf, DeadlineOf,
    Payloads,           \* the payloads that somebody signed
    LegacyNonces,       \* nonces that may have been used before the nonce maps changed
    Self,               \* the account id of the contract
    MaxTime             \* bound of the clock

Nonces == Words \X Bits

NoKey == "no key"

AccountIntents ==
    [op : {"add_public_key", "remove_public_key"}, public_key : Keys]
        \cup [op : {"set_auth_by_predecessor_id"}, enabled : BOOLEAN]
        \cup [op : {"other"}]

ASSUME SignedIntentsAssumption ==
    /\ ImplicitAccounts \subseteq Accounts
    /\ \A k \in Keys :
          ImplicitAccountOf[k] \in Accounts => ImplicitAccountOf[k] \in ImplicitAccounts
    /\ V1 \subseteq Words
    /\ SaltOf \in [V1 -> Salts]
    /\ DeadlineOf \in [V1 -> Nat]
    /\ LegacyNonces \subseteq Nonces
    /\ MaxTime \in Nat
    /\ \A p \in Payloads :
          /\ p.signer_id \in Accounts
          /\ p.public_key \in Keys \cup {NoKey}
          /\ p.nonce \in Nonces
          /\ p.deadline \in Nat
          /\ p.intents \in Seq(AccountIntents)

VARIABLES
    now,
    accounts,       \* the entries, of the accounts that have one
    nonces,         \* used nonces of each account
    legacy,         \* the read-only map of the accounts that were migrated
    current,        \* the salt registry: the current salt,
    previous,       \* the salts that were current before,
    valid,          \* and those of them that are still valid
    executions      \* history: how often a nonce of an account was spent

vars == <<now, accounts, nonces, legacy, current, previous, valid, executions>>
saltVars == <<current, previous, valid>>
nonceVars == <<nonces, legacy, executions>>

---------------------------------------------------------------------------
(* The account entries. *)

AccountEntries == [locked : BOOLEAN, implicit_public_key_removed : BOOLEAN,
                   auth_disabled : BOOLEAN, public_keys : SUBSET Keys]

AccountNew(a) ==
    [locked |-> FALSE, implicit_public_key_removed |-> a \notin ImplicitAccounts,
     auth_disabled |-> FALSE, public_keys |-> {}]

Exists(a) == a \in DOMAIN accounts

\* Accounts::get_or_create
Entry(a) == IF Exists(a) THEN accounts[a] ELSE AccountNew(a)

\* The entry of a becomes e.
Put(a, e) == [b \in DOMAIN accounts \cup {a} |-> IF b = a THEN e ELSE accounts[b]]

IsAccountLocked(a) == Exists(a) /\ accounts[a].locked

IsAuthByPredecessorIdEnabled(a) == Exists(a) => ~accounts[a].auth_disabled

HasPublicKey(a, k) ==
    IF Exists(a)
    THEN \/ ~accounts[a].implicit_public_key_removed /\ ImplicitAccountOf[k] = a
         \/ k \in accounts[a].public_keys
    ELSE ImplicitAccountOf[k] = a

KeysOf(a) == {k \in Keys : HasPublicKey(a, k)}

\* Account::add_public_key and remove_public_key: can it, and what becomes of e.
CanAddKey(a, e, k) ==
    IF ImplicitAccountOf[k] = a THEN e.implicit_public_key_removed
                                ELSE k \notin e.public_keys

KeyAdded(a, e, k) ==
    IF ImplicitAccountOf[k] = a THEN [e EXCEPT !.implicit_public_key_removed = FALSE]
                                ELSE [e EXCEPT !.public_keys = @ \cup {k}]

CanRemoveKey(a, e, k) ==
    IF ImplicitAccountOf[k] = a THEN ~e.implicit_public_key_removed
                                ELSE k \in e.public_keys

KeyRemoved(a, e, k) ==
    IF ImplicitAccountOf[k] = a THEN [e EXCEPT !.implicit_public_key_removed = TRUE]
                                ELSE [e EXCEPT !.public_keys = @ \ {k}]

---------------------------------------------------------------------------
(* Salts and nonces. *)

IsValidSalt(s) == s = current \/ s \in valid

IsUsedMutant(s) == s = current \/ s \in valid

IsUsed(s) == s = current \/ s \in previous

VerifyIntentNonce(n, intent_deadline) ==
    n[1] \in V1 => /\ IsValidSalt(SaltOf[n[1]])
                   /\ intent_deadline <= DeadlineOf[n[1]]
                   /\ DeadlineOf[n[1]] >= now

IsNonceCleanableMutant(n) ==
    n[1] \in V1 /\ (DeadlineOf[n[1]] <= now \/ ~IsValidSalt(SaltOf[n[1]]))

IsNonceCleanable(n) ==
    n[1] \in V1 /\ (DeadlineOf[n[1]] < now \/ ~IsValidSalt(SaltOf[n[1]]))

CanCommitMutantNonce(a, n) == ~IsAccountLocked(a) /\ n \notin nonces[a]

CanCommitMutantLock(a, n) == n \notin legacy[a] /\ n \notin nonces[a]

CanCommit(a, n) ==
    /\ ~IsAccountLocked(a)
    /\ n \notin legacy[a]
    /\ n \notin nonces[a]

---------------------------------------------------------------------------
(* Signed payloads. *)

\* One intent of a payload, on the entry r.entry of the signer.
ApplyIntent(a, r, i) ==
    LET e == r.entry IN
    CASE i.op = "add_public_key" ->
            [ok |-> r.ok /\ CanAddKey(a, e, i.public_key),
             entry |-> KeyAdded(a, e, i.public_key)]
      [] i.op = "remove_public_key" ->
            [ok |-> r.ok /\ CanRemoveKey(a, e, i.public_key),
             entry |-> KeyRemoved(a, e, i.public_key)]
      [] i.op = "set_auth_by_predecessor_id" ->
            [ok |-> r.ok, entry |-> [e EXCEPT !.auth_disabled = ~i.enabled]]
      [] OTHER -> r

ApplyIntents(a, intents) ==
    LET after[k \in 0..Len(intents)] ==
            IF k = 0 THEN [ok |-> TRUE, entry |-> Entry(a)]
                     ELSE ApplyIntent(a, after[k - 1], intents[k])
    IN  after[Len(intents)]

Accepts(p) ==
    /\ p.public_key # NoKey
    /\ p.verifying_contract = Self
    /\ p.deadline >= now
    /\ HasPublicKey(p.signer_id, p.public_key)
    /\ VerifyIntentNonce(p.nonce, p.deadline)
    /\ CanCommit(p.signer_id, p.nonce)

ExecuteSignedIntent(p) ==
    /\ Accepts(p)
    /\ LET r == ApplyIntents(p.signer_id, p.intents)
       IN  r.ok /\ accounts' = Put(p.signer_id, r.entry)
    /\ nonces' = [nonces EXCEPT ![p.signer_id] = @ \cup {p.nonce}]
    /\ executions' = [executions EXCEPT ![p.signer_id][p.nonce] = @ + 1]
    /\ UNCHANGED <<now, legacy, saltVars>>

---------------------------------------------------------------------------
(* Calls by the owner of the account id, and by holders of a role. *)

ChangeKey(a, k) ==
    /\ ~IsAccountLocked(a)
    /\ \/ CanAddKey(a, Entry(a), k) /\ accounts' = Put(a, KeyAdded(a, Entry(a), k))
       \/ CanRemoveKey(a, Entry(a), k) /\ accounts' = Put(a, KeyRemoved(a, Entry(a), k))
    /\ UNCHANGED <<now, nonceVars, saltVars>>

OwnChangeKey(a, k) == IsAuthByPredecessorIdEnabled(a) /\ ChangeKey(a, k)

DisableAuthByPredecessorId(a) ==
    /\ IsAuthByPredecessorIdEnabled(a)
    /\ ~IsAccountLocked(a)
    /\ accounts' = Put(a, [Entry(a) EXCEPT !.auth_disabled = TRUE])
    /\ UNCHANGED <<now, nonceVars, saltVars>>

ForceSetAuthByPredecessorId(a, enable) ==
    /\ enable => Exists(a)
    /\ accounts' = Put(a, [Entry(a) EXCEPT !.auth_disabled = ~enable])
    /\ UNCHANGED <<now, nonceVars, saltVars>>

ForceLockAccount(a) ==
    /\ accounts' = Put(a, [Entry(a) EXCEPT !.locked = TRUE])
    /\ UNCHANGED <<now, nonceVars, saltVars>>

ForceUnlockAccount(a) ==
    /\ Exists(a)
    /\ accounts' = Put(a, [Entry(a) EXCEPT !.locked = FALSE])
    /\ UNCHANGED <<now, nonceVars, saltVars>>

\* The first deposit to an account, or transfer to it, creates its entry.
AddBalance(a) ==
    /\ accounts' = Put(a, Entry(a))
    /\ UNCHANGED <<now, nonceVars, saltVars>>

CleanupNonces(a, n) ==
    /\ IsNonceCleanable(n)
    /\ Exists(a)
    /\ nonces' = [nonces EXCEPT ![a] = {m \in @ : m[1] # n[1]}]
    /\ UNCHANGED <<now, accounts, legacy, executions, saltVars>>

\* set_new: the current salt joins the previous ones, and stays valid.
UpdateCurrentSalt(s) ==
    /\ ~IsUsed(s)
    /\ current' = s
    /\ previous' = previous \cup {current}
    /\ valid' = valid \cup {current}
    /\ UNCHANGED <<now, accounts, nonceVars>>

InvalidateCurrentSalt(s) ==
    /\ ~IsUsed(s)
    /\ current' = s
    /\ previous' = previous \cup {current}
    /\ valid' = valid \ {current}
    /\ UNCHANGED <<now, accounts, nonceVars>>

InvalidatePreviousSalt(s) ==
    /\ s # current
    /\ s \in previous
    /\ valid' = valid \ {s}
    /\ UNCHANGED <<now, accounts, nonceVars, current, previous>>

Tick ==
    /\ now < MaxTime
    /\ now' = now + 1
    /\ UNCHANGED <<accounts, nonceVars, saltVars>>

---------------------------------------------------------------------------

Init ==
    /\ now = 0
    /\ nonces = [a \in Accounts |-> {}]
    /\ legacy \in [Accounts -> SUBSET LegacyNonces]
    /\ accounts = [a \in {b \in Accounts : legacy[b] # {}} |-> AccountNew(a)]
    /\ current \in Salts
    /\ previous = {}
    /\ valid = {}
    /\ executions = [a \in Accounts |-> [n \in Nonces |-> IF n \in legacy[a] THEN 1 ELSE 0]]

Next ==
    \/ \E p \in Payloads : ExecuteSignedIntent(p)
    \/ \E a \in Accounts, k \in Keys : OwnChangeKey(a, k) \/ ChangeKey(a, k)
    \/ \E a \in Accounts : \/ DisableAuthByPredecessorId(a)
                           \/ ForceLockAccount(a)
                           \/ ForceUnlockAccount(a)
                           \/ AddBalance(a)
    \/ \E a \in Accounts, enable \in BOOLEAN : ForceSetAuthByPredecessorId(a, enable)
    \/ \E a \in Accounts, n \in Nonces : CleanupNonces(a, n)
    \/ \E s \in Salts : \/ UpdateCurrentSalt(s)
                        \/ InvalidateCurrentSalt(s)
                        \/ InvalidatePreviousSalt(s)
    \/ Tick

Spec == Init /\ [][Next]_vars

---------------------------------------------------------------------------
(* Properties. *)

\* The part of the type invariant that is about nonces and salts.
NoncesTypeOK ==
    /\ now \in Nat
    /\ nonces \in [Accounts -> SUBSET Nonces]
    /\ legacy \in [Accounts -> SUBSET Nonces]
    /\ current \in Salts
    /\ previous \in SUBSET Salts
    /\ valid \in SUBSET previous
    /\ executions \in [Accounts -> [Nonces -> Nat]]

\* Type invariant: the maps of the contract hold accounts, nonces, keys and
\* salts, and every entry is an account entry.
TypeOK ==
    /\ NoncesTypeOK
    /\ DOMAIN accounts \subseteq Accounts
    /\ \A a \in DOMAIN accounts : accounts[a] \in AccountEntries

\* No nonce of an account is ever spent twice, by the same payload or by two
\* payloads, although cleanup_nonces deletes used nonces, a whole word of them
\* at a time, and although the map of a migrated account is read-only: what
\* cleanup_nonces deletes can only have an expired deadline or a salt that was
\* invalidated, and neither is undone.
AtMostOnce == \A a \in Accounts : \A n \in Nonces : executions[a][n] <= 1

\* A nonce that can never be accepted again: its deadline is over or its salt
\* was one of the registry and is invalidated.
Dead(n) == n[1] \in V1 /\ \/ DeadlineOf[n[1]] < now
                          \/ SaltOf[n[1]] \in previous \ valid

\* Why AtMostOnce holds, as an inductive invariant: a nonce that was spent is in
\* one of the two maps or dead, the salts of the nonces in the new map are known
\* to the registry, and the current salt never was current before.
SpentIsRemembered ==
    /\ AtMostOnce
    /\ current \notin previous
    /\ \A a \in Accounts : \A n \in Nonces :
          /\ n \in nonces[a] /\ n[1] \in V1 => IsUsed(SaltOf[n[1]])
          /\ executions[a][n] > 0 => n \in nonces[a] \/ n \in legacy[a] \/ Dead(n)

\* A salt that invalidate_salts made invalid stays so: neither a rotation
\* (derive_next_salt skips every salt that the registry knows) nor another
\* invalidation makes it valid again.
InvalidSaltsStayInvalid ==
    [][\A s \in previous \ valid : ~IsValidSalt(s)']_vars

\* Cleaning up nonces is not observable to signers: exactly the payloads that
\* execute_intents accepted before cleanup_nonces are accepted after it.
CleanupIsUnobservable ==
    [][\A a \in Accounts : \A n \in Nonces :
          CleanupNonces(a, n) => \A p \in Payloads : Accepts(p)' = Accepts(p)]_vars

\* "Locks given account_id from modifying its own state": while an account is
\* locked its keys do not change and none of its nonces is spent, whether by a
\* signed payload, a call of the owner or a forced change of keys.
LockedIsFrozen ==
    [][\A a \in Accounts :
          IsAccountLocked(a) /\ IsAccountLocked(a)' =>
             /\ KeysOf(a)' = KeysOf(a)
             /\ executions'[a] = executions[a]]_vars

\* Creating the entry of an account does not change who may act for it: what
\* others do to an account (a deposit, a lock) leaves its keys and, unless a
\* role sets it, its authentication by predecessor id as they were, whether the
\* account had an entry or not.
CreationIsInvisible ==
    [][\A a \in Accounts :
          AddBalance(a) \/ ForceLockAccount(a) \/ ForceUnlockAccount(a) =>
             /\ KeysOf(a)' = KeysOf(a)
             /\ IsAuthByPredecessorIdEnabled(a)' = IsAuthByPredecessorIdEnabled(a)]_vars

\* What others do to an account, be it cleanup_nonces, a deposit or a lock, does not
\* change what its owner has signed or may sign.
OthersChangeNothing == CleanupIsUnobservable /\ CreationIsInvisible

=============================================================================
