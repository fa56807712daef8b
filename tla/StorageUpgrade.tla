--------------------------- MODULE StorageUpgrade ---------------------------
(***************************************************************************)
(* The storage of the verifier over upgrades of its code.  The state of    *)
(* the contract is rewritten by every call, but the entry of an account    *)
(* stays as some earlier code wrote it until a call changes the account:   *)
(* a legacy entry has neither lock nor flags and starts with the length of *)
(* a prefix, a versioned one starts with VERSIONED_MAGIC_PREFIX and the    *)
(* number of its version.  Used nonces and keys are not in the entry: it   *)
(* has the prefixes of the maps that they are in.  Balances are kept like  *)
(* the keys, and left out.                                                 *)
(***************************************************************************)
EXTENDS Naturals, Sequences, FiniteSets

CONSTANTS
    Ids,                       \* account ids
    ImplicitIds,               \* is_implicit() of the account library
    ImplicitKeyIds,            \* has_implicit_public_key: those that a key can have
    StoredKeys,                \* public keys
    ImplicitIdOf,              \* to_implicit_account_id of each key
    NoncesOf,                  \* nonces <<word, bit>> that are signed for each id
    CleanableWords,            \* words of nonces that is_nonce_cleanable
    RandomSalts,               \* what derive_salt makes of the random seed
    VERSIONED_MAGIC_PREFIX     \* u32::MAX

Prefixes == {"_LegacyNonces", "OptimizedNonces"}
NoPrefix == <<>>

(* No account has that many accounts beside it, no prefix is that long,    *)
(* and ids of keys, which are hashes of some keys, do not collide.         *)
ASSUME StorageAssumption ==
    /\ VERSIONED_MAGIC_PREFIX \in Nat
    /\ IsFiniteSet(Ids)
    /\ Cardinality(Ids) < VERSIONED_MAGIC_PREFIX
    /\ 2 < VERSIONED_MAGIC_PREFIX
    /\ ImplicitKeyIds \subseteq ImplicitIds
    /\ \A k \in StoredKeys : ImplicitIdOf[k] \in Ids => ImplicitIdOf[k] \in ImplicitKeyIds
    /\ \A k, l \in StoredKeys : ImplicitIdOf[k] \in Ids /\ ImplicitIdOf[k] = ImplicitIdOf[l] => k = l

VARIABLES
    code,            \* the deployed code: the version of accounts it writes
    root,            \* the state of the contract, as stored
    entries,         \* entries of accounts, as stored
    nonce_maps,      \* used nonces under each prefix
    key_sets         \* public keys of each account

storageVars == <<code, root, entries, nonce_maps, key_sets>>
-----------------------------------------------------------------------------
(* Accounts in memory.  Those of V0 and V1 have one map of nonces.         *)
Nest(a, prefix) == <<a, prefix>>

RemovedFlag(removed) == IF removed THEN {"IMPLICIT_PUBLIC_KEY_REMOVED"} ELSE {}

LegacyAccountNew(a) ==
    [locked |-> FALSE, nonces |-> Nest(a, "_LegacyNonces"), legacy |-> NoPrefix,
     flags |-> RemovedFlag(a \notin ImplicitIds), prefix |-> a]

AccountNewLatest(a) ==
    [locked |-> FALSE, nonces |-> Nest(a, "OptimizedNonces"), legacy |-> NoPrefix,
     flags |-> RemovedFlag(a \notin ImplicitKeyIds), prefix |-> a]

(* Mutation: the map of the nonces used so far is dropped.                 *)
WithLegacyMutant(acc) ==
    [locked |-> acc.locked, nonces |-> Nest(acc.prefix, "OptimizedNonces"),
     legacy |-> NoPrefix, flags |-> acc.flags, prefix |-> acc.prefix]

(* From<AccountV0> and From<AccountV1> for Account: the nonces that are    *)
(* used stay where they are, new ones go to a new map.                     *)
WithLegacy(acc) ==
    [locked |-> acc.locked, nonces |-> Nest(acc.prefix, "OptimizedNonces"),
     legacy |-> acc.nonces, flags |-> acc.flags, prefix |-> acc.prefix]
-----------------------------------------------------------------------------
(* Accounts in storage.                                                    *)
SerializeV0(acc) ==
    <<Len(acc.nonces), acc.nonces, "IMPLICIT_PUBLIC_KEY_REMOVED" \in acc.flags, acc.prefix>>

SerializeV1(acc) ==
    <<VERSIONED_MAGIC_PREFIX, 1, acc.locked, acc.nonces, acc.flags, acc.prefix>>

SerializeLatest(acc) ==
    <<VERSIONED_MAGIC_PREFIX, 2, acc.locked, acc.nonces, acc.legacy, acc.flags, acc.prefix>>

Serialize(acc) ==
    CASE code = "V0" -> SerializeV0(acc)
      [] code = "V1" -> SerializeV1(acc)
      [] code = "Latest" -> SerializeLatest(acc)

AccountV0(bytes) ==
    [locked |-> FALSE, nonces |-> bytes[2], legacy |-> NoPrefix,
     flags |-> RemovedFlag(bytes[3]), prefix |-> bytes[4]]

AccountV1(bytes) ==
    [locked |-> bytes[3], nonces |-> bytes[4], legacy |-> NoPrefix,
     flags |-> bytes[5], prefix |-> bytes[6]]

AccountLatest(bytes) ==
    [locked |-> bytes[3], nonces |-> bytes[4], legacy |-> bytes[5],
     flags |-> bytes[6], prefix |-> bytes[7]]

IsVersioned(bytes) == bytes[1] = VERSIONED_MAGIC_PREFIX

(* Earlier code read what it and its predecessors had written.             *)
DeserializeEarlier(bytes) == IF IsVersioned(bytes) THEN AccountV1(bytes) ELSE AccountV0(bytes)

Deserialize(bytes) ==
    CASE ~IsVersioned(bytes) -> WithLegacy(AccountV0(bytes))
      [] IsVersioned(bytes) /\ bytes[2] = 1 -> WithLegacy(AccountV1(bytes))
      [] IsVersioned(bytes) /\ bytes[2] = 2 -> AccountLatest(bytes)

HasEntry(a) == a \in DOMAIN entries

GetOrCreate(a) ==
    IF HasEntry(a)
    THEN IF code = "Latest" THEN Deserialize(entries[a]) ELSE DeserializeEarlier(entries[a])
    ELSE IF code = "Latest" THEN AccountNewLatest(a) ELSE LegacyAccountNew(a)
-----------------------------------------------------------------------------
(* The state of the contract.  That of the first version had no salts: a   *)
(* new one is made of the random seed whenever it is read.                 *)
CurrentSalt(random) == IF IsVersioned(root) THEN root[4] ELSE random

SerializeRoot(c, len, salt) ==
    IF c = "Latest" THEN <<VERSIONED_MAGIC_PREFIX, 1, len, salt>> ELSE <<len>>

(* A call of the code c ends: the state of the contract is written.        *)
Return(c, len) ==
    root' \in {SerializeRoot(c, len, CurrentSalt(random)) : random \in RandomSalts}

(* A call ends that changed the account a, which is acc now.               *)
PutEntry(a, acc) ==
    /\ entries' = [b \in DOMAIN entries \cup {a} |->
                      IF b = a THEN Serialize(acc) ELSE entries[b]]
    /\ Return(code, Cardinality(DOMAIN entries \cup {a}))
    /\ UNCHANGED code
-----------------------------------------------------------------------------
(* What views return of an account.                                        *)
IsLocked(a) == HasEntry(a) /\ GetOrCreate(a).locked
IsAuthDisabled(a) ==
    HasEntry(a) /\ "AUTH_BY_PREDECESSOR_ID_DISABLED" \in GetOrCreate(a).flags

ImplicitKeys(a) == {k \in StoredKeys : ImplicitIdOf[k] = a}

PublicKeys(a) ==
    IF HasEntry(a)
    THEN LET acc == GetOrCreate(a)
         IN  key_sets[acc.prefix]
             \cup IF "IMPLICIT_PUBLIC_KEY_REMOVED" \in acc.flags THEN {} ELSE ImplicitKeys(a)
    ELSE ImplicitKeys(a)

NoncesIn(map) == IF map = NoPrefix THEN {} ELSE nonce_maps[map]

UsedNonces(a) ==
    IF HasEntry(a)
    THEN LET acc == GetOrCreate(a) IN NoncesIn(acc.nonces) \cup NoncesIn(acc.legacy)
    ELSE {}
-----------------------------------------------------------------------------
(* Calls.                                                                  *)
AddPublicKey(a, k) ==
    LET acc == GetOrCreate(a) IN
    /\ ~acc.locked
    /\ IF ImplicitIdOf[k] = a
       THEN /\ "IMPLICIT_PUBLIC_KEY_REMOVED" \in acc.flags
            /\ PutEntry(a, [acc EXCEPT !.flags = @ \ {"IMPLICIT_PUBLIC_KEY_REMOVED"}])
            /\ UNCHANGED key_sets
       ELSE /\ k \notin key_sets[acc.prefix]
            /\ PutEntry(a, acc)
            /\ key_sets' = [key_sets EXCEPT ![acc.prefix] = @ \cup {k}]
    /\ UNCHANGED nonce_maps

RemovePublicKey(a, k) ==
    LET acc == GetOrCreate(a) IN
    /\ ~acc.locked
    /\ IF ImplicitIdOf[k] = a
       THEN /\ "IMPLICIT_PUBLIC_KEY_REMOVED" \notin acc.flags
            /\ PutEntry(a, [acc EXCEPT !.flags = @ \cup {"IMPLICIT_PUBLIC_KEY_REMOVED"}])
            /\ UNCHANGED key_sets
       ELSE /\ k \in key_sets[acc.prefix]
            /\ PutEntry(a, acc)
            /\ key_sets' = [key_sets EXCEPT ![acc.prefix] = @ \ {k}]
    /\ UNCHANGED nonce_maps

CommitNonce(a, n) ==
    LET acc == GetOrCreate(a) IN
    /\ ~acc.locked
    /\ n \notin NoncesIn(acc.legacy)
    /\ n \notin NoncesIn(acc.nonces)
    /\ nonce_maps' = [nonce_maps EXCEPT ![acc.nonces] = @ \cup {n}]
    /\ PutEntry(a, acc)
    /\ UNCHANGED key_sets

(* The latest code only; legacy nonces are kept.                           *)
CleanupNonceByPrefix(a, w) ==
    LET acc == GetOrCreate(a) IN
    /\ code = "Latest"
    /\ HasEntry(a)
    /\ nonce_maps' = [nonce_maps EXCEPT ![acc.nonces] = {n \in @ : n[1] # w}]
    /\ PutEntry(a, acc)
    /\ UNCHANGED key_sets

(* From the second version on.                                             *)
SetAuthByPredecessorId(a, enable, force) ==
    LET acc == GetOrCreate(a) IN
    /\ code # "V0"
    /\ enable => HasEntry(a)
    /\ force \/ ~acc.locked
    /\ PutEntry(a, [acc EXCEPT !.flags = IF enable THEN @ \ {"AUTH_BY_PREDECESSOR_ID_DISABLED"}
                                              ELSE @ \cup {"AUTH_BY_PREDECESSOR_ID_DISABLED"}])
    /\ UNCHANGED <<nonce_maps, key_sets>>

LockStored(a) ==
    /\ code # "V0"
    /\ PutEntry(a, [GetOrCreate(a) EXCEPT !.locked = TRUE])
    /\ UNCHANGED <<nonce_maps, key_sets>>

UnlockStored(a) ==
    /\ code # "V0"
    /\ HasEntry(a)
    /\ PutEntry(a, [GetOrCreate(a) EXCEPT !.locked = FALSE])
    /\ UNCHANGED <<nonce_maps, key_sets>>

(* A deposit, which a locked account takes too.                            *)
InternalAddBalance(a) ==
    /\ PutEntry(a, GetOrCreate(a))
    /\ UNCHANGED <<nonce_maps, key_sets>>

(* The code is replaced, and its state_migrate(), which does nothing but   *)
(* read the state of the contract and write it, is called in the same      *)
(* receipt.                                                                *)
Upgrade(c) ==
    /\ \/ code = "V0" /\ c \in {"V1", "Latest"}
       \/ code = "V1" /\ c = "Latest"
    /\ code' = c
    /\ Return(c, Cardinality(DOMAIN entries))
    /\ UNCHANGED <<entries, nonce_maps, key_sets>>
-----------------------------------------------------------------------------
StorageInit ==
    /\ code = "V0"
    /\ root = <<0>>
    /\ entries = <<>>
    /\ nonce_maps = [h \in Ids \X Prefixes |-> {}]
    /\ key_sets = [a \in Ids |-> {}]

StorageNext ==
    \/ \E a \in Ids :
          \/ \E k \in StoredKeys : AddPublicKey(a, k) \/ RemovePublicKey(a, k)
          \/ \E n \in NoncesOf[a] : CommitNonce(a, n)
          \/ \E w \in CleanableWords : CleanupNonceByPrefix(a, w)
          \/ \E enable, force \in BOOLEAN : SetAuthByPredecessorId(a, enable, force)
          \/ LockStored(a)
          \/ UnlockStored(a)
          \/ InternalAddBalance(a)
    \/ \E c \in {"V1", "Latest"} : Upgrade(c)

StorageSpec == StorageInit /\ [][StorageNext]_storageVars
-----------------------------------------------------------------------------
(* The accounts as the views show them.                                    *)
LockedView == [a \in Ids |-> IsLocked(a)]
AuthView == [a \in Ids |-> IsAuthDisabled(a)]
KeysView == [a \in Ids |-> PublicKeys(a)]
UsedView == [a \in Ids |-> UsedNonces(a)]

Plain == INSTANCE PlainAccounts WITH
    locked <- LockedView, auth_disabled <- AuthView, keys <- KeysView, used <- UsedView

(* Whatever the random seed, the code that has salts reads one and the     *)
(* same current salt before and after a call (SaltRegistry::new of a state *)
(* without salts makes one up).                                            *)
SaltIsKept ==
    [][code = "Latest" =>
          \A r, s \in RandomSalts : CurrentSalt(r) = CurrentSalt(s)']_storageVars

(* Upgrades are invisible: with entries of three versions side by side,    *)
(* some of accounts that calls of the latest code changed and some not,    *)
(* the accounts are plain accounts of which an upgrade changes nothing (no *)
(* used nonce can be committed again, no lock, flag or key is lost), and   *)
(* the salt that users read is kept.                                       *)
UpgradesAreInvisible == Plain!Spec /\ SaltIsKept
=============================================================================
