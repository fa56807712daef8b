-------------------------- MODULE MCSignedIntents --------------------------
(***************************************************************************)
(* One implicit account with its key k1 and another key, nonces without    *)
(* salt and with two salts and deadlines, two bits of a word, and payloads *)
(* that change keys and authentication; or, in the other half of the       *)
(* behaviours, the storage of that account and of a deterministic one over *)
(* upgrades of the contract.                                               *)
(***************************************************************************)
EXTENDS SignedIntents, StorageUpgrade, TLC

VARIABLE part   \* which half it is

CONSTANTS alice, k1, k2, s1, s2, s3, legacyWord, earlyWord, lateWord, verifier, other

MCImplicitAccountOf == [k \in {k1, k2} |-> IF k = k1 THEN alice ELSE other]

MCV1 == {earlyWord, lateWord}
MCSaltOf == [w \in MCV1 |-> IF w = earlyWord THEN s1 ELSE s2]
MCDeadlineOf == [w \in MCV1 |-> IF w = earlyWord THEN 1 ELSE 2]

Payload(key, word, bit, deadline, intents) ==
    [signer_id |-> alice, public_key |-> key, verifying_contract |-> verifier,
     nonce |-> <<word, bit>>, deadline |-> deadline, intents |-> intents]

AddKey(k) == [op |-> "add_public_key", public_key |-> k]
RemoveKey(k) == [op |-> "remove_public_key", public_key |-> k]
SetAuth(enabled) == [op |-> "set_auth_by_predecessor_id", enabled |-> enabled]
Other == <<[op |-> "other"]>>

MCPayloads ==
    {Payload(k1, earlyWord, b, d, Other) : b \in {0, 1}, d \in 1..2}
        \cup {Payload(k2, lateWord, 0, d, <<SetAuth(b)>>) : d \in {2, 3}, b \in BOOLEAN}
        \cup {Payload(k1, lateWord, 0, 2, Other),
              Payload(k1, legacyWord, 0, 3, <<AddKey(k2), RemoveKey(k1)>>),
              Payload(k2, legacyWord, 0, 2, <<RemoveKey(k2)>>),
              Payload(NoKey, legacyWord, 0, 3, Other),
              [Payload(k1, legacyWord, 0, 3, Other) EXCEPT !.verifying_contract = other]}

\* Nonces that a migrated account may have used before.
MCLegacy == {<<legacyWord, 0>>, <<earlyWord, 1>>}

\* Of alice and of a deterministic account.
MCNoncesOf == alice :> MCLegacy @@ other :> {<<legacyWord, 0>>}

MCInit ==
    /\ part \in {"intents", "storage"}
    /\ Init
    /\ part = "storage" => legacy[alice] = {} /\ current = s1
    /\ StorageInit

MCNext ==
    /\ UNCHANGED part
    /\ \/ part = "intents" /\ Next /\ UNCHANGED storageVars
       \/ part = "storage" /\ StorageNext /\ UNCHANGED vars

MCSpec == MCInit /\ [][MCNext]_<<part, vars, storageVars>>

=============================================================================
