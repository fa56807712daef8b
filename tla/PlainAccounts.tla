---------------------------- MODULE PlainAccounts ---------------------------
(***************************************************************************)
(* What the accounts of the verifier promise to their owners, whatever     *)
(* code is deployed and however the accounts are stored: an account has    *)
(* keys, two switches, and used nonces, of which only those of a           *)
(* cleanable word are ever forgotten.                                      *)
(***************************************************************************)
CONSTANTS
    Ids,                 \* account ids
    StoredKeys,          \* public keys
    ImplicitIdOf,        \* the id that a key controls without being added
    NoncesOf,            \* nonces <<word, bit>> that are signed for each id
    CleanableWords       \* words of expired nonces, or nonces of invalid salts

VARIABLES
    locked,              \* is the account locked?
    auth_disabled,       \* is authentication by predecessor id disabled?
    keys,                \* public keys
    used                 \* used nonces

plainVars == <<locked, auth_disabled, keys, used>>

Init ==
    /\ locked = [a \in Ids |-> FALSE]
    /\ auth_disabled = [a \in Ids |-> FALSE]
    /\ keys = [a \in Ids |-> {k \in StoredKeys : ImplicitIdOf[k] = a}]
    /\ used = [a \in Ids |-> {}]

AddKey(a, k) ==
    /\ ~locked[a]
    /\ k \notin keys[a]
    /\ keys' = [keys EXCEPT ![a] = @ \cup {k}]
    /\ UNCHANGED <<locked, auth_disabled, used>>

RemoveKey(a, k) ==
    /\ ~locked[a]
    /\ k \in keys[a]
    /\ keys' = [keys EXCEPT ![a] = @ \ {k}]
    /\ UNCHANGED <<locked, auth_disabled, used>>

Commit(a, n) ==
    /\ ~locked[a]
    /\ n \notin used[a]
    /\ used' = [used EXCEPT ![a] = @ \cup {n}]
    /\ UNCHANGED <<locked, auth_disabled, keys>>

(* Some nonces of a cleanable word are forgotten.                          *)
Cleanup(a, w) ==
    /\ \E kept \in SUBSET {n \in used[a] : n[1] = w} :
          used' = [used EXCEPT ![a] = {n \in @ : n[1] # w} \cup kept]
    /\ UNCHANGED <<locked, auth_disabled, keys>>

Switch(a) ==
    /\ \/ \E b \in BOOLEAN : locked' = [locked EXCEPT ![a] = b] /\ UNCHANGED auth_disabled
       \/ \E b \in BOOLEAN : auth_disabled' = [auth_disabled EXCEPT ![a] = b] /\ UNCHANGED locked
    /\ UNCHANGED <<keys, used>>

Next ==
    \E a \in Ids :
        \/ \E k \in StoredKeys : AddKey(a, k) \/ RemoveKey(a, k)
        \/ \E n \in NoncesOf[a] : Commit(a, n)
        \/ \E w \in CleanableWords : Cleanup(a, w)
        \/ Switch(a)

Spec == Init /\ [][Next]_plainVars
=============================================================================
