---------------------------- MODULE WalletNonces ----------------------------
(***************************************************************************)
(* The dual-window nonces of a wallet contract                             *)
(* (contracts/wallet/src/nonces.rs).                                       *)
(*                                                                         *)
(* A wallet remembers a used nonce only for a while: two bitmaps, `old'    *)
(* and `current', are rotated whenever more than `Timeout' has passed      *)
(* since `last_cleaned_at'.  Forgetting is sound only if every message     *)
(* that carries a forgotten nonce has expired by then.                     *)
(*                                                                         *)
(* A call of the contract is one receipt, hence one atomic step.  A call   *)
(* that fails panics and the receipt is rolled back, the rotation done     *)
(* by check_cleanup included: failed calls are stuttering steps.           *)
(***************************************************************************)
EXTENDS Integers

CONSTANTS
    Timeout,    \* Nonces::timeout, fixed when the wallet is created
    Messages,   \* the messages the owner has ever signed
    MaxTime     \* bound on block time, for model checking only

(* What commit() reads of a message: its nonce, created_at and timeout.    *)
ASSUME NoncesAssumption ==
    /\ Timeout \in Nat
    /\ MaxTime \in Nat
    /\ \A m \in Messages : m.created_at \in Nat /\ m.timeout \in Nat

VARIABLES
    now,              \* block timestamp
    last_cleaned_at,  \* the last time the bitmaps were rotated
    old,              \* the bitmaps, as sets of the nonces whose bit is set
    current,
    executions,       \* history: how often each message was accepted
    used_at           \* history: when the bit of a nonce was last set

noncesVars == <<now, last_cleaned_at, old, current, executions, used_at>>

MessageNonces == {m.nonce : m \in Messages}

NoncesTypeOK ==
    /\ now \in Nat
    /\ last_cleaned_at \in 0 .. now
    /\ old \subseteq MessageNonces
    /\ current \subseteq MessageNonces
    /\ executions \in [Messages -> Nat]
    /\ used_at \in [MessageNonces -> Nat]

(* Nonces::new: the epoch is the time of the "last" rotation.              *)
NoncesInit ==
    /\ now \in 0 .. MaxTime
    /\ last_cleaned_at = 0
    /\ old = {}
    /\ current = {}
    /\ executions = [m \in Messages |-> 0]
    /\ used_at = [n \in MessageNonces |-> 0]
-----------------------------------------------------------------------------
(* What check_cleanup() leaves in each field.                              *)
MustRotate == last_cleaned_at < now - Timeout
(* Mutation: `old' is dropped after one timeout instead of two.            *)
MustForgetEarly == last_cleaned_at < now - Timeout
MustForget == last_cleaned_at < now - Timeout - Timeout

CleanedAt == IF MustRotate THEN now ELSE last_cleaned_at
CleanedOld ==
    IF MustRotate THEN (IF MustForget THEN {} ELSE current) ELSE old
CleanedCurrent == IF MustRotate THEN {} ELSE current

(* The message is neither from the future nor past the shorter of the two  *)
(* timeouts.                                                               *)
InWindow(m) ==
    /\ now - Timeout <= m.created_at
    /\ now - m.timeout <= m.created_at
    /\ m.created_at <= now
-----------------------------------------------------------------------------
(* Nonces::commit of a message that passes every check of the caller.      *)
Commit(m) ==
    /\ InWindow(m)
    /\ m.nonce \notin CleanedOld
    /\ m.nonce \notin CleanedCurrent
    /\ last_cleaned_at' = CleanedAt
    /\ old' = CleanedOld
    /\ current' = CleanedCurrent \cup {m.nonce}
    /\ executions' = [executions EXCEPT ![m] = @ + 1]
    /\ used_at' = [used_at EXCEPT ![m.nonce] = now]
    /\ UNCHANGED now

(* Nonces::check_cleanup on its own, as execute_extension calls it.        *)
CheckCleanup ==
    /\ last_cleaned_at' = CleanedAt
    /\ old' = CleanedOld
    /\ current' = CleanedCurrent
    /\ UNCHANGED <<now, executions, used_at>>

(* Block time moves on, by any amount.                                     *)
Tick ==
    /\ now' \in now + 1 .. MaxTime
    /\ UNCHANGED <<last_cleaned_at, old, current, executions, used_at>>

NoncesNext ==
    \/ \E m \in Messages : Commit(m)
    \/ CheckCleanup
    \/ Tick

NoncesSpec == NoncesInit /\ [][NoncesNext]_noncesVars
-----------------------------------------------------------------------------
(* Nonces::commit accepts a signed message at most once, although the      *)
(* bitmaps forget nonces: rotation never makes a message replayable.       *)
NoReplay == \A m \in Messages : executions[m] <= 1

(* The inductive form of NoReplay.  An accepted message has expired, or    *)
(* its nonce is in `current', or it is in `old' and the message was        *)
(* created before the last rotation.                                       *)
Remembered(m) ==
    \/ m.created_at + Timeout < now
    \/ m.nonce \in current /\ m.created_at <= last_cleaned_at + Timeout
    \/ m.nonce \in old /\ m.created_at <= last_cleaned_at

UsedNoncesRemembered ==
    \A m \in Messages : executions[m] > 0 => Remembered(m)

(* RequestMessage::nonce says that "Each nonce is stored for at most       *)
(* `2 * timeout` and then cleaned up": no call leaves an older nonce in    *)
(* the bitmaps.                                                            *)
StoredForTwoTimeouts ==
    [][now' = now =>
        \A n \in old' \cup current' : now - used_at'[n] <= 2 * Timeout
      ]_noncesVars
=============================================================================
