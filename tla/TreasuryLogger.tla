--------------------------- MODULE TreasuryLogger ---------------------------
(***************************************************************************)
(* The treasury logger (contracts/treasury-logger): a NEP-245 receiver     *)
(* that keeps what it is sent and logs it under consecutive nonces.        *)
(***************************************************************************)
EXTENDS Naturals, Sequences

CONSTANTS
    LogTokens,   \* token contracts that call the logger, itself included
    logger,      \* the account of the logger
    LogAmounts,  \* amounts of a transfer
    MaxBatch,    \* bounds the length of the arguments
    MaxNonce     \* u128::MAX

ASSUME LoggerAssumption ==
    logger \in LogTokens /\ LogAmounts \subseteq Nat /\ {MaxBatch, MaxNonce} \subseteq Nat

VARIABLES
    nonce,     \* State::nonce
    logged,    \* the MtDeposit events
    returned   \* the amounts that the last call gave back

loggerVars == <<nonce, logged, returned>>

LoggerInit == nonce = 0 /\ logged = <<>> /\ returned = <<>>
-----------------------------------------------------------------------------
(* next_nonce() panics when it would overflow, which undoes the call: the  *)
(* last nonce is never given away.                                         *)
NextNonce(n) == n + 1
HasNextNonce(n) == n < MaxNonce

(* What the call has to satisfy; the sequences stand for token_ids,        *)
(* previous_owner_ids and amounts.                                         *)
AcceptsDeposit(token, ids, owners, amounts) ==
    /\ token # logger
    /\ Len(amounts) > 0
    /\ ids = Len(amounts)
    /\ ids = owners
    /\ \A i \in DOMAIN amounts : amounts[i] > 0

mt_on_transfer(token, ids, owners, amounts) ==
    /\ AcceptsDeposit(token, ids, owners, amounts)
    /\ HasNextNonce(nonce)
    /\ logged' = Append(logged, [token |-> token, amounts |-> amounts, nonce |-> nonce])
    /\ nonce' = NextNonce(nonce)
    /\ returned' = [i \in DOMAIN amounts |-> 0]

LoggerNext ==
    \E token \in LogTokens, ids, owners \in 0 .. MaxBatch,
       amounts \in UNION {[1 .. n -> LogAmounts] : n \in 0 .. MaxBatch} :
        mt_on_transfer(token, ids, owners, amounts)

LoggerSpec == LoggerInit /\ [][LoggerNext]_loggerVars
=============================================================================
