----------------------------- MODULE EscrowSwap -----------------------------
(***************************************************************************)
(* The escrow-swap contract (contracts/escrow-swap): a maker deposits src  *)
(* tokens, takers send dst tokens for them at no less than the maker's     *)
(* price, and when the escrow is closed the rest goes back to the maker.   *)
(*                                                                         *)
(* A method or callback is one receipt: it runs alone and a panic undoes   *)
(* it.  Every transfer out of the escrow is a call to a token contract     *)
(* whose result comes back later, in any order.  A call in flight occupies *)
(* a slot, whose `step' names the receipt that comes next.  The src and    *)
(* dst token contracts keep to NEP-141 or NEP-245.                         *)
(***************************************************************************)
EXTENDS Integers, FiniteSets, Totals

CONSTANTS
    Senders,          \* accounts that send tokens and close the escrow
    maker,            \* Params::maker
    taker_whitelist,  \* Params::taker_whitelist
    price,            \* Params::price, over Denominator
    TakerPrices,      \* prices that takers offer, over Denominator
    Denominator,      \* of prices (a power of 10 in the code)
    partial_fills_allowed,
    fee,              \* protocol_fees.fee, over MaxPips
    surplus,          \* protocol_fees.surplus, over MaxPips
    integrator_fee,   \* the fee of the one integrator, over MaxPips
    MaxPips,          \* Pips::MAX
    CallLegs,         \* transfers to the maker that have a msg
    Deposits,         \* amounts that can be sent to the escrow at once
    MaxAmount,        \* u128::MAX
    Slots             \* identities of calls in flight; bounds their number

MakerLegs == {"maker_src", "maker_dst"}
Legs == MakerLegs \cup {"taker_src", "fees"}
Tokens == {"src", "dst"}
TokenOf(l) == IF l \in {"maker_src", "taker_src"} THEN "src" ELSE "dst"

ASSUME EscrowAssumption ==
    /\ maker \in Senders
    /\ taker_whitelist \subseteq Senders
    /\ Denominator \in Nat \ {0} /\ MaxPips \in Nat \ {0}
    /\ price \in Nat \ {0} /\ TakerPrices \subseteq Nat
    /\ partial_fills_allowed \in BOOLEAN
    /\ {fee, surplus, integrator_fee} \subseteq 0 .. MaxPips
    /\ CallLegs \subseteq MakerLegs
    /\ MaxAmount \in Nat
    /\ Deposits \subseteq 1 .. MaxAmount
    /\ IsFiniteSet(Slots)

VARIABLES
    alive,          \* ContractStorage is Some: the escrow is not being deleted
    closed,         \* State::closed
    expired,        \* State::deadline < now
    src_remaining,  \* State::maker_src_remaining
    dst_lost,       \* State::maker_dst_lost
    in_flight,      \* State::in_flight
    calls,          \* the calls in flight
    held,           \* what the token contracts say the escrow owns
    owed,           \* history: what is held on behalf of calls in flight
    stranded        \* history: what is held on behalf of nobody

stateVars == <<alive, closed, src_remaining, dst_lost, in_flight>>
vars == <<stateVars, expired, calls, held, owed, stranded>>
-----------------------------------------------------------------------------
Amounts == 0 .. MaxAmount
NoLegs == [l \in Legs |-> 0]

(* A call in flight.  `amount' is what the sender sent and then what goes  *)
(* back to the sender; `legs' is what is sent on, `todo' the legs whose    *)
(* result is not there yet, `back' what the others left with the escrow,   *)
(* `failed' those of them whose promise failed.                            *)
Call == [step : {"on_transfer", "resolve", "refund"}, token : Tokens,
         sender : Senders, amount : Amounts, legs : [Legs -> Amounts],
         todo : SUBSET Legs, back : [Legs -> Amounts], failed : SUBSET Legs]

Idle == [step |-> "idle"]

NewCall(step, token, sender, amount, legs) ==
    [step |-> step, token |-> token, sender |-> sender, amount |-> amount,
     legs |-> legs, todo |-> {l \in Legs : legs[l] > 0}, back |-> NoLegs,
     failed |-> {}]

At(s, step) == calls[s].step = step
Goto(s, call) == calls' = [calls EXCEPT ![s] = call]
Finish(s) == Goto(s, Idle)
Move(f, token, n) == [f EXCEPT ![token] = @ + n]

TypeOK ==
    /\ {alive, closed, expired} \subseteq BOOLEAN
    /\ src_remaining \in Amounts
    /\ dst_lost \in Amounts
    /\ in_flight \in 0 .. Cardinality(Slots)
    /\ calls \in [Slots -> {Idle} \cup Call]
    /\ held \in [Tokens -> Amounts]
    /\ owed \in [Tokens -> Int]
    /\ stranded \in [Tokens -> Int]

(* ContractStorage::init.                                                  *)
Init ==
    /\ alive = TRUE
    /\ closed = FALSE
    /\ expired \in BOOLEAN
    /\ src_remaining = 0
    /\ dst_lost = 0
    /\ in_flight = 0
    /\ calls = [s \in Slots |-> Idle]
    /\ held = [t \in Tokens |-> 0]
    /\ owed = [t \in Tokens |-> 0]
    /\ stranded = [t \in Tokens |-> 0]

Expire ==
    /\ ~expired
    /\ expired' = TRUE
    /\ UNCHANGED <<stateVars, calls, held, owed, stranded>>
-----------------------------------------------------------------------------
(* The state a receipt leaves behind, given what it made of the fields:    *)
(* CleanupGuard closes an escrow that has expired, and starts its deletion *)
(* when it is closed and nothing is left in it or in flight.               *)
ShouldCleanupInFlight(c, src, dst, n) ==
    c /\ src = 0 /\ dst = 0 /\ expired
ShouldCleanup(c, src, dst, n) ==
    c /\ n = 0 /\ src = 0 /\ dst = 0 /\ expired

GuardedNotClosing(c, src, dst, n) ==
    /\ closed' = c
    /\ src_remaining' = src
    /\ dst_lost' = dst
    /\ in_flight' = n
    /\ alive' = ~ShouldCleanup(c, src, dst, n)
Guarded(c, src, dst, n) ==
    /\ closed' = (c \/ expired)
    /\ src_remaining' = src
    /\ dst_lost' = dst
    /\ in_flight' = n
    /\ alive' = ~ShouldCleanup(c \/ expired, src, dst, n)
-----------------------------------------------------------------------------
(* ft_transfer_call or mt_transfer_call of a token contract in favour of   *)
(* the escrow: the tokens move, and *_on_transfer is called.               *)
SendTokens(s, token, sender, n) ==
    /\ At(s, "idle")
    /\ held[token] + n <= MaxAmount
    /\ Goto(s, NewCall("on_transfer", token, sender, n, NoLegs))
    /\ held' = Move(held, token, n)
    /\ owed' = Move(owed, token, n)
    /\ UNCHANGED <<stateVars, expired, stranded>>

(* on_receive refuses all tokens once the escrow is closed.                *)
CanReceiveClosed == alive /\ ~expired
CanReceive == alive /\ ~closed /\ ~expired

(* fund: the maker adds src tokens.                                        *)
Fund(s) ==
    LET n == calls[s].amount
    IN  /\ At(s, "on_transfer")
        /\ CanReceive
        /\ calls[s].token = "src"
        /\ calls[s].sender = maker
        /\ src_remaining + n <= MaxAmount
        /\ Guarded(closed, src_remaining + n, dst_lost, in_flight)
        /\ owed' = Move(owed, "src", -n)
        /\ Finish(s)
        /\ UNCHANGED <<expired, held, stranded>>

(* u128 times a fraction, rounded down and up.                             *)
MulDiv(a, n, d) == (a * n) \div d
MulDivCeil(a, n, d) == (a * n + d - 1) \div d

(* taker_swap: the src tokens that `dst_in' buys at price p, and the dst   *)
(* tokens they cost.                                                       *)
TakerSwapFloor(dst_in, p) ==
    LET want == MulDiv(dst_in, Denominator, p)
    IN  IF want < src_remaining
        THEN [src_out |-> want, dst_used |-> dst_in]
        ELSE [src_out |-> src_remaining,
              dst_used |-> MulDiv(src_remaining, p, Denominator)]
TakerSwap(dst_in, p) ==
    LET want == MulDiv(dst_in, Denominator, p)
    IN  IF want < src_remaining
        THEN [src_out |-> want, dst_used |-> dst_in]
        ELSE [src_out |-> src_remaining,
              dst_used |-> MulDivCeil(src_remaining, p, Denominator)]

(* ProtocolFees::collect and the fee of the integrator.                    *)
CollectedFees(src_out, dst_used) ==
    LET maker_want == MulDiv(src_out, price, Denominator)
        over == IF dst_used > maker_want THEN dst_used - maker_want ELSE 0
    IN  MulDivCeil(dst_used, fee, MaxPips) + MulDivCeil(over, surplus, MaxPips)
          + MulDivCeil(dst_used, integrator_fee, MaxPips)

(* fill: a taker buys src tokens.  The payments to the maker, to the taker *)
(* and of the fees go out together; es_resolve_transfers is called when    *)
(* all of them have ended, and the token contract of dst then takes back   *)
(* what the fill did not use.                                              *)
Fill(s, p) ==
    LET n == calls[s].amount
        swap == TakerSwap(n, p)
        fees == CollectedFees(swap.src_out, swap.dst_used)
        legs == [NoLegs EXCEPT !["maker_dst"] = swap.dst_used - fees,
                               !["taker_src"] = swap.src_out,
                               !["fees"] = fees]
    IN  /\ At(s, "on_transfer")
        /\ CanReceive
        /\ calls[s].token = "dst"
        /\ taker_whitelist = {} \/ calls[s].sender \in taker_whitelist
        /\ p >= price
        /\ MulDiv(n, Denominator, p) <= MaxAmount
        /\ partial_fills_allowed
             \/ MulDiv(n, Denominator, p) >= src_remaining
        /\ swap.src_out > 0
        /\ swap.dst_used <= n
        /\ fees < swap.dst_used
        /\ Guarded(closed, src_remaining - swap.src_out, dst_lost, in_flight + 1)
        /\ Goto(s, NewCall("resolve", "dst", calls[s].sender,
                           n - swap.dst_used, legs))
        /\ owed' = Move(owed, "src", swap.src_out)
        /\ UNCHANGED <<expired, held, stranded>>

(* *_on_transfer panics: the message is malformed or on_receive refuses.   *)
OnTransferPanic(s) ==
    /\ At(s, "on_transfer")
    /\ Goto(s, [calls[s] EXCEPT !.step = "refund"])
    /\ UNCHANGED <<stateVars, expired, held, owed, stranded>>

(* The token contract takes back what *_on_transfer returned.              *)
Refund(s) ==
    LET c == calls[s]
    IN  /\ At(s, "refund")
        /\ held[c.token] >= c.amount
        /\ held' = Move(held, c.token, -c.amount)
        /\ owed' = Move(owed, c.token, -c.amount)
        /\ Finish(s)
        /\ UNCHANGED <<stateVars, expired, stranded>>
-----------------------------------------------------------------------------
(* lost_found, for an escrow that is closed if `c' is: sends what the      *)
(* maker is still to get, if there is anything.                            *)
LostFoundSends(s, c) ==
    LET src == IF c THEN src_remaining ELSE 0
        legs == [NoLegs EXCEPT !["maker_src"] = src, !["maker_dst"] = dst_lost]
    IN  /\ At(s, "idle")
        /\ src + dst_lost > 0
        /\ Goto(s, NewCall("resolve", "dst", maker, 0, legs))
        /\ Guarded(c, src_remaining - src, 0, in_flight + 1)
        /\ owed' = Move(Move(owed, "src", src), "dst", dst_lost)

LostFoundSendsNothing(c) ==
    /\ (IF c THEN src_remaining ELSE 0) + dst_lost = 0
    /\ Guarded(c, src_remaining, dst_lost, in_flight)
    /\ UNCHANGED <<calls, owed>>

(* es_lost_found.                                                          *)
LostFound(s) ==
    /\ alive
    /\ LostFoundSends(s, closed) \/ LostFoundSendsNothing(closed)
    /\ UNCHANGED <<expired, held, stranded>>

(* es_close, and on_auth with Action::Close: who may close it.             *)
MayClose(signer) ==
    \/ closed
    \/ expired
    \/ src_remaining = 0 /\ signer = maker
    \/ taker_whitelist = {signer}

Close(s, signer) ==
    /\ alive
    /\ MayClose(signer)
    /\ LostFoundSends(s, TRUE) \/ LostFoundSendsNothing(TRUE)
    /\ UNCHANGED <<expired, held, stranded>>
-----------------------------------------------------------------------------
(* How a transfer out of the escrow can end: *_transfer moves all or fails *)
(* and moves nothing; *_transfer_call leaves what the receiver did not     *)
(* want, or fails before or after the tokens have moved.  The transfers to *)
(* takers and fee collectors, of any kind, are not looked at.              *)
Outcomes(l, n) ==
    CASE l \notin MakerLegs -> {<<b, FALSE>> : b \in 0 .. n}
      [] l \in CallLegs     -> {<<b, FALSE>> : b \in 0 .. n}
                                  \cup {<<0, TRUE>>, <<n, TRUE>>}
      [] OTHER              -> {<<0, FALSE>>, <<n, TRUE>>}

TransferEnds(s, l, back, failed) ==
    LET c == calls[s]
        n == c.legs[l]
        t == TokenOf(l)
    IN  /\ At(s, "resolve")
        /\ l \in c.todo
        /\ <<back, failed>> \in Outcomes(l, n)
        /\ held[t] >= n - back
        /\ held' = Move(held, t, back - n)
        /\ Goto(s, [c EXCEPT !.todo = @ \ {l}, !.back[l] = back,
                             !.failed = IF failed THEN @ \cup {l} ELSE @])
        /\ \/ /\ l \in MakerLegs
              /\ owed' = Move(owed, t, back - n)
              /\ UNCHANGED stranded
           \/ /\ l \notin MakerLegs
              /\ owed' = Move(owed, t, -n)
              /\ stranded' = Move(stranded, t, back)
        /\ UNCHANGED <<stateVars, expired>>

(* Sent::resolve_used: no refund when a *_transfer_call failed.            *)
ResolveUsedOptimist(c, l) ==
    IF l \in c.failed THEN 0
    ELSE IF l \in CallLegs THEN c.legs[l] - c.back[l] ELSE c.legs[l]
ResolveUsedAlways(c, l) == c.legs[l]
ResolveUsed(c, l) ==
    IF l \in CallLegs
    THEN IF l \in c.failed THEN c.legs[l] ELSE c.legs[l] - c.back[l]
    ELSE IF l \in c.failed THEN 0 ELSE c.legs[l]

ResolveRefund(c, l) == c.legs[l] - ResolveUsed(c, l)
MakerBack(c, t) ==
    IF t = "src" THEN c.back["maker_src"] ELSE c.back["maker_dst"]
MakerLost(c, t) ==
    IF t = "src" THEN ResolveRefund(c, "maker_src") ELSE ResolveRefund(c, "maker_dst")

(* The checks that es_resolve_transfers unwraps.                           *)
CanResolve(c) ==
    /\ alive
    /\ in_flight > 0
    /\ src_remaining + MakerLost(c, "src") <= MaxAmount
    /\ dst_lost + MakerLost(c, "dst") <= MaxAmount

(* es_resolve_transfers: what the maker did not get is kept for the maker. *)
ResolveTransfers(s) ==
    LET c == calls[s]
    IN  /\ At(s, "resolve")
        /\ c.todo = {}
        /\ CanResolve(c)
        /\ Guarded(closed, src_remaining + MakerLost(c, "src"),
                   dst_lost + MakerLost(c, "dst"), in_flight - 1)
        /\ owed' = [t \in Tokens |-> owed[t] - MakerBack(c, t)]
        /\ stranded' = [t \in Tokens |->
                          stranded[t] + MakerBack(c, t) - MakerLost(c, t)]
        /\ Goto(s, IF c.amount > 0
                   THEN NewCall("refund", c.token, c.sender, c.amount, NoLegs)
                   ELSE Idle)
        /\ UNCHANGED <<expired, held>>
-----------------------------------------------------------------------------
Ends(s) ==
    \E l \in Legs, back \in Amounts, failed \in BOOLEAN :
        TransferEnds(s, l, back, failed)

(* The receipts of the call in slot s.                                     *)
Continue(s) ==
    \/ Fund(s)
    \/ \E p \in TakerPrices : Fill(s, p)
    \/ OnTransferPanic(s)
    \/ Refund(s)
    \/ Ends(s)
    \/ ResolveTransfers(s)

Next ==
    \/ Expire
    \/ \E s \in Slots :
        \/ \E t \in Tokens, a \in Senders, n \in Deposits : SendTokens(s, t, a, n)
        \/ Continue(s)
        \/ LostFound(s)
        \/ \E a \in Senders : Close(s, a)

Spec == Init /\ [][Next]_vars

(* Time passes; the runtime delivers every receipt; the maker keeps        *)
(* calling es_lost_found, and a transfer to the maker that is tried again  *)
(* and again succeeds some time.                                           *)
Delivered(s) == \E l \in Legs : TransferEnds(s, l, 0, FALSE)

Fairness ==
    /\ WF_vars(Expire)
    /\ SF_vars(\E s \in Slots : LostFound(s))
    /\ \A s \in Slots : WF_vars(Continue(s)) /\ SF_vars(Delivered(s))

FairSpec == Spec /\ Fairness
-----------------------------------------------------------------------------
(* What the escrow holds of the leg l, and of token t, for the call c.     *)
Unsettled(c, l) ==
    IF l \in c.todo THEN c.legs[l] ELSE IF l \in MakerLegs THEN c.back[l] ELSE 0
Pending(c, t) ==
    IF c.step = "idle" THEN 0
    ELSE (IF c.token = t THEN c.amount ELSE 0)
           + (IF t = "src" THEN Unsettled(c, "maker_src") + Unsettled(c, "taker_src")
              ELSE Unsettled(c, "maker_dst") + Unsettled(c, "fees"))
PendingOf(t) == [s \in Slots |-> Pending(calls[s], t)]

(* Of either token the escrow holds what its state says it owes the maker, *)
(* what it owes to calls in flight, and what came back from transfers that *)
(* the code gives up.                                                      *)
BooksBalance ==
    /\ held["src"] = src_remaining + owed["src"] + stranded["src"]
    /\ held["dst"] = dst_lost + owed["dst"] + stranded["dst"]
    /\ \A t \in Tokens : owed[t] >= 0 /\ stranded[t] >= 0

(* Solvency: the books balance, and what is owed to calls in flight is     *)
(* what they are about to move.                                            *)
Solvent ==
    /\ BooksBalance
    /\ \A t \in Tokens : owed[t] = SumOf(PendingOf(t), Slots)

(* in_flight counts the callbacks that are to come; so on_callback never   *)
(* meets an unregistered callback, and the escrow is never deleted under a *)
(* callback that would still bring tokens of the maker.                    *)
InFlightIsExact ==
    /\ in_flight = Cardinality({s \in Slots : At(s, "resolve")})
    /\ ~alive => in_flight = 0 /\ src_remaining = 0 /\ dst_lost = 0

(* es_resolve_transfers never panics: it would leave in_flight too large   *)
(* for ever, and the escrow with it.                                       *)
CallbacksNeverPanic ==
    \A s \in Slots : At(s, "resolve") /\ calls[s].todo = {} => CanResolve(calls[s])

(* Every callback of es_resolve_transfers is counted once and can run.     *)
CallbacksAreCounted == InFlightIsExact /\ CallbacksNeverPanic

(* A fill in flight pays at least the maker's price for the src tokens it  *)
(* buys, in whatever state the escrow was and however the amounts round,   *)
(* and its fees come out of that payment.                                  *)
FillsRespectPrice ==
    \A s \in Slots :
        LET c == calls[s]
        IN  At(s, "resolve") /\ c.legs["taker_src"] > 0 =>
              /\ (c.legs["maker_dst"] + c.legs["fees"]) * Denominator
                    >= c.legs["taker_src"] * price
              /\ c.legs["maker_dst"] > 0

IsFill(c) == c.step = "resolve" /\ c.legs["taker_src"] > 0

(* Closing is final: the escrow never opens again, and once it is closed   *)
(* or the deadline has passed no src token is sold; they only move between *)
(* the escrow and the maker.                                               *)
NoFillAfterClose ==
    [][/\ closed => closed'
       /\ closed \/ expired =>
             \A s \in Slots : IsFill(calls'[s]) => IsFill(calls[s])]_vars

(* Before the escrow is closed, no src token goes back to the maker: what  *)
(* takers can still buy is not withdrawn under them.                       *)
NoRefundBeforeClose ==
    [][\A s \in Slots :
          calls'[s].step = "resolve" /\ calls'[s].legs["maker_src"] > 0 => closed']_vars

(* es_close and the deadline separate fills from refunds: there is no fill *)
(* after the closing and no refund of src tokens before it.                *)
ClosingSeparates == NoFillAfterClose /\ NoRefundBeforeClose

(* Tokens of the maker are given up only when a *_transfer_call is         *)
(* reported as failed; other tokens, only when a transfer to a taker or a  *)
(* fee collector comes back.                                               *)
OnlyFailedCallsStrand ==
    [][\A t \in Tokens :
          stranded'[t] # stranded[t] =>
            \E s \in Slots, l \in Legs :
              /\ At(s, "resolve")
              /\ TokenOf(l) = t
              /\ \/ l \in CallLegs \cap calls[s].failed /\ calls[s].todo = {}
                 \/ /\ l \in calls[s].todo \ MakerLegs
                    /\ calls'[s].step = "resolve" /\ l \notin calls'[s].todo]_vars

(* The escrow is deleted in the end, when time passes and transfers to the *)
(* maker do not fail for ever.                                             *)
EventuallyDeleted == <>~alive

=============================================================================
