------------------------- MODULE EscrowSwapReceipts -------------------------
(***************************************************************************)
(* The inductive invariant of the escrow, and the receipts that preserve   *)
(* it: a deposit, a fill, a refund, a panic, es_lost_found and es_close.   *)
(* EscrowSwapProofs adds the ends of transfers and the theorems.           *)
(*                                                                         *)
(* The inductive invariant has four parts: what a call in flight may look  *)
(* like and that `owed' is what the calls are about to move (CallsInv),    *)
(* that the books balance (BooksBalance), that callbacks are counted       *)
(* (InFlightIsExact), and that src tokens go back to the maker only when   *)
(* the escrow is closed (RefundsAreClosed).                                *)
(***************************************************************************)
EXTENDS EscrowSwap, Sums

(* A leg whose transfer has ended left nothing with the escrow, or failed  *)
(* and left everything, unless the receiver was called.                    *)
LegOK(c, l) ==
    /\ c.back[l] <= c.legs[l]
    /\ l \in c.todo => c.back[l] = 0 /\ l \notin c.failed
    /\ l \in MakerLegs \ CallLegs /\ l \notin c.todo =>
          c.back[l] = IF l \in c.failed THEN c.legs[l] ELSE 0

PriceOK(c) ==
    /\ (c.legs["maker_dst"] + c.legs["fees"]) * Denominator >= c.legs["taker_src"] * price
    /\ c.legs["maker_dst"] > 0

CallOK(c) ==
    /\ c.step \in {"on_transfer", "refund"} => c.todo = {} /\ c.back = NoLegs
    /\ c.step = "resolve" => /\ \A l \in Legs : LegOK(c, l)
                             /\ c.legs["taker_src"] > 0 => PriceOK(c)

CallsInv ==
    /\ \A s \in Slots : CallOK(calls[s])
    /\ \A t \in Tokens : owed[t] \in Nat /\ SumsTo(PendingOf(t), Slots, owed[t])

RefundsAreClosed ==
    \A s \in Slots : At(s, "resolve") /\ calls[s].legs["maker_src"] > 0 => closed

IInv == TypeOK /\ CallsInv /\ BooksBalance /\ InFlightIsExact /\ RefundsAreClosed
-----------------------------------------------------------------------------
(* The types of the variables, one by one.                                 *)
LEMMA Types ==
    ASSUME TypeOK
    PROVE  /\ MaxAmount \in Nat
           /\ alive \in BOOLEAN /\ closed \in BOOLEAN /\ expired \in BOOLEAN
           /\ src_remaining \in Nat /\ src_remaining <= MaxAmount
           /\ dst_lost \in Nat /\ dst_lost <= MaxAmount
           /\ in_flight \in Nat
           /\ held \in [Tokens -> Amounts]
           /\ \A t \in Tokens : held[t] \in Nat /\ held[t] <= MaxAmount
           /\ owed \in [Tokens -> Int] /\ stranded \in [Tokens -> Int]
           /\ \A t \in Tokens : owed[t] \in Int /\ stranded[t] \in Int
<1>1. MaxAmount \in Nat
    BY EscrowAssumption, Zenon
<1>2. in_flight \in Nat
    <2>1. Cardinality(Slots) \in Nat
        BY EscrowAssumption, FS_CardinalityType, Zenon
    <2> QED
        BY <2>1 DEF TypeOK
<1>3. \A t \in Tokens : held[t] \in Nat /\ held[t] <= MaxAmount
    BY <1>1 DEF TypeOK, Amounts
<1>4. alive \in BOOLEAN /\ closed \in BOOLEAN /\ expired \in BOOLEAN
    BY Zenon DEF TypeOK
<1>5. src_remaining \in Nat /\ src_remaining <= MaxAmount
    BY <1>1 DEF TypeOK, Amounts
<1>6. dst_lost \in Nat /\ dst_lost <= MaxAmount
    BY <1>1 DEF TypeOK, Amounts
<1> QED
    BY <1>1, <1>2, <1>3, <1>4, <1>5, <1>6, Zenon DEF TypeOK

(* A slot that is not idle has a call, whose amounts are numbers.          *)
LEMMA CallTypes ==
    ASSUME NEW c \in Call
    PROVE  /\ MaxAmount \in Nat
           /\ c.amount \in Nat /\ c.amount <= MaxAmount /\ c.amount \in Amounts
           /\ c.sender \in Senders /\ c.token \in Tokens
           /\ c.legs \in [Legs -> Amounts] /\ c.back \in [Legs -> Amounts]
           /\ c.todo \subseteq Legs /\ c.failed \subseteq Legs
           /\ c.step \in {"on_transfer", "resolve", "refund"}
           /\ \A l \in Legs : /\ c.legs[l] \in Nat /\ c.legs[l] <= MaxAmount
                              /\ c.back[l] \in Nat /\ c.back[l] <= MaxAmount
<1>1. MaxAmount \in Nat
    BY EscrowAssumption, Zenon
<1>2. /\ c.amount \in Amounts
      /\ c.sender \in Senders /\ c.token \in Tokens
      /\ c.legs \in [Legs -> Amounts] /\ c.back \in [Legs -> Amounts]
      /\ c.todo \subseteq Legs /\ c.failed \subseteq Legs
      /\ c.step \in {"on_transfer", "resolve", "refund"}
    BY Zenon DEF Call
<1>3. \A l \in Legs : c.legs[l] \in Amounts /\ c.back[l] \in Amounts
    BY <1>2, Zenon
<1>4. \A n \in Amounts : n \in Nat /\ n <= MaxAmount
    BY <1>1 DEF Amounts
<1> QED
    BY <1>1, <1>2, <1>3, <1>4, Zenon

(* A slot holds no call, or a well-typed one.                              *)
LEMMA InSlot ==
    ASSUME TypeOK, NEW s \in Slots
    PROVE  /\ calls[s] \in {Idle} \cup Call
           /\ calls[s].step # "idle" => calls[s] \in Call
<1>1. calls[s] \in {Idle} \cup Call
    BY Zenon DEF TypeOK
<1>2. Idle.step = "idle"
    BY Zenon DEF Idle
<1> QED
    BY <1>1, <1>2, Zenon

(* The legs by name.                                                       *)
LEMMA LegNames ==
    /\ Legs = {"maker_src", "maker_dst", "taker_src", "fees"}
    /\ MakerLegs = {"maker_src", "maker_dst"}
    /\ Tokens = {"src", "dst"}
    /\ TokenOf("maker_src") = "src" /\ TokenOf("taker_src") = "src"
    /\ TokenOf("maker_dst") = "dst" /\ TokenOf("fees") = "dst"
BY Zenon DEF Legs, MakerLegs, Tokens, TokenOf

(* What a call is about to move is a number.                               *)
LEMMA PendingType ==
    ASSUME NEW c \in {Idle} \cup Call, NEW t
    PROVE  Pending(c, t) \in Nat
<1>1. CASE c = Idle
    BY <1>1, Zenon DEF Pending, Idle
<1>2. CASE c \in Call
    <2>1. \A l \in Legs : Unsettled(c, l) \in Nat
        BY <1>2, CallTypes, Zenon DEF Unsettled
    <2>2. /\ Unsettled(c, "maker_src") \in Nat /\ Unsettled(c, "taker_src") \in Nat
          /\ Unsettled(c, "maker_dst") \in Nat /\ Unsettled(c, "fees") \in Nat
        BY <2>1, LegNames, Zenon
    <2>3. c.amount \in Nat
        BY <1>2, CallTypes, Zenon
    <2> QED
        BY <2>2, <2>3 DEF Pending
<1> QED
    BY <1>1, <1>2, Zenon

(* A new call is about to move what it was made of.                        *)
LEMMA NewCalls ==
    ASSUME NEW step \in {"on_transfer", "resolve", "refund"}, NEW token \in Tokens,
           NEW sender \in Senders, NEW amount \in Amounts, NEW legs \in [Legs -> Amounts]
    PROVE  LET c == NewCall(step, token, sender, amount, legs)
           IN  /\ c \in Call
               /\ c.step = step /\ c.legs = legs /\ c.token = token
               /\ c.amount = amount /\ c.sender = sender
               /\ c.todo = {l \in Legs : legs[l] > 0} /\ c.back = NoLegs /\ c.failed = {}
               /\ \A l \in Legs : LegOK(c, l)
               /\ Pending(c, "src") = (IF token = "src" THEN amount ELSE 0)
                                        + legs["maker_src"] + legs["taker_src"]
               /\ Pending(c, "dst") = (IF token = "dst" THEN amount ELSE 0)
                                        + legs["maker_dst"] + legs["fees"]
<1> DEFINE c == NewCall(step, token, sender, amount, legs)
<1>0. MaxAmount \in Nat /\ \A n \in Amounts : n \in Nat
    BY EscrowAssumption DEF Amounts
<1>1. NoLegs \in [Legs -> Amounts] /\ \A l \in Legs : NoLegs[l] = 0
    BY <1>0 DEF NoLegs, Amounts
<1>2. /\ c.step = step /\ c.legs = legs /\ c.token = token
      /\ c.amount = amount /\ c.sender = sender
      /\ c.todo = {l \in Legs : legs[l] > 0} /\ c.back = NoLegs /\ c.failed = {}
    BY Zenon DEF NewCall
<1>3. c \in Call
    BY <1>1, Zenon DEF NewCall, Call
<1>4. \A l \in Legs : legs[l] \in Nat
    BY <1>0, Zenon
<1> HIDE DEF c
<1>5. \A l \in Legs : LegOK(c, l)
    <2> TAKE l \in Legs
    <2>1. c.back[l] = 0 /\ legs[l] \in Nat /\ l \notin c.failed
        BY <1>1, <1>2, <1>4, Zenon
    <2>2. c.back[l] <= c.legs[l]
        BY <1>2, <2>1
    <2> QED
        BY <2>1, <2>2, Zenon DEF LegOK
<1>6. \A l \in Legs : Unsettled(c, l) = legs[l]
    <2> TAKE l \in Legs
    <2>1. CASE legs[l] > 0
        BY <1>2, <2>1, Zenon DEF Unsettled
    <2>2. CASE ~ (legs[l] > 0)
        <3>1. legs[l] = 0
            BY <1>4, <2>2
        <3>2. l \notin c.todo /\ c.back[l] = 0
            BY <1>1, <1>2, <2>2, Zenon
        <3> QED
            BY <3>1, <3>2, Zenon DEF Unsettled
    <2> QED
        BY <2>1, <2>2, Zenon
<1>7. /\ Unsettled(c, "maker_src") = legs["maker_src"] /\ legs["maker_src"] \in Nat
      /\ Unsettled(c, "taker_src") = legs["taker_src"] /\ legs["taker_src"] \in Nat
      /\ Unsettled(c, "maker_dst") = legs["maker_dst"] /\ legs["maker_dst"] \in Nat
      /\ Unsettled(c, "fees") = legs["fees"] /\ legs["fees"] \in Nat
    BY <1>4, <1>6, LegNames, Zenon
<1>8. c.step # "idle" /\ amount \in Nat
    BY <1>0, <1>2, Zenon
<1>9. Pending(c, "src") = (IF token = "src" THEN amount ELSE 0)
                            + legs["maker_src"] + legs["taker_src"]
    BY <1>2, <1>7, <1>8 DEF Pending
<1>10. Pending(c, "dst") = (IF token = "dst" THEN amount ELSE 0)
                             + legs["maker_dst"] + legs["fees"]
    BY <1>2, <1>7, <1>8 DEF Pending
<1> QED
    BY <1>2, <1>3, <1>5, <1>9, <1>10, Zenon DEF c
-----------------------------------------------------------------------------
(* A receipt that replaces one call and moves `owed' by the difference of  *)
(* what the two are about to move keeps `owed' their sum.                  *)
LEMMA CallMoves ==
    ASSUME TypeOK, CallsInv, NEW s \in Slots,
           NEW c \in {Idle} \cup Call, CallOK(c),
           calls' = [calls EXCEPT ![s] = c],
           \A t \in Tokens : owed'[t] = owed[t] - Pending(calls[s], t) + Pending(c, t)
    PROVE  /\ CallsInv'
           /\ calls' \in [Slots -> {Idle} \cup Call]
<1>1. calls' \in [Slots -> {Idle} \cup Call]
    BY Zenon DEF TypeOK
<1>2. \A r \in Slots : CallOK(calls'[r])
    BY Zenon DEF CallsInv, TypeOK
<1>3. \A r \in Slots : calls[r] \in {Idle} \cup Call /\ calls'[r] \in {Idle} \cup Call
    BY <1>1, Zenon DEF TypeOK
<1>4. ASSUME NEW t \in Tokens
      PROVE  owed'[t] \in Nat /\ SumsTo(PendingOf(t)', Slots, owed'[t])
    <2>1. \A r \in Slots : Pending(calls[r], t) \in Nat /\ Pending(calls'[r], t) \in Nat
        BY <1>3, PendingType, Zenon
    <2>2. PendingOf(t) \in [Slots -> Nat] /\ PendingOf(t)' \in [Slots -> Nat]
        BY <2>1, Zenon DEF PendingOf
    <2>3. PendingOf(t)[s] = Pending(calls[s], t) /\ PendingOf(t)'[s] = Pending(c, t)
        BY Zenon DEF PendingOf, TypeOK
    <2>4. \A r \in Slots \ {s} : PendingOf(t)'[r] = PendingOf(t)[r]
        BY Zenon DEF PendingOf, TypeOK
    <2>5. owed[t] \in Nat /\ SumsTo(PendingOf(t), Slots, owed[t])
        BY Zenon DEF CallsInv
    <2>6. Pending(c, t) \in Nat /\ Pending(calls[s], t) \in Nat
        BY <2>1, PendingType, Zenon
    <2>7. /\ PendingOf(t)[s] <= owed[t]
          /\ SumsTo(PendingOf(t)', Slots, owed[t] - PendingOf(t)[s] + Pending(c, t))
        BY <2>2, <2>3, <2>4, <2>5, <2>6, SumUpdate, Zenon
    <2> QED
        BY <2>3, <2>5, <2>6, <2>7
<1> QED
    BY <1>1, <1>2, <1>4, Zenon DEF CallsInv

(* What one call is about to move is owed.                                 *)
LEMMA PendingIsOwed ==
    ASSUME TypeOK, CallsInv, NEW s \in Slots, NEW t \in Tokens
    PROVE  Pending(calls[s], t) \in Nat /\ owed[t] \in Nat /\ Pending(calls[s], t) <= owed[t]
<1>1. \A r \in Slots : Pending(calls[r], t) \in Nat
    BY PendingType, Zenon DEF TypeOK
<1>2. PendingOf(t) \in [Slots -> Nat] /\ PendingOf(t)[s] = Pending(calls[s], t)
    BY <1>1, Zenon DEF PendingOf
<1>3. owed[t] \in Nat /\ SumsTo(PendingOf(t), Slots, owed[t])
    BY Zenon DEF CallsInv
<1>4. PendingOf(t)[s] <= owed[t]
    BY <1>2, <1>3, SumUpdate, Zenon
<1> QED
    BY <1>1, <1>2, <1>3, <1>4, Zenon

(* The callbacks that are to come.                                         *)
Resolving == {r \in Slots : At(r, "resolve")}
Counted(c) == IF c.step = "resolve" THEN 1 ELSE 0

(* When one call is replaced and in_flight changes by the callbacks it     *)
(* gains or loses, in_flight is still the number of callbacks under way.   *)
LEMMA CallbacksCounted ==
    ASSUME TypeOK, in_flight = Cardinality(Resolving), NEW s \in Slots, NEW c,
           calls' = [calls EXCEPT ![s] = c],
           in_flight' = in_flight - Counted(calls[s]) + Counted(c)
    PROVE  /\ in_flight' = Cardinality(Resolving')
           /\ in_flight' \in 0 .. Cardinality(Slots)
<1>1. IsFiniteSet(Slots) /\ Resolving \in SUBSET Slots /\ Resolving' \in SUBSET Slots
    BY EscrowAssumption, Zenon DEF Resolving
<1>2. IsFiniteSet(Resolving) /\ IsFiniteSet(Resolving')
    BY <1>1, FS_Subset, Zenon
<1>3. Cardinality(Resolving) \in Nat /\ Cardinality(Slots) \in Nat
    BY <1>1, <1>2, FS_CardinalityType, Zenon
<1>4. Resolving' = IF c.step = "resolve" THEN Resolving \cup {s} ELSE Resolving \ {s}
    BY Zenon DEF Resolving, At, TypeOK
<1>5. s \in Resolving <=> calls[s].step = "resolve"
    BY Zenon DEF Resolving, At
<1>6. in_flight' = Cardinality(Resolving')
    <2>1. Cardinality(Resolving \cup {s}) =
              IF s \in Resolving THEN Cardinality(Resolving) ELSE Cardinality(Resolving) + 1
        BY <1>2, FS_AddElement, Zenon
    <2>2. Cardinality(Resolving \ {s}) =
              IF s \in Resolving THEN Cardinality(Resolving) - 1 ELSE Cardinality(Resolving)
        BY <1>2, FS_RemoveElement, Zenon
    <2>3. CASE c.step = "resolve"
        BY <1>3, <1>4, <1>5, <2>1, <2>3 DEF Counted
    <2>4. CASE c.step # "resolve"
        BY <1>3, <1>4, <1>5, <2>2, <2>4 DEF Counted
    <2> QED
        BY <2>3, <2>4, Zenon
<1>7. Cardinality(Resolving') <= Cardinality(Slots) /\ Cardinality(Resolving') \in Nat
    BY <1>1, <1>2, FS_Subset, FS_CardinalityType, Zenon
<1> QED
    BY <1>3, <1>6, <1>7

(* What a receipt that ends in state <<c, src, dst, n>> leaves behind, the *)
(* effect of CleanupGuard.                                                 *)
Left(src, dst) ==
    /\ alive' \in BOOLEAN /\ closed' \in BOOLEAN
    /\ src_remaining' = src
    /\ dst_lost' = dst
    /\ ~alive' => in_flight' = 0 /\ src = 0 /\ dst = 0

(* What the guard around every method of the escrow leaves behind: the     *)
(* remaining amounts, the count of callbacks, and a closed escrow that     *)
(* stays closed.                                                           *)
LEMMA GuardedLeaves ==
    ASSUME TypeOK, NEW c \in BOOLEAN, NEW src, NEW dst, NEW n, Guarded(c, src, dst, n)
    PROVE  Left(src, dst) /\ in_flight' = n /\ (c => closed')
<1>1. expired \in BOOLEAN
    BY Types, Zenon
<1> QED
    BY <1>1, Zenon DEF Guarded, ShouldCleanup, Left

(* A step that replaces the call of one slot by c, and moves as much of    *)
(* each token as the books say.                                            *)
Receipt(s, c, src, dst) ==
    /\ calls' = [calls EXCEPT ![s] = c]
    /\ CallOK(c)
    /\ Left(src, dst)
    /\ expired' \in BOOLEAN
    /\ held' \in [Tokens -> Amounts]
    /\ owed' \in [Tokens -> Int]
    /\ stranded' \in [Tokens -> Int]
    /\ \A t \in Tokens : owed'[t] = owed[t] - Pending(calls[s], t) + Pending(c, t)
    /\ \A t \in Tokens : stranded'[t] >= stranded[t]
    /\ held'["src"] = held["src"] + (src - src_remaining)
           + (owed'["src"] - owed["src"]) + (stranded'["src"] - stranded["src"])
    /\ held'["dst"] = held["dst"] + (dst - dst_lost)
           + (owed'["dst"] - owed["dst"]) + (stranded'["dst"] - stranded["dst"])
    /\ in_flight' = in_flight - Counted(calls[s]) + Counted(c)
    /\ closed => closed'
    /\ c.step = "resolve" /\ c.legs["maker_src"] > 0 => closed'

(* Such a step keeps the invariant.                                        *)
LEMMA ReceiptKeepsIInv ==
    ASSUME IInv, NEW s \in Slots, NEW c \in {Idle} \cup Call,
           NEW src \in Amounts, NEW dst \in Amounts, Receipt(s, c, src, dst)
    PROVE  IInv'
<1> USE DEF IInv, Receipt
<1>1. CallsInv' /\ calls' \in [Slots -> {Idle} \cup Call]
    BY CallMoves, Zenon
<1>2. in_flight = Cardinality(Resolving)
    BY Zenon DEF InFlightIsExact, Resolving
<1>3. in_flight' = Cardinality(Resolving') /\ in_flight' \in 0 .. Cardinality(Slots)
    BY <1>2, CallbacksCounted, Zenon
<1>4. InFlightIsExact'
    BY <1>3, Zenon DEF InFlightIsExact, Resolving, Left
<1>5. TypeOK'
    BY <1>1, <1>3, Zenon DEF TypeOK, Left
<1>6. BooksBalance'
    <2>1. \A t \in Tokens : owed'[t] \in Nat
        BY <1>1, Zenon DEF CallsInv
    <2>2. \A t \in Tokens : stranded'[t] >= 0
        <3> TAKE t \in Tokens
        <3>1. stranded[t] >= 0 /\ stranded[t] \in Int /\ stranded'[t] \in Int
            BY Types, Zenon DEF BooksBalance
        <3> QED
            BY <3>1
    <2>3. "src" \in Tokens /\ "dst" \in Tokens
        BY LegNames, Zenon
    <2>4. /\ held["src"] = src_remaining + owed["src"] + stranded["src"]
          /\ held["dst"] = dst_lost + owed["dst"] + stranded["dst"]
        BY Zenon DEF BooksBalance
    <2>5. /\ src \in Int /\ dst \in Int /\ src_remaining \in Int /\ dst_lost \in Int
          /\ owed["src"] \in Int /\ owed["dst"] \in Int
          /\ owed'["src"] \in Int /\ owed'["dst"] \in Int
          /\ stranded["src"] \in Int /\ stranded["dst"] \in Int
          /\ stranded'["src"] \in Int /\ stranded'["dst"] \in Int
        BY <2>3, Types DEF Amounts
    <2>6. held'["src"] = src + owed'["src"] + stranded'["src"]
        BY <2>4, <2>5
    <2>7. held'["dst"] = dst + owed'["dst"] + stranded'["dst"]
        BY <2>4, <2>5
    <2> QED
        BY <2>1, <2>2, <2>6, <2>7 DEF BooksBalance, Left
<1>7. RefundsAreClosed'
    BY Zenon DEF RefundsAreClosed, At, TypeOK
<1> QED
    BY <1>1, <1>4, <1>5, <1>6, <1>7, Zenon

(* An empty slot is legal, awaits no callback and holds no token.          *)
LEMMA IdleFacts ==
    /\ Idle \in {Idle} \cup Call /\ CallOK(Idle) /\ Idle.step = "idle"
    /\ Counted(Idle) = 0 /\ \A t : Pending(Idle, t) = 0
BY Zenon DEF Idle, CallOK, Counted, Pending
-----------------------------------------------------------------------------
(* A call that has sent nothing on is about to move its amount.            *)
LEMMA SimplePending ==
    ASSUME NEW c \in Call, CallOK(c), c.step \in {"on_transfer", "refund"}, NEW t \in Tokens
    PROVE  Pending(c, t) = (IF c.token = t THEN c.amount ELSE 0) /\ Counted(c) = 0
<1>1. c.todo = {} /\ \A l \in Legs : c.back[l] = 0
    BY Zenon DEF CallOK, NoLegs
<1>2. \A l \in Legs : Unsettled(c, l) = 0
    BY <1>1, Zenon DEF Unsettled
<1>3. /\ Unsettled(c, "maker_src") = 0 /\ Unsettled(c, "taker_src") = 0
      /\ Unsettled(c, "maker_dst") = 0 /\ Unsettled(c, "fees") = 0
    BY <1>2, LegNames, Zenon
<1>4. c.amount \in Nat /\ c.step # "idle" /\ c.step # "resolve"
    BY CallTypes, Zenon
<1> QED
    BY <1>3, <1>4 DEF Pending, Counted

(* A receipt of a token contract leaves the state of the escrow alone.     *)
LEMMA StateKept ==
    ASSUME IInv, UNCHANGED stateVars
    PROVE  /\ Left(src_remaining, dst_lost)
           /\ src_remaining \in Amounts /\ dst_lost \in Amounts
           /\ in_flight' = in_flight /\ in_flight \in Nat
           /\ closed => closed'
<1>1. TypeOK
    BY Zenon DEF IInv
<1>2. alive \in BOOLEAN /\ closed \in BOOLEAN /\ in_flight \in Nat
    BY <1>1, Types, Zenon
<1>3. /\ alive' = alive /\ closed' = closed /\ in_flight' = in_flight
      /\ src_remaining' = src_remaining /\ dst_lost' = dst_lost
    BY Zenon DEF stateVars
<1>4. ~alive => in_flight = 0 /\ src_remaining = 0 /\ dst_lost = 0
    BY Zenon DEF IInv, InFlightIsExact
<1> QED
    BY <1>1, <1>2, <1>3, <1>4, Zenon DEF Left, TypeOK

(* A payment with no legs pays nothing.                                    *)
LEMMA NoLegsType ==
    /\ NoLegs \in [Legs -> Amounts]
    /\ \A l \in Legs : NoLegs[l] = 0
    /\ 0 \in Amounts
BY EscrowAssumption DEF NoLegs, Amounts

(* Tokens that arrive are owed to the call that brings them.               *)
LEMMA SendTokensKeepsIInv ==
    ASSUME IInv, NEW s \in Slots, NEW token \in Tokens, NEW sender \in Senders,
           NEW n \in Deposits, SendTokens(s, token, sender, n)
    PROVE  IInv'
<1> DEFINE c == NewCall("on_transfer", token, sender, n, NoLegs)
<1>1. TypeOK /\ CallsInv
    BY Zenon DEF IInv
<1>2. MaxAmount \in Nat /\ n \in Amounts /\ n \in Nat
    BY EscrowAssumption DEF Amounts
<1>3. /\ c \in Call /\ c.step = "on_transfer" /\ c.token = token /\ c.amount = n
      /\ c.todo = {l \in Legs : NoLegs[l] > 0} /\ c.back = NoLegs
    BY <1>2, NewCalls, NoLegsType, SMTT(30)
<1>4. calls' = [calls EXCEPT ![s] = c]
    BY Zenon DEF SendTokens, Goto
<1> HIDE DEF c
<1>5. CallOK(c)
    BY <1>3, NoLegsType DEF CallOK
<1>6. \A t \in Tokens : Pending(c, t) = (IF token = t THEN n ELSE 0) /\ Counted(c) = 0
    BY <1>3, <1>5, SimplePending, Zenon
<1>7. Counted(calls[s]) = 0 /\ \A t : Pending(calls[s], t) = 0
    BY Zenon DEF SendTokens, At, Pending, Counted
<1>8. /\ held' = Move(held, token, n) /\ owed' = Move(owed, token, n)
      /\ stranded' = stranded /\ expired' = expired /\ UNCHANGED stateVars
      /\ held[token] + n <= MaxAmount
    BY Zenon DEF SendTokens
<1>9. /\ held \in [Tokens -> Int] /\ owed \in [Tokens -> Int] /\ stranded \in [Tokens -> Int]
      /\ expired \in BOOLEAN
      /\ \A t \in Tokens : /\ held[t] \in Nat /\ held[t] <= MaxAmount
                           /\ owed[t] \in Int /\ stranded[t] \in Int
    BY <1>1, Types DEF Amounts
<1>10. /\ held' \in [Tokens -> Int] /\ owed' \in [Tokens -> Int]
       /\ \A t \in Tokens : /\ held'[t] = held[t] + (IF t = token THEN n ELSE 0)
                            /\ owed'[t] = owed[t] + (IF t = token THEN n ELSE 0)
    <2>1. /\ held' \in [Tokens -> Int]
          /\ \A t \in Tokens : held'[t] = held[t] + (IF t = token THEN n ELSE 0)
        BY <1>2, <1>8, <1>9 DEF Move
    <2>2. /\ owed' \in [Tokens -> Int]
          /\ \A t \in Tokens : owed'[t] = owed[t] + (IF t = token THEN n ELSE 0)
        BY <1>2, <1>8, <1>9 DEF Move
    <2> QED
        BY <2>1, <2>2, Zenon
<1>11. held' \in [Tokens -> Amounts]
    <2>1. \A t \in Tokens : held'[t] \in Amounts
        BY <1>2, <1>8, <1>9, <1>10 DEF Amounts
    <2> QED
        BY <1>10, <2>1, Zenon
<1>12. /\ Left(src_remaining, dst_lost) /\ in_flight' = in_flight - Counted(calls[s]) + Counted(c)
       /\ src_remaining \in Amounts /\ dst_lost \in Amounts /\ (closed => closed')
    BY <1>6, <1>7, <1>8, StateKept, LegNames
<1>13. \A t \in Tokens : owed'[t] = owed[t] - Pending(calls[s], t) + Pending(c, t)
    BY <1>2, <1>6, <1>7, <1>9, <1>10
<1>14. "src" \in Tokens /\ "dst" \in Tokens
    BY LegNames, Zenon
<1>15. src_remaining \in Int /\ dst_lost \in Int
    BY <1>1, Types
<1>16. held'["src"] = held["src"] + (src_remaining - src_remaining)
               + (owed'["src"] - owed["src"]) + (stranded'["src"] - stranded["src"])
    BY <1>2, <1>8, <1>9, <1>10, <1>14, <1>15
<1>17. held'["dst"] = held["dst"] + (dst_lost - dst_lost)
               + (owed'["dst"] - owed["dst"]) + (stranded'["dst"] - stranded["dst"])
    BY <1>2, <1>8, <1>9, <1>10, <1>14, <1>15
<1>18. \A t \in Tokens : stranded'[t] >= stranded[t]
    BY <1>8, <1>9, SMTT(30)
<1>19. Receipt(s, c, src_remaining, dst_lost)
    BY <1>3, <1>4, <1>5, <1>8, <1>9, <1>10, <1>11, <1>12, <1>13, <1>16, <1>17, <1>18, Zenon
    DEF Receipt
<1> QED
    BY <1>3, <1>12, <1>19, ReceiptKeepsIInv, Zenon

(* The facts about a call in flight that its receipts start from.          *)
LEMMA InFlight ==
    ASSUME IInv, NEW s \in Slots, calls[s].step # "idle"
    PROVE  /\ TypeOK /\ CallsInv /\ CallOK(calls[s]) /\ calls[s] \in Call
           /\ "src" \in Tokens /\ "dst" \in Tokens
           /\ MaxAmount \in Nat
           /\ src_remaining \in Nat /\ dst_lost \in Nat /\ in_flight \in Nat
           /\ src_remaining \in Amounts /\ dst_lost \in Amounts
           /\ held \in [Tokens -> Amounts]
           /\ owed \in [Tokens -> Int] /\ stranded \in [Tokens -> Int]
           /\ alive \in BOOLEAN /\ closed \in BOOLEAN /\ expired \in BOOLEAN
           /\ \A t \in Tokens : /\ held[t] \in Nat /\ held[t] <= MaxAmount
                                /\ owed[t] \in Int /\ stranded[t] \in Int
<1>1. TypeOK /\ CallsInv
    BY Zenon DEF IInv
<1>2. CallOK(calls[s]) /\ calls[s] \in Call
    BY <1>1, InSlot, Zenon DEF CallsInv
<1> QED
    BY <1>1, <1>2, Types, LegNames, Zenon DEF TypeOK

(* fund: what was owed to the call is the maker's.                         *)
LEMMA FundKeepsIInv ==
    ASSUME IInv, NEW s \in Slots, Fund(s)
    PROVE  IInv'
<1>0. At(s, "on_transfer") /\ calls[s].step = "on_transfer" /\ calls[s].step # "idle"
    BY Zenon DEF Fund, At
<1> USE InFlight, <1>0
<1> DEFINE n == calls[s].amount
           src == src_remaining + n
<1>1. n \in Nat
    BY CallTypes, Zenon
<1>2. \A t \in Tokens : /\ Pending(calls[s], t) = (IF calls[s].token = t THEN n ELSE 0)
                        /\ Counted(calls[s]) = 0
    BY SimplePending, Zenon
<1>3. /\ calls[s].token = "src" /\ src <= MaxAmount
      /\ Guarded(closed, src, dst_lost, in_flight)
      /\ owed' = Move(owed, "src", -n)
      /\ calls' = [calls EXCEPT ![s] = Idle]
      /\ expired' = expired /\ held' = held /\ stranded' = stranded
    BY Zenon DEF Fund, Finish, Goto
<1>4. src \in Amounts
    BY <1>1, <1>3 DEF Amounts
<1>5. Left(src, dst_lost) /\ in_flight' = in_flight /\ (closed => closed')
    BY <1>3, GuardedLeaves, Zenon
<1>6. /\ owed' \in [Tokens -> Int]
      /\ \A t \in Tokens : owed'[t] = owed[t] + (IF t = "src" THEN -n ELSE 0)
    BY <1>1, <1>3 DEF Move
<1>7. \A t \in Tokens : owed'[t] = owed[t] - Pending(calls[s], t) + Pending(Idle, t)
    BY <1>1, <1>2, <1>3, <1>6, IdleFacts
<1>8. held'["src"] = held["src"] + (src - src_remaining)
          + (owed'["src"] - owed["src"]) + (stranded'["src"] - stranded["src"])
    BY <1>1, <1>3, <1>6
<1>9. held'["dst"] = held["dst"] + (dst_lost - dst_lost)
          + (owed'["dst"] - owed["dst"]) + (stranded'["dst"] - stranded["dst"])
    BY <1>1, <1>3, <1>6
<1>10. in_flight' = in_flight - Counted(calls[s]) + Counted(Idle)
    BY <1>2, <1>5, IdleFacts
<1>11. \A t \in Tokens : stranded'[t] >= stranded[t]
    BY <1>3, SMTT(30)
<1> HIDE DEF src
<1>12. Receipt(s, Idle, src, dst_lost)
    BY <1>3, <1>5, <1>6, <1>7, <1>8, <1>9, <1>10, <1>11, IdleFacts, Zenon DEF Receipt
<1> QED
    BY <1>4, <1>12, IdleFacts, ReceiptKeepsIInv, Zenon

(* A receipt that panics leaves everything to the token contract.          *)
LEMMA OnTransferPanicKeepsIInv ==
    ASSUME IInv, NEW s \in Slots, OnTransferPanic(s)
    PROVE  IInv'
<1> DEFINE c == [calls[s] EXCEPT !.step = "refund"]
<1>0. calls[s].step = "on_transfer" /\ calls[s].step # "idle"
    BY Zenon DEF OnTransferPanic, At
<1> USE InFlight, <1>0
<1>1. /\ c \in Call /\ c.step = "refund"
      /\ c.token = calls[s].token /\ c.amount = calls[s].amount
      /\ c.todo = calls[s].todo /\ c.back = calls[s].back
    BY SMTT(30) DEF Call
<1>2. /\ calls' = [calls EXCEPT ![s] = c]
      /\ UNCHANGED stateVars
      /\ expired' = expired /\ held' = held /\ owed' = owed /\ stranded' = stranded
    BY Zenon DEF OnTransferPanic, Goto
<1> HIDE DEF c
<1>3. CallOK(c)
    BY <1>1, Zenon DEF CallOK
<1>4. \A t \in Tokens : /\ Pending(calls[s], t) = Pending(c, t) /\ Pending(c, t) \in Int
                        /\ Counted(calls[s]) = 0 /\ Counted(c) = 0
    BY <1>1, <1>3, SimplePending, CallTypes
<1>5. /\ Left(src_remaining, dst_lost) /\ in_flight' = in_flight - Counted(calls[s]) + Counted(c)
      /\ (closed => closed')
    BY <1>2, <1>4, StateKept
<1>6. \A t \in Tokens : /\ owed'[t] = owed[t] - Pending(calls[s], t) + Pending(c, t)
                        /\ stranded'[t] >= stranded[t]
    BY <1>2, <1>4
<1>7. Receipt(s, c, src_remaining, dst_lost)
    BY <1>1, <1>2, <1>3, <1>5, <1>6 DEF Receipt
<1> QED
    BY <1>1, <1>7, ReceiptKeepsIInv, Zenon

(* The token contract takes back what is owed to the call.                 *)
LEMMA RefundKeepsIInv ==
    ASSUME IInv, NEW s \in Slots, Refund(s)
    PROVE  IInv'
<1> DEFINE token == calls[s].token
           n == calls[s].amount
<1>0. calls[s].step = "refund" /\ calls[s].step # "idle"
    BY Zenon DEF Refund, At
<1> USE InFlight, <1>0
<1>1. n \in Nat /\ token \in Tokens
    BY CallTypes, Zenon
<1>2. \A t \in Tokens : /\ Pending(calls[s], t) = (IF token = t THEN n ELSE 0)
                        /\ Counted(calls[s]) = 0
    BY SimplePending, Zenon
<1>3. /\ held[token] >= n
      /\ held' = Move(held, token, -n) /\ owed' = Move(owed, token, -n)
      /\ calls' = [calls EXCEPT ![s] = Idle]
      /\ UNCHANGED stateVars /\ expired' = expired /\ stranded' = stranded
    BY Zenon DEF Refund, Finish, Goto
<1> HIDE DEF token, n
<1>4. /\ owed' \in [Tokens -> Int]
      /\ \A t \in Tokens : owed'[t] = owed[t] + (IF t = token THEN -n ELSE 0)
    BY <1>1, <1>3 DEF Move
<1>5. /\ held' \in [Tokens -> Amounts]
      /\ \A t \in Tokens : held'[t] = held[t] + (IF t = token THEN -n ELSE 0)
    <2>1. held[token] + -n \in Amounts
        BY <1>1, <1>3 DEF Amounts
    <2> QED
        BY <1>1, <1>3, <2>1 DEF Move
<1>6. \A t \in Tokens : /\ owed'[t] = owed[t] - Pending(calls[s], t) + Pending(Idle, t)
                        /\ stranded'[t] >= stranded[t]
    BY <1>1, <1>2, <1>3, <1>4, IdleFacts, SMTT(30)
<1>7. held'["src"] = held["src"] + (src_remaining - src_remaining)
          + (owed'["src"] - owed["src"]) + (stranded'["src"] - stranded["src"])
    BY <1>1, <1>3, <1>4, <1>5
<1>8. held'["dst"] = held["dst"] + (dst_lost - dst_lost)
          + (owed'["dst"] - owed["dst"]) + (stranded'["dst"] - stranded["dst"])
    BY <1>1, <1>3, <1>4, <1>5
<1>9. /\ Left(src_remaining, dst_lost) /\ (closed => closed')
      /\ in_flight' = in_flight - Counted(calls[s]) + Counted(Idle)
    BY <1>2, <1>3, StateKept, IdleFacts, SMTT(30)
<1>10. Receipt(s, Idle, src_remaining, dst_lost)
    BY <1>3, <1>4, <1>5, <1>6, <1>7, <1>8, <1>9, IdleFacts, Zenon DEF Receipt
<1> QED
    BY <1>10, IdleFacts, ReceiptKeepsIInv, Zenon

(* Time passes.                                                            *)
LEMMA ExpireKeepsIInv ==
    ASSUME IInv, Expire
    PROVE  IInv'
BY Zenon DEF IInv, Expire, stateVars, TypeOK, CallsInv, PendingOf, BooksBalance,
       InFlightIsExact, RefundsAreClosed, At
-----------------------------------------------------------------------------
(* Division rounds down, by less than one.                                 *)
LEMMA Division ==
    ASSUME NEW x \in Nat, NEW d \in Nat \ {0}
    PROVE  /\ x \div d \in Nat
           /\ (x \div d) * d <= x
           /\ x < (x \div d) * d + d
OBVIOUS

(* Products of numbers are numbers, and grow with their factors.           *)
LEMMA Products ==
    ASSUME NEW a \in Nat, NEW m \in Nat, NEW n \in Nat, m <= n
    PROVE  a * m \in Nat /\ a * n \in Nat /\ a * m <= a * n
OBVIOUS

(* Rounding up gives at least the quotient (fees and the last src tokens). *)
LEMMA RoundsUp ==
    ASSUME NEW a \in Nat, NEW n \in Nat, NEW d \in Nat \ {0}
    PROVE  MulDivCeil(a, n, d) \in Nat /\ a * n <= MulDivCeil(a, n, d) * d
<1> DEFINE x == a * n
           y == x + d - 1
<1>1. x \in Nat
    BY Products
<1> HIDE DEF x
<1>2. y \in Nat
    BY <1>1
<1> HIDE DEF y
<1>3. y \div d \in Nat /\ y < (y \div d) * d + d
    BY <1>2, Division, Zenon
<1> DEFINE q == y \div d
           z == q * d
<1>4. z \in Int
    BY <1>3
<1>5. q \in Nat /\ y < z + d
    BY <1>3, Zenon
<1> HIDE DEF q, z
<1>6. x <= z
    BY <1>1, <1>4, <1>5 DEF y
<1> QED
    BY <1>5, <1>6, Zenon DEF MulDivCeil, x, y, z, q

(* Rounding down gives at most the quotient (src tokens that dst buys).    *)
LEMMA RoundsDown ==
    ASSUME NEW a \in Nat, NEW n \in Nat, NEW d \in Nat \ {0}
    PROVE  MulDiv(a, n, d) \in Nat /\ MulDiv(a, n, d) * d <= a * n
<1> DEFINE x == a * n
<1>1. x \in Nat
    BY Products
<1> HIDE DEF x
<1>2. x \div d \in Nat /\ (x \div d) * d <= x
    BY <1>1, Division, Zenon
<1> QED
    BY <1>2, Zenon DEF MulDiv, x

(* taker_swap: no more src tokens than there are, for at least the maker's *)
(* price.                                                                  *)
LEMMA SwapRespectsPrice ==
    ASSUME src_remaining \in Nat, NEW n \in Nat, NEW p \in Nat, p >= price
    PROVE  LET swap == TakerSwap(n, p)
           IN  /\ swap.src_out \in Nat /\ swap.src_out <= src_remaining
               /\ swap.dst_used \in Nat
               /\ swap.src_out * price <= swap.dst_used * Denominator
<1> DEFINE want == MulDiv(n, Denominator, p)
           swap == TakerSwap(n, p)
<1>1. /\ Denominator \in Nat \ {0} /\ Denominator \in Nat
      /\ price \in Nat /\ price <= p /\ p \in Nat \ {0}
    BY EscrowAssumption
<1>2. want \in Nat /\ want * p <= n * Denominator
    BY <1>1, RoundsDown, Zenon
<1>3. CASE want < src_remaining
    <2>1. swap.src_out = want /\ swap.dst_used = n
        BY <1>3, Zenon DEF TakerSwap
    <2> HIDE DEF want, swap
    <2>2. want * price \in Nat /\ want * p \in Nat /\ want * price <= want * p
        BY <1>1, <1>2, Products, Zenon
    <2>3. n * Denominator \in Nat
        BY <1>1, Products
    <2>4. want * price <= n * Denominator
        <3> DEFINE u == want * price
                   v == want * p
                   w == n * Denominator
        <3>1. u \in Nat /\ v \in Nat /\ w \in Nat /\ u <= v /\ v <= w
            BY <1>2, <2>2, <2>3, Zenon
        <3> HIDE DEF u, v, w
        <3>2. u <= w
            BY <3>1
        <3> QED
            BY <3>2, Zenon DEF u, w
    <2>5. want <= src_remaining
        BY <1>2, <1>3
    <2>6. swap.src_out * price <= swap.dst_used * Denominator
        BY <2>1, <2>4, Zenon
    <2> QED
        BY <1>2, <2>1, <2>5, <2>6, Zenon DEF swap
<1>4. CASE ~ (want < src_remaining)
    <2> DEFINE cost == MulDivCeil(src_remaining, p, Denominator)
    <2>1. swap.src_out = src_remaining /\ swap.dst_used = cost
        BY <1>4, Zenon DEF TakerSwap
    <2>2. cost \in Nat /\ src_remaining * p <= cost * Denominator
        BY <1>1, RoundsUp, Zenon
    <2> HIDE DEF want, swap, cost
    <2>3. /\ src_remaining * price \in Nat /\ src_remaining * p \in Nat
          /\ src_remaining * price <= src_remaining * p
        BY <1>1, Products, Zenon
    <2>4. cost * Denominator \in Nat
        BY <1>1, <2>2, Products
    <2>5. src_remaining * price <= cost * Denominator
        <3> DEFINE u == src_remaining * price
                   v == src_remaining * p
                   w == cost * Denominator
        <3>1. u \in Nat /\ v \in Nat /\ w \in Nat /\ u <= v /\ v <= w
            BY <2>2, <2>3, <2>4, Zenon
        <3> HIDE DEF u, v, w
        <3>2. u <= w
            BY <3>1
        <3> QED
            BY <3>2, Zenon DEF u, w
    <2>6. swap.src_out * price <= swap.dst_used * Denominator
        BY <2>1, <2>5, Zenon
    <2> QED
        BY <2>1, <2>2, <2>6 DEF swap
<1> QED
    BY <1>3, <1>4, Zenon

(* Fees are numbers.                                                       *)
LEMMA FeesType ==
    ASSUME NEW src_out \in Nat, NEW dst_used \in Nat
    PROVE  CollectedFees(src_out, dst_used) \in Nat
<1> DEFINE want == MulDiv(src_out, price, Denominator)
           over == IF dst_used > want THEN dst_used - want ELSE 0
<1>1. /\ Denominator \in Nat \ {0} /\ MaxPips \in Nat \ {0} /\ price \in Nat
      /\ fee \in Nat /\ surplus \in Nat /\ integrator_fee \in Nat
    BY EscrowAssumption
<1>2. want \in Nat
    BY <1>1, RoundsDown, Zenon
<1> HIDE DEF want
<1>3. over \in Nat
    BY <1>2
<1> HIDE DEF over
<1>4. MulDivCeil(dst_used, fee, MaxPips) \in Nat
    BY <1>1, RoundsUp, Zenon
<1>5. MulDivCeil(over, surplus, MaxPips) \in Nat
    BY <1>1, <1>3, RoundsUp, Zenon
<1>6. MulDivCeil(dst_used, integrator_fee, MaxPips) \in Nat
    BY <1>1, RoundsUp, Zenon
<1> QED
    BY <1>4, <1>5, <1>6 DEF CollectedFees, over, want

(* fill: the src tokens that were the maker's are owed to the taker, the   *)
(* dst tokens to the maker, the fee collectors and the taker.              *)
LEMMA FillKeepsIInv ==
    ASSUME IInv, NEW s \in Slots, NEW p \in TakerPrices, Fill(s, p)
    PROVE  IInv'
<1>0. calls[s].step = "on_transfer" /\ calls[s].step # "idle"
    BY Zenon DEF Fill, At
<1> USE InFlight, <1>0
<1> DEFINE n == calls[s].amount
           taker == calls[s].sender
<1>1. n \in Nat /\ n <= MaxAmount /\ taker \in Senders
    BY CallTypes, Zenon
<1>2. \A t \in Tokens : /\ Pending(calls[s], t) = (IF calls[s].token = t THEN n ELSE 0)
                        /\ Counted(calls[s]) = 0
    BY SimplePending, Zenon
<1> DEFINE swap == TakerSwap(n, p)
           out == swap.src_out
           used == swap.dst_used
           fees == CollectedFees(out, used)
           legs == [NoLegs EXCEPT !["maker_dst"] = used - fees,
                                  !["taker_src"] = out,
                                  !["fees"] = fees]
           rest == n - used
           c == NewCall("resolve", "dst", taker, rest, legs)
           src == src_remaining - out
<1>3. /\ calls[s].token = "dst"
      /\ p >= price /\ out > 0 /\ used <= n /\ fees < used
      /\ Guarded(closed, src, dst_lost, in_flight + 1)
      /\ calls' = [calls EXCEPT ![s] = c]
      /\ owed' = Move(owed, "src", out)
      /\ expired' = expired /\ held' = held /\ stranded' = stranded
    BY SMTT(30) DEF Fill, Goto
<1>4. /\ out \in Nat /\ out <= src_remaining /\ used \in Nat
      /\ out * price <= used * Denominator
    <2>1. p \in Nat
        BY EscrowAssumption, Zenon
    <2> QED
        BY <1>1, <1>3, <2>1, SwapRespectsPrice, Zenon
<1> HIDE DEF n, swap, taker
<1>5. fees \in Nat
    BY <1>4, FeesType, Zenon
<1> HIDE DEF out, used, fees
<1>6. /\ out \in Amounts /\ used - fees \in Amounts /\ fees \in Amounts
      /\ rest \in Amounts /\ src \in Amounts /\ used - fees \in Nat
    <2>1. src_remaining <= MaxAmount
        BY Types, Zenon
    <2> QED
        BY <1>1, <1>3, <1>4, <1>5, <2>1 DEF Amounts
<1>7. /\ legs \in [Legs -> Amounts]
      /\ legs["maker_src"] = 0 /\ legs["taker_src"] = out
      /\ legs["maker_dst"] = used - fees /\ legs["fees"] = fees
    BY <1>6, NoLegsType, LegNames, Zenon
<1> HIDE DEF legs, src, rest
<1>8. /\ c \in Call /\ c.step = "resolve" /\ c.legs = legs
      /\ \A l \in Legs : LegOK(c, l)
      /\ Pending(c, "src") = 0 + legs["maker_src"] + legs["taker_src"]
      /\ Pending(c, "dst") = rest + legs["maker_dst"] + legs["fees"]
    <2> HIDE InFlight, <1>0
    <2>1. "dst" \in Tokens
        BY LegNames, Zenon
    <2> QED
        BY <1>1, <1>6, <1>7, <2>1, NewCalls, SMTT(30)
<1> HIDE DEF c
<1>9. Pending(c, "src") = out /\ Pending(c, "dst") = n
    BY <1>1, <1>4, <1>5, <1>7, <1>8, SMTT(30) DEF rest
<1>10. CallOK(c)
    <2>1. (used - fees) + fees = used /\ used - fees > 0
        BY <1>3, <1>4, <1>5
    <2>2. (c.legs["maker_dst"] + c.legs["fees"]) * Denominator >= c.legs["taker_src"] * price
        <3>1. c.legs["maker_dst"] + c.legs["fees"] = used /\ c.legs["taker_src"] = out
            BY <1>7, <1>8, <2>1, Zenon
        <3>2. used * Denominator \in Nat /\ out * price \in Nat
            BY <1>4, EscrowAssumption, Products
        <3>3. used * Denominator >= out * price
            <4> DEFINE u == out * price
                       v == used * Denominator
            <4>1. u \in Nat /\ v \in Nat /\ u <= v
                BY <1>4, <3>2, Zenon
            <4> HIDE DEF u, v
            <4>2. v >= u
                BY <4>1, Zenon
            <4> QED
                BY <4>2, Zenon DEF u, v
        <3> QED
            BY <3>1, <3>3, Zenon
    <2>3. c.legs["maker_dst"] > 0
        BY <1>7, <1>8, <2>1, Zenon
    <2> QED
        BY <1>8, <2>2, <2>3, Zenon DEF CallOK, PriceOK
<1>11. Left(src, dst_lost) /\ in_flight' = in_flight + 1 /\ (closed => closed')
    BY <1>3, GuardedLeaves, Zenon
<1>12. in_flight' = in_flight - Counted(calls[s]) + Counted(c)
    BY <1>2, <1>8, <1>11, SMTT(30) DEF Counted
<1>13. /\ owed' \in [Tokens -> Int]
       /\ owed'["src"] = owed["src"] + out /\ owed'["dst"] = owed["dst"]
    BY <1>3, <1>4 DEF Move
<1>14. \A t \in Tokens : owed'[t] = owed[t] - Pending(calls[s], t) + Pending(c, t)
    <2>1. owed'["src"] = owed["src"] - Pending(calls[s], "src") + Pending(c, "src")
        BY <1>1, <1>2, <1>3, <1>4, <1>9, <1>13, SMTT(30)
    <2>2. owed'["dst"] = owed["dst"] - Pending(calls[s], "dst") + Pending(c, "dst")
        BY <1>1, <1>2, <1>3, <1>9, <1>13, SMTT(30)
    <2> QED
        BY <2>1, <2>2, LegNames, Zenon
<1>15. held'["src"] = held["src"] + (src - src_remaining)
           + (owed'["src"] - owed["src"]) + (stranded'["src"] - stranded["src"])
    BY <1>3, <1>4, <1>13 DEF src
<1>16. held'["dst"] = held["dst"] + (dst_lost - dst_lost)
           + (owed'["dst"] - owed["dst"]) + (stranded'["dst"] - stranded["dst"])
    BY <1>3, <1>13
<1>17. \A t \in Tokens : stranded'[t] >= stranded[t]
    BY <1>3
<1>18. ~ (c.legs["maker_src"] > 0)
    BY <1>7, <1>8, SMTT(30)
<1>19. Receipt(s, c, src, dst_lost)
    BY <1>3, <1>10, <1>11, <1>12, <1>13, <1>14, <1>15, <1>16, <1>17, <1>18, Zenon
       DEF Receipt
<1> QED
    BY <1>6, <1>8, <1>19, ReceiptKeepsIInv, Zenon

(* lost_found, when it sends something: what was the maker's is owed to    *)
(* the call.                                                               *)
LEMMA LostFoundSendsKeepsIInv ==
    ASSUME IInv, NEW s \in Slots, NEW b \in BOOLEAN, closed => b, LostFoundSends(s, b),
           UNCHANGED <<expired, held, stranded>>
    PROVE  IInv'
<1> DEFINE sent == IF b THEN src_remaining ELSE 0
           legs == [NoLegs EXCEPT !["maker_src"] = sent, !["maker_dst"] = dst_lost]
           c == NewCall("resolve", "dst", maker, 0, legs)
           src == src_remaining - sent
<1>1. TypeOK /\ CallsInv
    BY Zenon DEF IInv
<1>2. /\ src_remaining \in Nat /\ dst_lost \in Nat /\ in_flight \in Nat
      /\ src_remaining \in Amounts /\ dst_lost \in Amounts /\ 0 \in Amounts
      /\ held \in [Tokens -> Amounts] /\ owed \in [Tokens -> Int]
      /\ stranded \in [Tokens -> Int] /\ expired \in BOOLEAN
      /\ \A t \in Tokens : held[t] \in Nat /\ owed[t] \in Int /\ stranded[t] \in Int
      /\ "src" \in Tokens /\ "dst" \in Tokens
    BY <1>1, Types, LegNames, NoLegsType, Zenon DEF TypeOK
<1>3. /\ calls[s].step = "idle"
      /\ calls' = [calls EXCEPT ![s] = c]
      /\ Guarded(b, src, 0, in_flight + 1)
      /\ owed' = Move(Move(owed, "src", sent), "dst", dst_lost)
      /\ expired' = expired /\ held' = held /\ stranded' = stranded
    BY Zenon DEF LostFoundSends, Goto, At
<1>4. sent \in Nat /\ sent \in Amounts /\ src \in Amounts /\ (sent > 0 => b)
    BY <1>2
<1> HIDE DEF sent
<1>5. /\ legs \in [Legs -> Amounts]
      /\ legs["maker_src"] = sent /\ legs["taker_src"] = 0
      /\ legs["maker_dst"] = dst_lost /\ legs["fees"] = 0
    BY <1>2, <1>4, NoLegsType, LegNames, Zenon
<1> HIDE DEF legs
<1>6. /\ c \in Call /\ c.step = "resolve" /\ c.legs = legs
      /\ \A l \in Legs : LegOK(c, l)
      /\ Pending(c, "src") = 0 + legs["maker_src"] + legs["taker_src"]
      /\ Pending(c, "dst") = 0 + legs["maker_dst"] + legs["fees"]
    BY <1>2, <1>5, EscrowAssumption, NewCalls, SMTT(30)
<1> HIDE DEF c, src
<1>7. Pending(c, "src") = sent /\ Pending(c, "dst") = dst_lost
    BY <1>2, <1>4, <1>5, <1>6, SMTT(30)
<1>8. Counted(calls[s]) = 0 /\ \A t : Pending(calls[s], t) = 0
    BY <1>3, Zenon DEF Pending, Counted
<1>9. CallOK(c)
    BY <1>5, <1>6, SMTT(30) DEF CallOK
<1>10. Left(src, 0) /\ in_flight' = in_flight + 1 /\ (b => closed')
    BY <1>1, <1>3, GuardedLeaves, Zenon
<1>11. in_flight' = in_flight - Counted(calls[s]) + Counted(c)
    BY <1>2, <1>6, <1>8, <1>10, SMTT(30) DEF Counted
<1>12. /\ owed' \in [Tokens -> Int]
       /\ owed'["src"] = owed["src"] + sent /\ owed'["dst"] = owed["dst"] + dst_lost
    BY <1>2, <1>3, <1>4 DEF Move
<1>13. \A t \in Tokens : owed'[t] = owed[t] - Pending(calls[s], t) + Pending(c, t)
    <2>1. owed'["src"] = owed["src"] - Pending(calls[s], "src") + Pending(c, "src")
        BY <1>2, <1>4, <1>7, <1>8, <1>12
    <2>2. owed'["dst"] = owed["dst"] - Pending(calls[s], "dst") + Pending(c, "dst")
        BY <1>2, <1>7, <1>8, <1>12
    <2> QED
        BY <2>1, <2>2, LegNames, Zenon
<1>14. held'["src"] = held["src"] + (src - src_remaining)
           + (owed'["src"] - owed["src"]) + (stranded'["src"] - stranded["src"])
    BY <1>2, <1>3, <1>4, <1>12 DEF src
<1>15. held'["dst"] = held["dst"] + (0 - dst_lost)
           + (owed'["dst"] - owed["dst"]) + (stranded'["dst"] - stranded["dst"])
    BY <1>2, <1>3, <1>12
<1>16. \A t \in Tokens : stranded'[t] >= stranded[t]
    BY <1>2, <1>3
<1>17. c.legs["maker_src"] > 0 => closed'
    BY <1>4, <1>5, <1>6, <1>10, Zenon
<1>18. Receipt(s, c, src, 0)
    BY <1>2, <1>3, <1>9, <1>10, <1>11, <1>12, <1>13, <1>14, <1>15, <1>16, <1>17, Zenon
    DEF Receipt
<1> QED
    BY <1>2, <1>4, <1>6, <1>18, ReceiptKeepsIInv, Zenon

(* lost_found, when there is nothing to send: only CleanupGuard acts.      *)
LEMMA LostFoundSendsNothingKeepsIInv ==
    ASSUME IInv, NEW s \in Slots, NEW b \in BOOLEAN, closed => b, LostFoundSendsNothing(b),
           UNCHANGED <<expired, held, stranded>>
    PROVE  IInv'
<1> DEFINE c == calls[s]
<1>1. TypeOK /\ CallsInv
    BY Zenon DEF IInv
<1>2. /\ src_remaining \in Amounts /\ dst_lost \in Amounts
      /\ src_remaining \in Nat /\ dst_lost \in Nat /\ in_flight \in Nat
      /\ held \in [Tokens -> Amounts] /\ owed \in [Tokens -> Int]
      /\ stranded \in [Tokens -> Int] /\ expired \in BOOLEAN
      /\ \A t \in Tokens : held[t] \in Nat /\ owed[t] \in Int /\ stranded[t] \in Int
      /\ "src" \in Tokens /\ "dst" \in Tokens
    BY <1>1, Types, LegNames, Zenon DEF TypeOK
<1>3. /\ Guarded(b, src_remaining, dst_lost, in_flight)
      /\ calls' = calls /\ owed' = owed
      /\ expired' = expired /\ held' = held /\ stranded' = stranded
    BY Zenon DEF LostFoundSendsNothing
<1>4. c \in {Idle} \cup Call /\ CallOK(c)
    BY <1>1, InSlot, Zenon DEF CallsInv
<1>5. calls' = [calls EXCEPT ![s] = c]
    BY <1>1, <1>3, Zenon DEF TypeOK
<1>6. Counted(c) \in Int /\ \A t \in Tokens : Pending(c, t) \in Int
    BY <1>4, PendingType DEF Counted
<1>7. Left(src_remaining, dst_lost) /\ in_flight' = in_flight /\ (b => closed')
    BY <1>1, <1>3, GuardedLeaves, Zenon
<1>8. c.step = "resolve" /\ c.legs["maker_src"] > 0 => closed'
    BY <1>7, Zenon DEF IInv, RefundsAreClosed, At
<1> HIDE DEF c
<1>9. /\ in_flight' = in_flight - Counted(c) + Counted(c)
      /\ \A t \in Tokens : /\ owed'[t] = owed[t] - Pending(c, t) + Pending(c, t)
                           /\ stranded'[t] >= stranded[t]
    BY <1>2, <1>3, <1>6, <1>7
<1>10. /\ held'["src"] = held["src"] + (src_remaining - src_remaining)
              + (owed'["src"] - owed["src"]) + (stranded'["src"] - stranded["src"])
       /\ held'["dst"] = held["dst"] + (dst_lost - dst_lost)
              + (owed'["dst"] - owed["dst"]) + (stranded'["dst"] - stranded["dst"])
    BY <1>2, <1>3, SMTT(30)
<1>11. Receipt(s, c, src_remaining, dst_lost)
    BY <1>2, <1>3, <1>4, <1>5, <1>7, <1>8, <1>9, <1>10, Zenon DEF Receipt, c
<1> QED
    BY <1>2, <1>4, <1>11, ReceiptKeepsIInv, Zenon
=============================================================================
