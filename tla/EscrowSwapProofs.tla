-------------------------- MODULE EscrowSwapProofs --------------------------
(***************************************************************************)
(* The escrow is solvent, its callbacks are counted and can always run,    *)
(* fills respect the price and closing is final, for any amounts, prices,  *)
(* fees, accounts and number of calls in flight.                           *)
(***************************************************************************)
EXTENDS EscrowSwapReceipts

(* How a transfer out of the escrow can end.                               *)
LEMMA OutcomeFacts ==
    ASSUME NEW l \in Legs, NEW n \in Nat, NEW back, NEW failed \in BOOLEAN,
           <<back, failed>> \in Outcomes(l, n)
    PROVE  /\ back \in Nat /\ back <= n
           /\ l \in MakerLegs \ CallLegs => back = IF failed THEN n ELSE 0
<1>1. ASSUME NEW b, NEW f, <<back, failed>> = <<b, f>>
      PROVE  back = b /\ failed = f
    <2>1. <<back, failed>>[1] = <<b, f>>[1] /\ <<back, failed>>[2] = <<b, f>>[2]
        BY <1>1, Zenon
    <2> QED
        BY <2>1, Zenon
<1>2. CASE l \notin MakerLegs \/ l \in CallLegs
    <2>1. \/ \E b \in 0 .. n : <<back, failed>> = <<b, FALSE>>
          \/ <<back, failed>> = <<0, TRUE>>
          \/ <<back, failed>> = <<n, TRUE>>
        BY <1>2, Zenon DEF Outcomes
    <2>2. \/ \E b \in 0 .. n : back = b
          \/ back = 0
          \/ back = n
        BY <1>1, <2>1, Zenon
    <2>3. back \in Nat /\ back <= n
        BY <2>2
    <2> QED
        BY <1>2, <2>3, EscrowAssumption, Zenon
<1>3. CASE l \in MakerLegs /\ l \notin CallLegs
    <2>1. \/ <<back, failed>> = <<0, FALSE>>
          \/ <<back, failed>> = <<n, TRUE>>
        BY <1>3, Zenon DEF Outcomes
    <2>2. \/ back = 0 /\ failed = FALSE
          \/ back = n /\ failed = TRUE
        BY <1>1, <2>1, Zenon
    <2> QED
        BY <2>2
<1> QED
    BY <1>2, <1>3, Zenon

(* The call after the transfer of its leg l has ended.                     *)
Ended(c, l, back, failed) ==
    [c EXCEPT !.todo = @ \ {l}, !.back[l] = back,
              !.failed = IF failed THEN @ \cup {l} ELSE @]

(* The call d is the call c with one more transfer ended, of whose leg it  *)
(* holds only `kept'.                                                      *)
EndsAs(c, d, l, kept) ==
    /\ d \in Call /\ d.step = "resolve" /\ d.legs = c.legs /\ CallOK(d)
    /\ \A t \in Tokens : Pending(d, t) =
           Pending(c, t) + (IF t = TokenOf(l) THEN kept - c.legs[l] ELSE 0)

(* What the maker gets back stays with the call.                           *)
LEMMA EndedFacts ==
    ASSUME NEW c \in Call, CallOK(c), c.step = "resolve", NEW l \in Legs, l \in c.todo,
           NEW back, NEW failed \in BOOLEAN, <<back, failed>> \in Outcomes(l, c.legs[l])
    PROVE  EndsAs(c, Ended(c, l, back, failed), l, IF l \in MakerLegs THEN back ELSE 0)
<1> DEFINE d == Ended(c, l, back, failed)
           kept == IF l \in MakerLegs THEN back ELSE 0
<1>1. /\ c.legs \in [Legs -> Amounts] /\ c.back \in [Legs -> Amounts]
      /\ c.amount \in Nat /\ MaxAmount \in Nat
      /\ \A k \in Legs : /\ c.legs[k] \in Nat /\ c.legs[k] <= MaxAmount
                         /\ c.back[k] \in Nat
    BY CallTypes, Zenon
<1>2. /\ back \in Nat /\ back <= c.legs[l] /\ back \in Amounts
      /\ l \in MakerLegs \ CallLegs => back = IF failed THEN c.legs[l] ELSE 0
    BY <1>1, OutcomeFacts, SMTT(30) DEF Amounts
<1>3. /\ d.step = "resolve" /\ d.legs = c.legs /\ d.token = c.token /\ d.amount = c.amount
      /\ d.sender = c.sender
      /\ d.todo = c.todo \ {l}
      /\ d.back = [c.back EXCEPT ![l] = back]
      /\ d.failed = IF failed THEN c.failed \cup {l} ELSE c.failed
    BY Zenon DEF Call, Ended
<1>4. d \in Call
    <2>1. /\ c.todo \subseteq Legs /\ c.failed \subseteq Legs
          /\ [c.back EXCEPT ![l] = back] \in [Legs -> Amounts]
        BY <1>1, <1>2, CallTypes, Zenon
    <2> QED
        BY <2>1, Zenon DEF Call, Ended
<1> HIDE DEF d
<1>5. d.back[l] = back /\ \A k \in Legs \ {l} : d.back[k] = c.back[k]
    BY <1>1, <1>3, Zenon
<1>6. \A k \in Legs : LegOK(c, k)
    BY Zenon DEF CallOK
<1>7. \A k \in Legs : LegOK(d, k)
    <2> TAKE k \in Legs
    <2>1. CASE k = l
        <3>1. l \notin c.failed
            BY <1>6, Zenon DEF LegOK
        <3>2. l \notin d.todo /\ (l \in d.failed <=> failed)
            BY <1>3, <3>1, Zenon
        <3> QED
            BY <1>2, <1>3, <1>5, <2>1, <3>2, Zenon DEF LegOK
    <2>2. CASE k # l
        <3>1. /\ d.back[k] = c.back[k] /\ d.legs[k] = c.legs[k]
              /\ (k \in d.todo <=> k \in c.todo) /\ (k \in d.failed <=> k \in c.failed)
            BY <1>3, <1>5, <2>2, Zenon
        <3> QED
            BY <1>6, <3>1, Zenon DEF LegOK
    <2> QED
        BY <2>1, <2>2, Zenon
<1>8. CallOK(d)
    BY <1>3, <1>7, Zenon DEF CallOK, PriceOK
<1>9. /\ Unsettled(d, l) = kept /\ Unsettled(c, l) = c.legs[l]
      /\ \A k \in Legs \ {l} : Unsettled(d, k) = Unsettled(c, k)
    BY <1>3, <1>5, Zenon DEF Unsettled
<1>10. kept \in Nat /\ \A k \in Legs : Unsettled(c, k) \in Nat
    BY <1>1, <1>2, Zenon DEF Unsettled
<1> HIDE DEF kept
<1>11. \A t \in Tokens : Pending(d, t) =
           Pending(c, t) + (IF t = TokenOf(l) THEN kept - c.legs[l] ELSE 0)
    <2> DEFINE a(t) == IF c.token = t THEN c.amount ELSE 0
    <2>1. /\ Pending(c, "src") = a("src") + (Unsettled(c, "maker_src") + Unsettled(c, "taker_src"))
          /\ Pending(c, "dst") = a("dst") + (Unsettled(c, "maker_dst") + Unsettled(c, "fees"))
          /\ Pending(d, "src") = a("src") + (Unsettled(d, "maker_src") + Unsettled(d, "taker_src"))
          /\ Pending(d, "dst") = a("dst") + (Unsettled(d, "maker_dst") + Unsettled(d, "fees"))
        BY <1>3, Zenon DEF Pending
    <2>2. a("src") \in Nat /\ a("dst") \in Nat
        BY <1>1, Zenon
    <2> HIDE DEF a
    <2>3. c.legs[l] \in Nat
        BY <1>1, Zenon
    <2>4. /\ Unsettled(c, "maker_src") \in Nat /\ Unsettled(c, "taker_src") \in Nat
          /\ Unsettled(c, "maker_dst") \in Nat /\ Unsettled(c, "fees") \in Nat
        BY <1>10, LegNames, Zenon
    <2>5. CASE l = "maker_src"
        <3>1. /\ Unsettled(d, "taker_src") = Unsettled(c, "taker_src")
              /\ Unsettled(d, "maker_dst") = Unsettled(c, "maker_dst")
              /\ Unsettled(d, "fees") = Unsettled(c, "fees")
            BY <1>9, <2>5, LegNames, Zenon
        <3> QED
            BY <1>9, <1>10, <2>1, <2>2, <2>3, <2>4, <2>5, <3>1, LegNames, SMTT(30)
    <2>6. CASE l = "taker_src"
        <3>1. /\ Unsettled(d, "maker_src") = Unsettled(c, "maker_src")
              /\ Unsettled(d, "maker_dst") = Unsettled(c, "maker_dst")
              /\ Unsettled(d, "fees") = Unsettled(c, "fees")
            BY <1>9, <2>6, LegNames, Zenon
        <3> QED
            BY <1>9, <1>10, <2>1, <2>2, <2>3, <2>4, <2>6, <3>1, LegNames, SMTT(30)
    <2>7. CASE l = "maker_dst"
        <3>1. /\ Unsettled(d, "maker_src") = Unsettled(c, "maker_src")
              /\ Unsettled(d, "taker_src") = Unsettled(c, "taker_src")
              /\ Unsettled(d, "fees") = Unsettled(c, "fees")
            BY <1>9, <2>7, LegNames, Zenon
        <3> QED
            BY <1>9, <1>10, <2>1, <2>2, <2>3, <2>4, <2>7, <3>1, LegNames, SMTT(30)
    <2>8. CASE l = "fees"
        <3>1. /\ Unsettled(d, "maker_src") = Unsettled(c, "maker_src")
              /\ Unsettled(d, "taker_src") = Unsettled(c, "taker_src")
              /\ Unsettled(d, "maker_dst") = Unsettled(c, "maker_dst")
            BY <1>9, <2>8, LegNames, Zenon
        <3> QED
            BY <1>9, <1>10, <2>1, <2>2, <2>3, <2>4, <2>8, <3>1, LegNames, SMTT(30)
    <2> QED
        BY <2>5, <2>6, <2>7, <2>8, LegNames, Zenon
<1> QED
    <2>1. EndsAs(c, d, l, kept)
        BY <1>3, <1>4, <1>8, <1>11, Zenon DEF EndsAs
    <2> QED
        BY <2>1, Zenon DEF d, kept

(* The transfer of one leg ends.                                           *)
LEMMA TransferEndsKeepsIInv ==
    ASSUME IInv, NEW s \in Slots, NEW l \in Legs, NEW back \in Amounts,
           NEW failed \in BOOLEAN, TransferEnds(s, l, back, failed)
    PROVE  IInv'
<1> DEFINE c == calls[s]
           n == c.legs[l]
           u == TokenOf(l)
           d == Ended(c, l, back, failed)
           kept == IF l \in MakerLegs THEN back ELSE 0
<1>0. c.step = "resolve" /\ c.step # "idle"
    BY Zenon DEF TransferEnds, At
<1>1. /\ TypeOK /\ CallOK(c) /\ c \in Call
      /\ src_remaining \in Amounts /\ dst_lost \in Amounts
      /\ src_remaining \in Nat /\ dst_lost \in Nat /\ in_flight \in Nat
      /\ MaxAmount \in Nat /\ expired \in BOOLEAN
      /\ held \in [Tokens -> Amounts] /\ owed \in [Tokens -> Int]
      /\ stranded \in [Tokens -> Int]
      /\ \A t \in Tokens : /\ held[t] \in Nat /\ held[t] <= MaxAmount
                           /\ owed[t] \in Int /\ stranded[t] \in Int
      /\ "src" \in Tokens /\ "dst" \in Tokens
    BY <1>0, InFlight, Zenon
<1>2. /\ l \in c.todo /\ <<back, failed>> \in Outcomes(l, n)
      /\ held[u] >= n - back
      /\ held' = Move(held, u, back - n)
      /\ calls' = [calls EXCEPT ![s] = d]
      /\ UNCHANGED stateVars /\ expired' = expired
    BY Zenon DEF TransferEnds, Goto, Ended
<1>3. n \in Nat /\ u \in Tokens
    BY <1>1, CallTypes, LegNames, Zenon DEF TokenOf
<1>4. back \in Nat /\ back <= n
    BY <1>2, <1>3, OutcomeFacts, Zenon
<1>5. kept \in Nat /\ back - kept \in Nat
    BY <1>4
<1>6. owed' = Move(owed, u, kept - n) /\ stranded' = Move(stranded, u, back - kept)
    <2>1. CASE l \in MakerLegs
        <3>1. owed' = Move(owed, u, back - n) /\ stranded' = stranded
            BY <2>1, Zenon DEF TransferEnds
        <3>2. Move(stranded, u, 0) = stranded
            BY <1>1, <1>3 DEF Move
        <3>3. back - kept = 0 /\ kept = back
            BY <1>4, <2>1
        <3> QED
            BY <3>1, <3>2, <3>3, Zenon
    <2>2. CASE l \notin MakerLegs
        <3>1. owed' = Move(owed, u, -n) /\ stranded' = Move(stranded, u, back)
            BY <2>2, Zenon DEF TransferEnds
        <3>2. back - kept = back /\ kept - n = -n
            BY <1>3, <1>4, <2>2
        <3> QED
            BY <3>1, <3>2, Zenon
    <2> QED
        BY <2>1, <2>2, Zenon
<1>7. /\ d \in Call /\ d.step = "resolve" /\ d.legs = c.legs /\ CallOK(d)
      /\ \A t \in Tokens : Pending(d, t) = Pending(c, t) + (IF t = u THEN kept - n ELSE 0)
    <2>1. EndsAs(c, d, l, kept)
        <3> HIDE DEF c
        <3> QED
            BY <1>0, <1>1, <1>2, EndedFacts, Zenon
    <2> HIDE DEF c, n, u, d, kept
    <2>2. TokenOf(l) = u /\ c.legs[l] = n
        BY Zenon DEF u, n
    <2> QED
        BY <2>1, <2>2, Zenon DEF EndsAs
<1>8. \A t \in Tokens : Pending(c, t) \in Int
    BY <1>1, PendingType
<1>9. d.legs["maker_src"] > 0 => closed'
    BY <1>0, <1>2, <1>7, Zenon DEF IInv, RefundsAreClosed, At, stateVars
<1> HIDE DEF n, u, d, kept
<1>10. /\ owed' \in [Tokens -> Int]
       /\ \A t \in Tokens : owed'[t] = owed[t] + (IF t = u THEN kept - n ELSE 0)
    BY <1>1, <1>3, <1>5, <1>6 DEF Move
<1>11. /\ stranded' \in [Tokens -> Int]
       /\ \A t \in Tokens : stranded'[t] = stranded[t] + (IF t = u THEN back - kept ELSE 0)
    BY <1>1, <1>3, <1>5, <1>6 DEF Move
<1>12. /\ held' \in [Tokens -> Amounts]
       /\ \A t \in Tokens : held'[t] = held[t] + (IF t = u THEN back - n ELSE 0)
    <2>1. held[u] + (back - n) \in Amounts
        BY <1>1, <1>2, <1>3, <1>4, SMTT(30) DEF Amounts
    <2> QED
        BY <1>1, <1>2, <1>3, <2>1, SMTT(30) DEF Move
<1>13. \A t \in Tokens : owed'[t] = owed[t] - Pending(c, t) + Pending(d, t)
    BY <1>1, <1>3, <1>5, <1>7, <1>8, <1>10, SMTT(30)
<1>14. \A t \in Tokens : stranded'[t] >= stranded[t]
    BY <1>1, <1>5, <1>11
<1>15. held'["src"] = held["src"] + (src_remaining - src_remaining)
           + (owed'["src"] - owed["src"]) + (stranded'["src"] - stranded["src"])
    BY <1>1, <1>3, <1>4, <1>5, <1>10, <1>11, <1>12
<1>16. held'["dst"] = held["dst"] + (dst_lost - dst_lost)
           + (owed'["dst"] - owed["dst"]) + (stranded'["dst"] - stranded["dst"])
    BY <1>1, <1>3, <1>4, <1>5, <1>10, <1>11, <1>12, SMTT(30)
<1>17. /\ Left(src_remaining, dst_lost) /\ (closed => closed')
       /\ in_flight' = in_flight - Counted(c) + Counted(d)
    BY <1>0, <1>2, <1>7, StateKept, SMTT(30) DEF Counted
<1>18. Receipt(s, d, src_remaining, dst_lost)
    BY <1>1, <1>2, <1>7, <1>9, <1>10, <1>11, <1>12, <1>13, <1>14, <1>15, <1>16, <1>17, Zenon
    DEF Receipt
<1> QED
    BY <1>1, <1>7, <1>18, ReceiptKeepsIInv, Zenon

(* When all transfers of a call have ended, it holds what its sender and   *)
(* the maker get back.  es_resolve_transfers never credits the maker with  *)
(* more than that.                                                         *)
LEMMA SettledFacts ==
    ASSUME NEW c \in Call, CallOK(c), c.step = "resolve", c.todo = {}, NEW t \in Tokens
    PROVE  /\ MakerBack(c, t) \in Nat /\ MakerLost(c, t) \in Nat
           /\ MakerLost(c, t) <= MakerBack(c, t)
           /\ Pending(c, t) = (IF c.token = t THEN c.amount ELSE 0) + MakerBack(c, t)
<1>1. ASSUME NEW l \in MakerLegs
      PROVE  /\ c.back[l] \in Nat /\ ResolveRefund(c, l) \in Nat
             /\ ResolveRefund(c, l) <= c.back[l]
             /\ Unsettled(c, l) = c.back[l]
    <2>1. l \in Legs /\ LegOK(c, l)
        BY LegNames, Zenon DEF CallOK
    <2>2. c.back[l] \in Nat /\ c.legs[l] \in Nat
        BY <2>1, CallTypes, Zenon
    <2>3. /\ c.back[l] <= c.legs[l]
          /\ l \notin CallLegs => c.back[l] = IF l \in c.failed THEN c.legs[l] ELSE 0
        BY <2>1, Zenon DEF LegOK
    <2>4. CASE l \in CallLegs
        BY <2>2, <2>3, <2>4, SMTT(30) DEF ResolveRefund, ResolveUsed, Unsettled
    <2>5. CASE l \notin CallLegs
        BY <2>2, <2>3, <2>5 DEF ResolveRefund, ResolveUsed, Unsettled
    <2> QED
        BY <2>4, <2>5, Zenon
<1>2. "maker_src" \in MakerLegs /\ "maker_dst" \in MakerLegs
    BY LegNames, Zenon
<1>3. Unsettled(c, "taker_src") = 0 /\ Unsettled(c, "fees") = 0
    BY LegNames, Zenon DEF Unsettled
<1>4. c.amount \in Nat /\ (t = "src" \/ t = "dst")
    BY CallTypes, LegNames, Zenon
<1> QED
    BY <1>1, <1>2, <1>3, <1>4, SMTT(30) DEF MakerBack, MakerLost, Pending

(* A call that only waits for its refund is about to move its amount.      *)
LEMMA RefundCall ==
    ASSUME NEW token \in Tokens, NEW sender \in Senders, NEW amount \in Amounts
    PROVE  LET c == NewCall("refund", token, sender, amount, NoLegs)
           IN  /\ c \in Call /\ CallOK(c) /\ c.step = "refund" /\ Counted(c) = 0
               /\ \A t \in Tokens : Pending(c, t) = IF token = t THEN amount ELSE 0
<1> DEFINE c == NewCall("refund", token, sender, amount, NoLegs)
<1>1. NoLegs \in [Legs -> Amounts] /\ \A l \in Legs : NoLegs[l] = 0
    BY NoLegsType, Zenon
<1>2. /\ c \in Call /\ c.step = "refund" /\ c.token = token /\ c.amount = amount
      /\ c.todo = {l \in Legs : NoLegs[l] > 0} /\ c.back = NoLegs
    BY <1>1, NewCalls, SMTT(30)
<1> HIDE DEF c
<1>3. c.todo = {}
    BY <1>1, <1>2, SMTT(30)
<1>4. CallOK(c)
    BY <1>2, <1>3, Zenon DEF CallOK
<1>5. \A t \in Tokens : Pending(c, t) = IF token = t THEN amount ELSE 0
    BY <1>2, <1>4, SimplePending, Zenon
<1>6. Counted(c) = 0
    BY <1>2, Zenon DEF Counted
<1> QED
    BY <1>2, <1>4, <1>5, <1>6, Zenon DEF c

(* es_resolve_transfers: what was owed to the call and not sent is the     *)
(* maker's again, or given up; the sender's part is still owed.            *)
LEMMA ResolveTransfersKeepsIInv ==
    ASSUME IInv, NEW s \in Slots, ResolveTransfers(s)
    PROVE  IInv'
<1> DEFINE c == calls[s]
           lost(t) == MakerLost(c, t)
           back(t) == MakerBack(c, t)
           src == src_remaining + lost("src")
           dst == dst_lost + lost("dst")
           d == IF c.amount > 0
                THEN NewCall("refund", c.token, c.sender, c.amount, NoLegs) ELSE Idle
<1>0. c.step = "resolve" /\ c.step # "idle"
    BY Zenon DEF ResolveTransfers, At
<1>1. /\ TypeOK /\ CallOK(c) /\ c \in Call
      /\ src_remaining \in Nat /\ dst_lost \in Nat /\ in_flight \in Nat
      /\ MaxAmount \in Nat /\ expired \in BOOLEAN /\ closed \in BOOLEAN
      /\ held \in [Tokens -> Amounts] /\ owed \in [Tokens -> Int]
      /\ stranded \in [Tokens -> Int]
      /\ \A t \in Tokens : /\ held[t] \in Nat
                           /\ owed[t] \in Int /\ stranded[t] \in Int
      /\ "src" \in Tokens /\ "dst" \in Tokens
    BY <1>0, InFlight, Zenon
<1>2. /\ c.todo = {} /\ src <= MaxAmount /\ dst <= MaxAmount
      /\ Guarded(closed, src, dst, in_flight - 1)
      /\ owed' = [t \in Tokens |-> owed[t] - back(t)]
      /\ stranded' = [t \in Tokens |-> stranded[t] + back(t) - lost(t)]
      /\ calls' = [calls EXCEPT ![s] = d]
      /\ expired' = expired /\ held' = held
    BY Zenon DEF ResolveTransfers, CanResolve, Goto
<1>3. \A t \in Tokens :
          /\ back(t) \in Nat /\ lost(t) \in Nat /\ lost(t) <= back(t)
          /\ Pending(c, t) = (IF c.token = t THEN c.amount ELSE 0) + back(t)
    BY <1>0, <1>1, <1>2, SettledFacts, Zenon
<1> HIDE DEF c, lost, back
<1>4. src \in Amounts /\ dst \in Amounts
    <2>1. lost("src") \in Nat /\ lost("dst") \in Nat
        BY <1>1, <1>3, Zenon
    <2> QED
        BY <1>1, <1>2, <2>1, SMTT(30) DEF Amounts
<1> HIDE DEF src, dst, d
<1>5. /\ d \in {Idle} \cup Call /\ CallOK(d) /\ d.step # "resolve" /\ Counted(d) = 0
      /\ \A t \in Tokens : Pending(d, t) = IF c.token = t THEN c.amount ELSE 0
    <2>1. c.amount \in Nat /\ c.amount \in Amounts /\ c.token \in Tokens /\ c.sender \in Senders
        BY <1>1, CallTypes, Zenon
    <2>2. CASE c.amount = 0
        <3>1. d = Idle
            BY <2>2 DEF d
        <3> QED
            BY <2>2, <3>1, IdleFacts, Zenon
    <2>3. CASE c.amount > 0
        <3>1. d = NewCall("refund", c.token, c.sender, c.amount, NoLegs)
            BY <2>3, Zenon DEF d
        <3> QED
            BY <2>1, <3>1, RefundCall
    <2> QED
        BY <2>1, <2>2, <2>3
<1>6. Counted(c) = 1
    BY <1>0, Zenon DEF Counted
<1>7. Left(src, dst) /\ in_flight' = in_flight - 1 /\ (closed => closed')
    BY <1>1, <1>2, GuardedLeaves, Zenon
<1>8. /\ owed' \in [Tokens -> Int] /\ stranded' \in [Tokens -> Int]
      /\ \A t \in Tokens : /\ owed'[t] = owed[t] - back(t)
                           /\ stranded'[t] = stranded[t] + back(t) - lost(t)
                           /\ stranded'[t] >= stranded[t]
    <2>1. \A t \in Tokens : /\ owed[t] \in Int /\ stranded[t] \in Int
                            /\ back(t) \in Nat /\ lost(t) \in Nat /\ lost(t) <= back(t)
        BY <1>1, <1>3, Zenon
    <2>2. owed' = [t \in Tokens |-> owed[t] - back(t)]
        BY <1>2, Zenon
    <2>3. stranded' = [t \in Tokens |-> stranded[t] + back(t) - lost(t)]
        BY <1>2, Zenon
    <2>4. owed' \in [Tokens -> Int] /\ \A t \in Tokens : owed'[t] = owed[t] - back(t)
        BY <2>1, <2>2
    <2>5. /\ stranded' \in [Tokens -> Int]
          /\ \A t \in Tokens : stranded'[t] = stranded[t] + back(t) - lost(t)
        BY <2>1, <2>3
    <2>6. \A t \in Tokens : stranded'[t] >= stranded[t]
        BY <2>1, <2>5
    <2> QED
        BY <2>4, <2>5, <2>6, Zenon
<1>9. \A t \in Tokens : owed'[t] = owed[t] - Pending(c, t) + Pending(d, t)
    <2>1. c.amount \in Nat
        BY <1>1, CallTypes, Zenon
    <2> TAKE t \in Tokens
    <2>2. owed[t] \in Int /\ back(t) \in Nat /\ owed'[t] = owed[t] - back(t)
        BY <1>1, <1>3, <1>8, Zenon
    <2>3. /\ Pending(c, t) = (IF c.token = t THEN c.amount ELSE 0) + back(t)
          /\ Pending(d, t) = IF c.token = t THEN c.amount ELSE 0
        BY <1>3, <1>5, Zenon
    <2> QED
        BY <2>1, <2>2, <2>3
<1>10. held'["src"] = held["src"] + (src - src_remaining)
           + (owed'["src"] - owed["src"]) + (stranded'["src"] - stranded["src"])
    <2>1. /\ held["src"] \in Nat /\ owed["src"] \in Int /\ stranded["src"] \in Int
          /\ back("src") \in Nat /\ lost("src") \in Nat /\ src_remaining \in Nat
        BY <1>1, <1>3, Zenon
    <2>2. /\ owed'["src"] = owed["src"] - back("src") /\ held' = held
          /\ stranded'["src"] = stranded["src"] + back("src") - lost("src")
        BY <1>1, <1>2, <1>8, Zenon
    <2> QED
        BY <2>1, <2>2 DEF src
<1>11. held'["dst"] = held["dst"] + (dst - dst_lost)
           + (owed'["dst"] - owed["dst"]) + (stranded'["dst"] - stranded["dst"])
    <2>1. /\ held["dst"] \in Nat /\ owed["dst"] \in Int /\ stranded["dst"] \in Int
          /\ back("dst") \in Nat /\ lost("dst") \in Nat /\ dst_lost \in Nat
        BY <1>1, <1>3, Zenon
    <2>2. /\ owed'["dst"] = owed["dst"] - back("dst") /\ held' = held
          /\ stranded'["dst"] = stranded["dst"] + back("dst") - lost("dst")
        BY <1>1, <1>2, <1>8, Zenon
    <2> QED
        BY <2>1, <2>2 DEF dst
<1>12. in_flight' = in_flight - Counted(c) + Counted(d)
    BY <1>1, <1>5, <1>6, <1>7, SMTT(30)
<1>13. Receipt(s, d, src, dst)
    BY <1>1, <1>2, <1>5, <1>7, <1>8, <1>9, <1>10, <1>11, <1>12, Zenon DEF Receipt, c
<1> QED
    BY <1>4, <1>5, <1>13, ReceiptKeepsIInv, Zenon
-----------------------------------------------------------------------------
(* A freshly deployed escrow satisfies the inductive invariant.            *)
LEMMA InitIInv == Init => IInv
<1> SUFFICES ASSUME Init PROVE IInv
    BY Zenon
<1> USE DEF Init
<1>1. Cardinality(Slots) \in Nat /\ 0 \in Amounts
    BY EscrowAssumption, FS_CardinalityType, NoLegsType, Zenon
<1>2. TypeOK
    <2>1. alive \in BOOLEAN /\ closed \in BOOLEAN /\ expired \in BOOLEAN
        BY Zenon
    <2>2. calls \in [Slots -> {Idle} \cup Call]
        BY Zenon
    <2>3. /\ held \in [Tokens -> Amounts] /\ owed \in [Tokens -> Int]
          /\ stranded \in [Tokens -> Int]
        BY <1>1
    <2>4. in_flight \in 0 .. Cardinality(Slots) /\ src_remaining \in Amounts
            /\ dst_lost \in Amounts
        BY <1>1
    <2> QED
        BY <2>1, <2>2, <2>3, <2>4, Zenon DEF TypeOK
<1>3. \A s \in Slots : calls[s] = Idle
    BY Zenon
<1>4. CallsInv
    <2>1. \A t \in Tokens : PendingOf(t) \in [Slots -> Nat] /\ \A s \in Slots : PendingOf(t)[s] = 0
        BY <1>3, IdleFacts DEF PendingOf
    <2>2. \A t \in Tokens : SumsTo(PendingOf(t), Slots, 0)
        BY <2>1, EscrowAssumption, SumOfZeros, Zenon
    <2> QED
        BY <1>3, <2>2, IdleFacts, Zenon DEF CallsInv
<1>5. BooksBalance
    BY LegNames DEF BooksBalance
<1>6. InFlightIsExact
    <2>1. {s \in Slots : At(s, "resolve")} = {}
        BY <1>3, IdleFacts, Zenon DEF At
    <2> QED
        BY <2>1, FS_EmptySet, Zenon DEF InFlightIsExact
<1>7. RefundsAreClosed
    BY <1>3, IdleFacts, Zenon DEF RefundsAreClosed, At
<1> QED
    BY <1>2, <1>4, <1>5, <1>6, <1>7, Zenon DEF IInv

(* Every receipt the escrow executes keeps the inductive invariant.        *)
LEMMA NextKeepsIInv == IInv /\ [Next]_vars => IInv'
<1> SUFFICES ASSUME IInv, [Next]_vars PROVE IInv'
    BY Zenon
<1>0. closed \in BOOLEAN
    BY Types, Zenon DEF IInv
<1>1. CASE Expire
    BY <1>1, ExpireKeepsIInv, Zenon
<1>2. ASSUME NEW s \in Slots, NEW t \in Tokens, NEW a \in Senders, NEW n \in Deposits,
             SendTokens(s, t, a, n)
      PROVE  IInv'
    BY <1>2, SendTokensKeepsIInv, Zenon
<1>3. ASSUME NEW s \in Slots, Continue(s)
      PROVE  IInv'
    <2>1. CASE Fund(s)
        BY <2>1, FundKeepsIInv, Zenon
    <2>2. CASE \E p \in TakerPrices : Fill(s, p)
        BY <2>2, FillKeepsIInv, Zenon
    <2>3. CASE OnTransferPanic(s)
        BY <2>3, OnTransferPanicKeepsIInv, Zenon
    <2>4. CASE Refund(s)
        BY <2>4, RefundKeepsIInv, Zenon
    <2>5. CASE Ends(s)
        BY <2>5, TransferEndsKeepsIInv, Zenon DEF Ends
    <2>6. CASE ResolveTransfers(s)
        BY <2>6, ResolveTransfersKeepsIInv, Zenon
    <2> QED
        BY <1>3, <2>1, <2>2, <2>3, <2>4, <2>5, <2>6, Zenon DEF Continue
<1>4. ASSUME NEW s \in Slots, LostFound(s)
      PROVE  IInv'
    <2>1. CASE LostFoundSends(s, closed)
        BY <1>0, <1>4, <2>1, LostFoundSendsKeepsIInv, Zenon DEF LostFound
    <2>2. CASE LostFoundSendsNothing(closed)
        BY <1>0, <1>4, <2>2, LostFoundSendsNothingKeepsIInv, Zenon DEF LostFound
    <2> QED
        BY <1>4, <2>1, <2>2, Zenon DEF LostFound
<1>5. ASSUME NEW s \in Slots, NEW a \in Senders, Close(s, a)
      PROVE  IInv'
    <2>1. CASE LostFoundSends(s, TRUE)
        BY <1>5, <2>1, LostFoundSendsKeepsIInv, Zenon DEF Close
    <2>2. CASE LostFoundSendsNothing(TRUE)
        BY <1>5, <2>2, LostFoundSendsNothingKeepsIInv, Zenon DEF Close
    <2> QED
        BY <1>5, <2>1, <2>2, Zenon DEF Close
<1>6. CASE UNCHANGED vars
    BY <1>6, Zenon DEF vars, stateVars, IInv, TypeOK, CallsInv, PendingOf, BooksBalance,
                InFlightIsExact, RefundsAreClosed, At
<1> QED
    BY <1>1, <1>2, <1>3, <1>4, <1>5, <1>6, Zenon DEF Next

(* The inductive invariant of the escrow holds in every state: types,      *)
(* well-formed calls, balanced books, an exact count of the callbacks      *)
(* under way, and no refund of the maker before the escrow is closed.      *)
THEOREM Invariance == Spec => []IInv
BY InitIInv, NextKeepsIInv, PTL DEF Spec

(* Every variable keeps its type: no amount leaves the range of a u128,    *)
(* and there are never more callbacks than calls.                          *)
THEOREM TypeCorrect == Spec => []TypeOK
<1>1. IInv => TypeOK
    BY Zenon DEF IInv
<1> QED
    BY <1>1, Invariance, PTL

(* The escrow holds what it owes, and owes what its calls in flight are    *)
(* about to move: see Solvent.                                             *)
THEOREM Solvency == Spec => []Solvent
<1>1. IInv => Solvent
    BY Zenon DEF IInv, CallsInv, SumsTo, Solvent
<1> QED
    BY <1>1, Invariance, PTL

(* es_resolve_transfers finds the escrow alive, its callback registered    *)
(* and room for what comes back: see CallbacksAreCounted.                  *)
THEOREM CallbacksRun == Spec => []CallbacksAreCounted
<1>1. ASSUME IInv, NEW s \in Slots, At(s, "resolve"), calls[s].todo = {}
      PROVE  CanResolve(calls[s])
    <2> DEFINE c == calls[s]
    <2>1. /\ TypeOK /\ CallsInv /\ CallOK(c) /\ c \in Call /\ c.step = "resolve"
          /\ src_remaining \in Nat /\ dst_lost \in Nat /\ in_flight \in Nat
          /\ MaxAmount \in Nat
          /\ \A t \in Tokens : /\ held[t] \in Nat /\ held[t] <= MaxAmount
                               /\ stranded[t] \in Int
          /\ "src" \in Tokens /\ "dst" \in Tokens
        BY <1>1, InFlight, Zenon DEF At
    <2>2. in_flight > 0
        <3> DEFINE R == {r \in Slots : At(r, "resolve")}
        <3>1. IsFiniteSet(R) /\ R # {}
            BY <1>1, EscrowAssumption, FS_Subset, Zenon
        <3>2. Cardinality(R) # 0
            BY <3>1, FS_EmptySet, Zenon
        <3> QED
            BY <1>1, <2>1, <3>2, SMTT(30) DEF IInv, InFlightIsExact
    <2>3. alive
        BY <1>1, <2>2 DEF IInv, InFlightIsExact
    <2>4. ASSUME NEW t \in Tokens
          PROVE  MakerLost(c, t) \in Nat /\ owed[t] \in Nat /\ MakerLost(c, t) <= owed[t]
        <3>1. /\ MakerBack(c, t) \in Nat /\ MakerLost(c, t) \in Nat
              /\ MakerLost(c, t) <= MakerBack(c, t)
              /\ Pending(c, t) = (IF c.token = t THEN c.amount ELSE 0) + MakerBack(c, t)
            BY <1>1, <2>1, SettledFacts, Zenon
        <3>2. c.amount \in Nat
            BY <2>1, CallTypes, Zenon
        <3>3. owed[t] \in Nat /\ Pending(c, t) <= owed[t]
            BY <2>1, PendingIsOwed, Zenon
        <3> QED
            BY <3>1, <3>2, <3>3
    <2>5. /\ held["src"] = src_remaining + owed["src"] + stranded["src"]
          /\ held["dst"] = dst_lost + owed["dst"] + stranded["dst"]
          /\ stranded["src"] >= 0 /\ stranded["dst"] >= 0
        BY <1>1, <2>1, Zenon DEF IInv, BooksBalance
    <2> HIDE DEF c
    <2>6. src_remaining + MakerLost(c, "src") <= MaxAmount
        BY <2>1, <2>4, <2>5
    <2>7. dst_lost + MakerLost(c, "dst") <= MaxAmount
        BY <2>1, <2>4, <2>5
    <2> QED
        BY <2>2, <2>3, <2>6, <2>7, Zenon DEF CanResolve, c
<1>2. IInv => CallbacksAreCounted
    BY <1>1, Zenon DEF IInv, CallbacksAreCounted, CallbacksNeverPanic
<1> QED
    BY <1>2, Invariance, PTL

(* Every fill pays the maker's price: see FillsRespectPrice.               *)
THEOREM MakersPrice == Spec => []FillsRespectPrice
<1>1. ASSUME IInv, NEW s \in Slots, At(s, "resolve"), calls[s].legs["taker_src"] > 0
      PROVE  PriceOK(calls[s])
    BY <1>1, Zenon DEF IInv, CallsInv, CallOK, At
<1>2. IInv => FillsRespectPrice
    BY <1>1, Zenon DEF FillsRespectPrice, PriceOK
<1> QED
    BY <1>2, Invariance, PTL
-----------------------------------------------------------------------------
(* What the steps do to the call of a slot: it goes on as it was, ends the *)
(* transfer of one leg, is a new fill of an open escrow, or does not send  *)
(* anything to a taker.                                                    *)
NoNewFill(s) == IsFill(calls'[s]) => IsFill(calls[s])

(* A step that replaces one call by one that is no fill makes no fill.     *)
LEMMA NotAFill ==
    ASSUME TypeOK, NEW s \in Slots, NEW c, calls' = [calls EXCEPT ![s] = c], ~IsFill(c)
    PROVE  \A r \in Slots : NoNewFill(r)
BY Zenon DEF TypeOK, NoNewFill

(* A closed escrow stays closed, and once it is closed or past its         *)
(* deadline no step starts a new fill.                                     *)
LEMMA StepsSeparate ==
    ASSUME IInv, [Next]_vars
    PROVE  /\ closed => closed'
           /\ closed \/ expired => \A s \in Slots : NoNewFill(s)
<1>0. TypeOK /\ closed \in BOOLEAN /\ expired \in BOOLEAN
    BY Types, Zenon DEF IInv
<1>1. CASE Expire \/ UNCHANGED vars
    BY <1>1 DEF Expire, vars, stateVars, NoNewFill
<1>2. ASSUME NEW s \in Slots, NEW t \in Tokens, NEW a \in Senders, NEW n \in Deposits,
             SendTokens(s, t, a, n)
      PROVE  (closed => closed') /\ \A r \in Slots : NoNewFill(r)
    <2>1. ~IsFill(NewCall("on_transfer", t, a, n, NoLegs))
        BY Zenon DEF IsFill, NewCall
    <2>2. closed' = closed /\ calls' = [calls EXCEPT ![s] = NewCall("on_transfer", t, a, n, NoLegs)]
        BY <1>2, Zenon DEF SendTokens, Goto, stateVars
    <2> QED
        BY <1>0, <2>1, <2>2, NotAFill, Zenon
<1>3. ASSUME NEW s \in Slots, Fund(s)
      PROVE  (closed => closed') /\ \A r \in Slots : NoNewFill(r)
    <2>1. closed' = (closed \/ expired) /\ calls' = [calls EXCEPT ![s] = Idle]
        BY <1>3, Zenon DEF Fund, Guarded, Finish, Goto
    <2> QED
        BY <1>0, <2>1, NotAFill, IdleFacts, Zenon DEF IsFill
<1>4. ASSUME NEW s \in Slots, NEW p \in TakerPrices, Fill(s, p)
      PROVE  ~closed /\ ~expired
    BY <1>4, Zenon DEF Fill, CanReceive
<1>5. ASSUME NEW s \in Slots, OnTransferPanic(s)
      PROVE  (closed => closed') /\ \A r \in Slots : NoNewFill(r)
    <2> DEFINE d == [calls[s] EXCEPT !.step = "refund"]
    <2>1. calls[s] \in Call
        BY <1>0, <1>5, InSlot, Zenon DEF OnTransferPanic, At
    <2>2. d.step = "refund"
        BY <2>1, Zenon DEF Call
    <2>3. closed' = closed /\ calls' = [calls EXCEPT ![s] = d]
        BY <1>5, Zenon DEF OnTransferPanic, Goto, stateVars
    <2> HIDE DEF d
    <2> QED
        BY <1>0, <2>2, <2>3, NotAFill, Zenon DEF IsFill
<1>6. ASSUME NEW s \in Slots, Refund(s)
      PROVE  (closed => closed') /\ \A r \in Slots : NoNewFill(r)
    <2>1. closed' = closed /\ calls' = [calls EXCEPT ![s] = Idle]
        BY <1>6, Zenon DEF Refund, Finish, Goto, stateVars
    <2> QED
        BY <1>0, <2>1, NotAFill, IdleFacts, Zenon DEF IsFill
<1>7. ASSUME NEW s \in Slots, NEW l \in Legs, NEW back \in Amounts, NEW failed \in BOOLEAN,
             TransferEnds(s, l, back, failed)
      PROVE  (closed => closed') /\ \A r \in Slots : NoNewFill(r)
    <2> DEFINE d == Ended(calls[s], l, back, failed)
    <2>1. closed' = closed /\ calls' = [calls EXCEPT ![s] = d] /\ calls[s].step = "resolve"
        BY <1>7, Zenon DEF TransferEnds, Goto, Ended, stateVars, At
    <2>2. calls[s] \in Call
        BY <1>0, <2>1, InSlot, Zenon
    <2>3. d.step = "resolve" /\ d.legs = calls[s].legs
        BY <2>1, <2>2, Zenon DEF Call, Ended
    <2> HIDE DEF d
    <2> QED
        BY <1>0, <2>1, <2>3, Zenon DEF NoNewFill, IsFill, TypeOK
<1>8. ASSUME NEW s \in Slots, ResolveTransfers(s)
      PROVE  (closed => closed') /\ \A r \in Slots : NoNewFill(r)
    <2> DEFINE d == IF calls[s].amount > 0
                    THEN NewCall("refund", calls[s].token, calls[s].sender,
                                 calls[s].amount, NoLegs)
                    ELSE Idle
    <2>1. closed' = (closed \/ expired) /\ calls' = [calls EXCEPT ![s] = d]
        BY <1>8, Zenon DEF ResolveTransfers, Guarded, Goto
    <2>2. ~IsFill(d)
        BY IdleFacts, Zenon DEF IsFill, NewCall
    <2> HIDE DEF d
    <2> QED
        BY <1>0, <2>1, <2>2, NotAFill, Zenon
<1>9. ASSUME NEW s \in Slots, NEW b \in BOOLEAN, closed => b,
             LostFoundSends(s, b) \/ LostFoundSendsNothing(b)
      PROVE  (closed => closed') /\ \A r \in Slots : NoNewFill(r)
    <2> DEFINE legs == [NoLegs EXCEPT !["maker_src"] = IF b THEN src_remaining ELSE 0,
                                      !["maker_dst"] = dst_lost]
               d == NewCall("resolve", "dst", maker, 0, legs)
    <2>1. closed' = (b \/ expired)
        BY <1>9, Zenon DEF LostFoundSends, LostFoundSendsNothing, Guarded
    <2>2. CASE LostFoundSends(s, b)
        <3>1. legs["taker_src"] = 0
            BY LegNames, NoLegsType, Zenon
        <3>2. ~IsFill(d)
            BY <3>1, SMTT(30) DEF IsFill, NewCall
        <3>3. calls' = [calls EXCEPT ![s] = d]
            BY <2>2, Zenon DEF LostFoundSends, Goto
        <3> HIDE DEF d
        <3> QED
            BY <1>0, <1>9, <2>1, <3>2, <3>3, NotAFill, Zenon
    <2>3. CASE LostFoundSendsNothing(b)
        <3>1. calls' = calls
            BY <2>3, Zenon DEF LostFoundSendsNothing
        <3> QED
            BY <1>9, <2>1, <3>1, Zenon DEF NoNewFill
    <2> QED
        BY <1>9, <2>2, <2>3, Zenon
<1>10. ASSUME NEW s \in Slots, LostFound(s) \/ \E a \in Senders : Close(s, a)
       PROVE  (closed => closed') /\ \A r \in Slots : NoNewFill(r)
    <2>1. \E b \in {closed, TRUE} : LostFoundSends(s, b) \/ LostFoundSendsNothing(b)
        BY <1>10, Zenon DEF LostFound, Close
    <2> QED
        BY <1>0, <1>9, <2>1, Zenon
<1> QED
    BY <1>1, <1>2, <1>3, <1>4, <1>5, <1>6, <1>7, <1>8, <1>10, Zenon DEF Next, Continue, Ends

(* The closing separates fills from refunds: see ClosingSeparates.         *)
THEOREM ClosingIsFinal == Spec => ClosingSeparates
<1>1. IInv /\ [Next]_vars =>
          [/\ closed => closed'
           /\ closed \/ expired =>
                 \A s \in Slots : IsFill(calls'[s]) => IsFill(calls[s])]_vars
    BY StepsSeparate, Zenon DEF NoNewFill
<1>2. IInv /\ IInv' /\ [Next]_vars =>
          [\A s \in Slots :
              calls'[s].step = "resolve" /\ calls'[s].legs["maker_src"] > 0 => closed']_vars
    BY Zenon DEF IInv, RefundsAreClosed, At
<1>3. Spec => NoFillAfterClose
    BY <1>1, Invariance, PTL DEF Spec, NoFillAfterClose
<1>4. Spec => NoRefundBeforeClose
    BY <1>2, Invariance, PTL DEF Spec, NoRefundBeforeClose
<1> QED
    BY <1>3, <1>4, Zenon DEF ClosingSeparates
-----------------------------------------------------------------------------
(* The step of a transfer that comes back, and of one that is reported as  *)
(* failed after its receiver was called.                                   *)
GivenUp(s, l) ==
    /\ At(s, "resolve")
    /\ \/ l \in CallLegs \cap calls[s].failed /\ calls[s].todo = {}
       \/ /\ l \in calls[s].todo \ MakerLegs
          /\ calls'[s].step = "resolve" /\ l \notin calls'[s].todo

(* The other steps leave `stranded' alone.                                 *)
LEMMA StrandingSteps ==
    ASSUME [Next]_vars, stranded' # stranded
    PROVE  \E s \in Slots :
               \/ \E l \in Legs, back \in Amounts, failed \in BOOLEAN :
                      TransferEnds(s, l, back, failed)
               \/ ResolveTransfers(s)
<1>1. Next
    BY Zenon DEF vars
<1>2. ~Expire
    BY Zenon DEF Expire
<1>3. ASSUME NEW s \in Slots
      PROVE  ~ \E t \in Tokens, a \in Senders, n \in Deposits : SendTokens(s, t, a, n)
    BY Zenon DEF SendTokens
<1>4. ASSUME NEW s \in Slots
      PROVE  ~LostFound(s) /\ ~ \E a \in Senders : Close(s, a)
    BY Zenon DEF LostFound, Close
<1>5. ASSUME NEW s \in Slots
      PROVE  ~Fund(s) /\ ~ \E p \in TakerPrices : Fill(s, p)
    BY Zenon DEF Fund, Fill
<1>6. ASSUME NEW s \in Slots
      PROVE  ~OnTransferPanic(s) /\ ~Refund(s)
    BY Zenon DEF OnTransferPanic, Refund
<1>7. PICK s \in Slots : Continue(s)
    BY <1>1, <1>2, <1>3, <1>4, Zenon DEF Next
<1>8. Ends(s) \/ ResolveTransfers(s)
    BY <1>5, <1>6, <1>7, Zenon DEF Continue
<1> QED
    BY <1>8, Zenon DEF Ends

(* Tokens are given up only where the code says so: see                    *)
(* OnlyFailedCallsStrand.                                                  *)
THEOREM Stranding == Spec => OnlyFailedCallsStrand
<1>1. ASSUME IInv, NEW s \in Slots, NEW l \in Legs, NEW back \in Amounts,
             NEW failed \in BOOLEAN, TransferEnds(s, l, back, failed),
             NEW t \in Tokens, stranded'[t] # stranded[t]
      PROVE  TokenOf(l) = t /\ GivenUp(s, l)
    <2> DEFINE d == Ended(calls[s], l, back, failed)
    <2>1. /\ calls[s].step = "resolve" /\ l \in calls[s].todo
          /\ calls' = [calls EXCEPT ![s] = d]
          /\ \/ l \in MakerLegs /\ stranded' = stranded
             \/ l \notin MakerLegs /\ stranded' = Move(stranded, TokenOf(l), back)
        BY <1>1, Zenon DEF TransferEnds, Goto, Ended, At
    <2>2. /\ TypeOK /\ calls[s] \in Call /\ stranded \in [Tokens -> Int]
        BY <1>1, <2>1, InFlight, Zenon
    <2>3. l \notin MakerLegs /\ TokenOf(l) = t
        BY <1>1, <2>1, <2>2, Zenon DEF Move
    <2>4. d.step = "resolve" /\ l \notin d.todo
        BY <2>1, <2>2, Zenon DEF Ended, Call
    <2> HIDE DEF d
    <2>5. calls'[s] = d
        BY <2>1, <2>2, Zenon DEF TypeOK
    <2> QED
        BY <2>1, <2>3, <2>4, <2>5, Zenon DEF GivenUp, At
<1>2. ASSUME IInv, NEW s \in Slots, ResolveTransfers(s),
             NEW t \in Tokens, stranded'[t] # stranded[t]
      PROVE  \E l \in Legs : TokenOf(l) = t /\ GivenUp(s, l)
    <2> DEFINE c == calls[s]
    <2>1. /\ c.step = "resolve" /\ c.todo = {}
          /\ stranded'[t] = stranded[t] + MakerBack(c, t) - MakerLost(c, t)
        BY <1>2, Zenon DEF ResolveTransfers, At
    <2>2. c \in Call /\ CallOK(c) /\ stranded[t] \in Int
        BY <1>2, <2>1, InFlight, Zenon
    <2>3. MakerBack(c, t) # MakerLost(c, t)
        <3>1. MakerBack(c, t) \in Nat /\ MakerLost(c, t) \in Nat
            BY <2>1, <2>2, SettledFacts, Zenon
        <3> QED
            BY <1>2, <2>1, <2>2, <3>1, SMTT(30)
    <2>4. PICK l \in MakerLegs : TokenOf(l) = t /\ c.back[l] # ResolveRefund(c, l)
        BY <2>3, LegNames, Zenon DEF MakerBack, MakerLost
    <2>5. l \in Legs /\ LegOK(c, l)
        BY <2>1, <2>2, <2>4, LegNames, Zenon DEF CallOK
    <2>6. c.back[l] \in Nat /\ c.legs[l] \in Nat
        BY <2>2, <2>5, CallTypes, Zenon
    <2>7. l \in CallLegs /\ l \in c.failed
        <3> HIDE DEF c
        <3>1. CASE l \in CallLegs
            BY <2>4, <2>6, <3>1, SMTT(30) DEF ResolveRefund, ResolveUsed
        <3>2. CASE l \notin CallLegs
            BY <2>1, <2>4, <2>5, <2>6, <3>2, SMTT(30) DEF ResolveRefund, ResolveUsed, LegOK
        <3> QED
            BY <3>1, <3>2, Zenon
    <2> QED
        BY <2>1, <2>4, <2>5, <2>7, Zenon DEF GivenUp, At
<1>3. ASSUME IInv, [Next]_vars, NEW t \in Tokens, stranded'[t] # stranded[t]
      PROVE  \E s \in Slots, l \in Legs : TokenOf(l) = t /\ GivenUp(s, l)
    <2>1. stranded' # stranded
        BY <1>3, Zenon
    <2>2. PICK s \in Slots :
              \/ \E l \in Legs, back \in Amounts, failed \in BOOLEAN :
                     TransferEnds(s, l, back, failed)
              \/ ResolveTransfers(s)
        BY <1>3, <2>1, StrandingSteps, Zenon
    <2>3. CASE ResolveTransfers(s)
        <3>1. \E l \in Legs : TokenOf(l) = t /\ GivenUp(s, l)
            BY <1>2, <1>3, <2>3, Zenon
        <3> QED
            BY <3>1, Zenon
    <2>4. CASE \E l \in Legs, back \in Amounts, failed \in BOOLEAN :
                   TransferEnds(s, l, back, failed)
        <3>1. PICK l \in Legs, back \in Amounts, failed \in BOOLEAN :
                  TransferEnds(s, l, back, failed)
            BY <2>4, Zenon
        <3>2. TokenOf(l) = t /\ GivenUp(s, l)
            BY <1>1, <1>3, <3>1, Zenon
        <3> QED
            BY <3>2, Zenon
    <2> QED
        BY <2>2, <2>3, <2>4, Zenon
<1>4. IInv /\ [Next]_vars =>
          [\A t \in Tokens :
              stranded'[t] # stranded[t] =>
                \E s \in Slots, l \in Legs :
                  /\ At(s, "resolve")
                  /\ TokenOf(l) = t
                  /\ \/ l \in CallLegs \cap calls[s].failed /\ calls[s].todo = {}
                     \/ /\ l \in calls[s].todo \ MakerLegs
                        /\ calls'[s].step = "resolve" /\ l \notin calls'[s].todo]_vars
    BY <1>3, Zenon DEF GivenUp
<1> QED
    BY <1>4, Invariance, PTL DEF Spec, OnlyFailedCallsStrand
=============================================================================
