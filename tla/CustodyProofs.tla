--------------------------- MODULE CustodyProofs ----------------------------
(***************************************************************************)
(* Solvency of the Verifier, for any number of accounts, tokens and calls  *)
(* in flight and for amounts of any width.                                 *)
(*                                                                         *)
(* The inductive invariant has three parts: what the calls in flight may   *)
(* look like and that `owed' is what they are about to move (CallsInv),    *)
(* that a supply is the sum of the balances (LedgerInv), and that the      *)
(* tokens held are all accounted for (BooksInv).  A second one, PeersInv,  *)
(* says who pays for the refund of a deposit.                              *)
(***************************************************************************)
EXTENDS Custody, Sums

(* A token contract either keeps to its standard or does not.              *)
Unmixed(b) == OfHonestToken(b) \/ \A t \in Honest : b[t] = 0

CallOK(c) ==
    /\ c.step \in {"near_withdraw", "send", "receiver", "resolve_withdraw"} =>
          Unmixed(c.amounts)
    /\ c.step \in {"near_withdraw", "send"} => ~c.moved /\ c.status = "ok"
    /\ c.step = "receiver" => c.moved /\ c.is_call /\ c.status = "ok"
    /\ c.step = "resolve_withdraw" =>
          /\ ~c.moved => \/ c.status = "failed"
                         \/ \A t \in Honest : c.amounts[t] = 0
          /\ c.moved /\ c.is_call =>
                \/ c.status = "failed"
                \/ c.status = "ok" /\ AtMost(c.reported, c.amounts)
          /\ c.moved /\ ~c.is_call => c.status = "ok"

CallsInv ==
    /\ \A s \in Slots : CallOK(calls[s])
    /\ \A t \in Tokens : owed[t] \in Nat /\ SumsTo(PendingOf(t), Slots, owed[t])

LedgerInv ==
    /\ \A t \in Tokens : SumsTo(BalancesOf(t), Accounts, supplies[t])
    /\ \A t \in Nfts : supplies[t] <= 1

BooksInv ==
    /\ \A t \in Honest : /\ held[t] = supplies[t] + owed[t] + stranded[t]
                         /\ stranded[t] >= 0
    /\ \A t \in Honest \cap Nfts : held[t] <= 1

IInv == TypeOK /\ CallsInv /\ LedgerInv /\ BooksInv
-----------------------------------------------------------------------------
(* The types of the constants that most steps need.                        *)
LEMMA ConstantTypes ==
    /\ MaxAmount \in Nat
    /\ Nfts \subseteq Tokens
    /\ Honest \subseteq Tokens
    /\ wnear \in Honest
    /\ Reports \subseteq Amounts
BY CustodyAssumption, Zenon

(* An amount is a number, at most u128::MAX, of each token.                *)
LEMMA AmountsType ==
    ASSUME NEW f \in Amounts
    PROVE  /\ f \in [Tokens -> Nat]
           /\ \A t \in Tokens : f[t] \in Nat /\ f[t] <= MaxAmount
<1>1. \A t \in Tokens : f[t] \in 0 .. MaxAmount
    BY Zenon DEF Amounts
<1>2. \A t \in Tokens : f[t] \in Nat /\ f[t] <= MaxAmount
    BY <1>1, ConstantTypes
<1> QED
    BY <1>2, Zenon DEF Amounts

(* What a receiver can ask back is an amount.                              *)
LEMMA AnswersType ==
    ASSUME NEW r \in Answers
    PROVE  r \in Amounts
<1>1. CASE r \in Reports
    BY <1>1, ConstantTypes, Zenon
<1>2. CASE r = Everything
    BY <1>2, ConstantTypes DEF Everything, Amounts
<1> QED
    BY <1>1, <1>2, Zenon DEF Answers

(* The smaller of two amounts, of each token.                              *)
LEMMA LeastType ==
    ASSUME NEW f \in [Tokens -> Nat], NEW g \in [Tokens -> Nat]
    PROVE  /\ Least(f, g) \in [Tokens -> Nat]
           /\ AtMost(Least(f, g), f)
           /\ AtMost(Least(f, g), g)
           /\ g \in Amounts => Least(f, g) \in Amounts
<1>1. ASSUME NEW t \in Tokens
      PROVE  /\ Least(f, g)[t] \in Nat
             /\ Least(f, g)[t] <= f[t] /\ Least(f, g)[t] <= g[t]
    <2>1. f[t] \in Nat /\ g[t] \in Nat
        BY Zenon
    <2>2. Least(f, g)[t] = IF f[t] <= g[t] THEN f[t] ELSE g[t]
        BY Zenon DEF Least
    <2> QED
        BY <2>1, <2>2
<1>2. Least(f, g) \in [Tokens -> Nat]
    BY <1>1, Zenon DEF Least
<1>3. ASSUME g \in Amounts
      PROVE  Least(f, g) \in Amounts
    <2>1. \A t \in Tokens : Least(f, g)[t] \in 0 .. MaxAmount
        BY <1>1, <1>3, AmountsType, ConstantTypes
    <2> QED
        BY <1>2, <2>1, Zenon DEF Amounts
<1> QED
    BY <1>1, <1>2, <1>3, Zenon DEF AtMost

(* What a call is about to move is a number of each token.                 *)
LEMMA PendingType ==
    ASSUME NEW c \in {Idle} \cup Call, CallOK(c)
    PROVE  Pending(c) \in [Tokens -> Nat]
<1>1. CASE c = Idle
    BY <1>1, Zenon DEF Pending, Idle, Zero
<1>2. CASE c \in Call
    <2> USE <1>2, CustodyAssumption
    <2>1. c.amounts \in [Tokens -> Nat] /\ c.storage \in Nat
          /\ c.reported \in [Tokens -> Nat]
        BY DEF Call, Amounts
    <2>2. Real(c.amounts) \in [Tokens -> Nat]
        BY <2>1, Zenon DEF Real
    <2>3. Only(wnear, c.storage) \in [Tokens -> Nat]
        BY <2>1, Zenon DEF Only
    <2>4. Plus(Real(c.amounts), Only(wnear, c.storage)) \in [Tokens -> Nat]
        BY <2>2, <2>3 DEF Plus
    <2>5. Zero \in [Tokens -> Nat]
        BY Zenon DEF Zero
    <2>6. c.step = "resolve_withdraw" => Unsent(c) \in [Tokens -> Nat]
        <3> SUFFICES ASSUME c.step = "resolve_withdraw", c.moved,
                            c.is_call, c.status = "ok"
                     PROVE  Real(Minus(c.amounts, c.reported)) \in [Tokens -> Nat]
            BY <2>2, <2>5, Zenon DEF Unsent
        <3>1. AtMost(c.reported, c.amounts)
            BY Zenon DEF CallOK
        <3> QED
            BY <2>1, <3>1 DEF Real, Minus, AtMost
    <2> QED
        BY <2>2, <2>3, <2>4, <2>5, <2>6, Zenon DEF Pending
<1> QED
    BY <1>1, <1>2, Zenon

(* A receipt that replaces one call and moves `owed' by the difference of  *)
(* what the two are about to move keeps `owed' their sum.                  *)
LEMMA CallMoves ==
    ASSUME TypeOK, CallsInv, NEW s \in Slots,
           NEW c \in {Idle} \cup Call, CallOK(c),
           calls' = [calls EXCEPT ![s] = c],
           owed' \in [Tokens -> Int],
           \A t \in Tokens :
               owed'[t] = owed[t] - Pending(calls[s])[t] + Pending(c)[t]
    PROVE  /\ CallsInv'
           /\ calls' \in [Slots -> {Idle} \cup Call]
           /\ \A t \in Tokens : Pending(calls[s])[t] <= owed[t]
<1>1. calls' \in [Slots -> {Idle} \cup Call]
    BY Zenon DEF TypeOK
<1>2. \A r \in Slots : CallOK(calls'[r])
    BY Zenon DEF CallsInv, TypeOK
<1>3. \A r \in Slots : /\ Pending(calls[r]) \in [Tokens -> Nat]
                       /\ Pending(calls'[r]) \in [Tokens -> Nat]
    BY <1>1, <1>2, PendingType, Zenon DEF CallsInv, TypeOK
<1>4. Pending(c) \in [Tokens -> Nat]
    BY PendingType, Zenon
<1>5. ASSUME NEW t \in Tokens
      PROVE  /\ Pending(calls[s])[t] <= owed[t]
             /\ owed'[t] \in Nat
             /\ SumsTo(PendingOf(t)', Slots, owed'[t])
    <2>1. PendingOf(t) \in [Slots -> Nat] /\ PendingOf(t)' \in [Slots -> Nat]
        BY <1>3, Zenon DEF PendingOf
    <2>2. /\ PendingOf(t)[s] = Pending(calls[s])[t]
          /\ PendingOf(t)'[s] = Pending(c)[t]
        BY Zenon DEF PendingOf, TypeOK
    <2>3. \A r \in Slots \ {s} : PendingOf(t)'[r] = PendingOf(t)[r]
        BY Zenon DEF PendingOf, TypeOK
    <2>4. owed[t] \in Nat /\ SumsTo(PendingOf(t), Slots, owed[t])
        BY Zenon DEF CallsInv
    <2>5. Pending(c)[t] \in Nat /\ Pending(calls[s])[t] \in Nat
        BY <1>3, <1>4, Zenon
    <2>6. /\ PendingOf(t)[s] <= owed[t]
          /\ SumsTo(PendingOf(t)', Slots,
                    owed[t] - PendingOf(t)[s] + Pending(c)[t])
        BY <2>1, <2>2, <2>3, <2>4, <2>5, SumUpdate, Zenon
    <2> QED
        BY <2>2, <2>4, <2>5, <2>6
<1> QED
    BY <1>1, <1>2, <1>5, Zenon DEF CallsInv

(* Crediting or debiting one account together with the supply.             *)
LEMMA OneBalanceMoves ==
    ASSUME TypeOK, LedgerInv, NEW a \in Accounts,
           balances' \in [Accounts -> Amounts],
           \A x \in Accounts \ {a} : balances'[x] = balances[x],
           \A t \in Tokens :
               supplies'[t] = supplies[t] - balances[a][t] + balances'[a][t]
    PROVE  \A t \in Tokens : /\ balances[a][t] <= supplies[t]
                             /\ SumsTo(BalancesOf(t)', Accounts, supplies'[t])
<1> TAKE t \in Tokens
<1>1. /\ BalancesOf(t) \in [Accounts -> Nat]
      /\ BalancesOf(t)' \in [Accounts -> Nat]
      /\ BalancesOf(t)[a] = balances[a][t]
      /\ BalancesOf(t)'[a] = balances'[a][t]
      /\ \A x \in Accounts \ {a} : BalancesOf(t)'[x] = BalancesOf(t)[x]
    BY DEF BalancesOf, TypeOK, Amounts
<1>2. supplies[t] \in Nat /\ balances'[a][t] \in Nat
    BY DEF TypeOK, Amounts
<1> QED
    BY <1>1, <1>2, SumUpdate DEF LedgerInv

(* A transfer subtracts from one balance and adds to another, which can be *)
(* the same.                                                               *)
LEMMA TransferType ==
    ASSUME NEW bal \in [Accounts -> [Tokens -> Nat]],
           NEW p \in Accounts, NEW q \in Accounts,
           NEW b \in [Tokens -> Nat], AtMost(b, bal[p])
    PROVE  /\ Transferred(bal, p, q, b) \in [Accounts -> [Tokens -> Nat]]
           /\ \A a \in Accounts, t \in Tokens :
                 Transferred(bal, p, q, b)[a][t] =
                     bal[a][t] - (IF a = p THEN b[t] ELSE 0)
                               + (IF a = q THEN b[t] ELSE 0)
<1> DEFINE d == [bal EXCEPT ![p] = Minus(bal[p], b)]
<1>1. Minus(bal[p], b) \in [Tokens -> Nat]
    BY DEF Minus, AtMost
<1>2. d \in [Accounts -> [Tokens -> Nat]]
    BY <1>1, Zenon
<1>3. \A a \in Accounts, t \in Tokens :
          d[a][t] = bal[a][t] - (IF a = p THEN b[t] ELSE 0)
    BY <1>1 DEF Minus
<1> HIDE DEF d
<1>4. Plus(d[q], b) \in [Tokens -> Nat]
    BY <1>2 DEF Plus
<1>5. Transferred(bal, p, q, b) = [d EXCEPT ![q] = Plus(d[q], b)]
    BY Zenon DEF Transferred, d
<1>6. Transferred(bal, p, q, b) \in [Accounts -> [Tokens -> Nat]]
    BY <1>2, <1>4, <1>5, Zenon
<1>7. \A a \in Accounts, t \in Tokens :
          Transferred(bal, p, q, b)[a][t] = d[a][t] + (IF a = q THEN b[t] ELSE 0)
    BY <1>2, <1>5 DEF Plus
<1> QED
    BY <1>3, <1>6, <1>7

(* Contract::deposit keeps the ledger consistent.                          *)
LEMMA DepositKeepsLedger ==
    ASSUME TypeOK, LedgerInv, NEW a \in Accounts, NEW b \in [Tokens -> Nat],
           Deposit(a, b)
    PROVE  /\ balances' \in [Accounts -> Amounts]
           /\ supplies' \in Amounts
           /\ \A t \in Tokens : supplies'[t] = supplies[t] + b[t]
           /\ LedgerInv'
<1> USE CustodyAssumption
<1>1. \A t \in Tokens : /\ supplies[t] \in 0 .. MaxAmount
                        /\ balances[a][t] \in 0 .. MaxAmount
                        /\ supplies[t] + b[t] \in 0 .. MaxAmount
                        /\ balances[a][t] + b[t] \in 0 .. MaxAmount
    BY DEF TypeOK, Amounts, Deposit, CanDeposit
<1>2. /\ supplies' = [t \in Tokens |-> supplies[t] + b[t]]
      /\ balances' = [balances EXCEPT
                        ![a] = [t \in Tokens |-> balances[a][t] + b[t]]]
    BY Zenon DEF Deposit, Plus
<1>3. supplies' \in Amounts /\ \A t \in Tokens : supplies'[t] = supplies[t] + b[t]
    BY <1>1, <1>2, Zenon DEF Amounts
<1>4. [t \in Tokens |-> balances[a][t] + b[t]] \in Amounts
    BY <1>1, Zenon DEF Amounts
<1>5. balances' \in [Accounts -> Amounts]
    BY <1>2, <1>4, Zenon DEF TypeOK
<1>6. \A t \in Tokens :
          supplies'[t] = supplies[t] - balances[a][t] + balances'[a][t]
    BY <1>1, <1>2 DEF TypeOK
<1>7. \A x \in Accounts \ {a} : balances'[x] = balances[x]
    BY <1>2, Zenon DEF TypeOK
<1>8. \A t \in Tokens : SumsTo(BalancesOf(t)', Accounts, supplies'[t])
    BY <1>5, <1>6, <1>7, OneBalanceMoves, Zenon
<1>9. \A t \in Nfts : supplies'[t] <= 1
    BY <1>1, <1>3 DEF Deposit, CanDeposit, LedgerInv
<1> QED
    BY <1>3, <1>5, <1>8, <1>9, Zenon DEF LedgerInv

(* So does burning, in Contract::withdraw and resolve_deposit_internal;    *)
(* and a balance never exceeds the supply.                                 *)
LEMMA BurnKeepsLedger ==
    ASSUME TypeOK, LedgerInv, NEW a \in Accounts, NEW b \in [Tokens -> Nat],
           CanBurn(a, b),
           balances' = [balances EXCEPT ![a] = Minus(@, b)],
           supplies' = Minus(supplies, b)
    PROVE  /\ balances' \in [Accounts -> Amounts]
           /\ supplies' \in Amounts
           /\ \A t \in Tokens : supplies'[t] = supplies[t] - b[t]
           /\ LedgerInv'
<1> USE CustodyAssumption
<1>1. \A t \in Tokens : /\ supplies[t] \in 0 .. MaxAmount
                        /\ balances[a][t] \in 0 .. MaxAmount
                        /\ supplies[t] - b[t] \in 0 .. MaxAmount
                        /\ balances[a][t] - b[t] \in 0 .. MaxAmount
    BY DEF TypeOK, Amounts, CanBurn, AtMost
<1>2. /\ supplies' = [t \in Tokens |-> supplies[t] - b[t]]
      /\ balances' = [balances EXCEPT
                        ![a] = [t \in Tokens |-> balances[a][t] - b[t]]]
    BY Zenon DEF Minus
<1>3. supplies' \in Amounts /\ \A t \in Tokens : supplies'[t] = supplies[t] - b[t]
    BY <1>1, <1>2 DEF Amounts
<1>4. [t \in Tokens |-> balances[a][t] - b[t]] \in Amounts
    BY <1>1, Zenon DEF Amounts
<1>5. balances' \in [Accounts -> Amounts]
    BY <1>2, <1>4, Zenon DEF TypeOK
<1>6. \A t \in Tokens :
          supplies'[t] = supplies[t] - balances[a][t] + balances'[a][t]
    <2> TAKE t \in Tokens
    <2>1. balances'[a][t] = balances[a][t] - b[t]
        BY <1>2 DEF TypeOK
    <2>2. b[t] \in Nat /\ supplies[t] \in Nat /\ balances[a][t] \in Nat
        BY <1>1
    <2> QED
        BY <1>3, <2>1, <2>2
<1>7. \A x \in Accounts \ {a} : balances'[x] = balances[x]
    BY <1>2, Zenon DEF TypeOK
<1>8. \A t \in Tokens : SumsTo(BalancesOf(t)', Accounts, supplies'[t])
    BY <1>5, <1>6, <1>7, OneBalanceMoves, Zenon
<1>9. \A t \in Nfts : supplies'[t] <= 1
    BY <1>1, <1>3 DEF LedgerInv
<1> QED
    BY <1>3, <1>5, <1>8, <1>9, Zenon DEF LedgerInv

(* No account owns more of a token than total_supplies records, so the     *)
(* subtraction from the supply in Contract::withdraw succeeds whenever the *)
(* one from the balance does.                                              *)
LEMMA BalanceAtMostSupply ==
    ASSUME TypeOK, LedgerInv, NEW a \in Accounts
    PROVE  AtMost(balances[a], supplies)
<1> SUFFICES ASSUME NEW t \in Tokens PROVE balances[a][t] <= supplies[t]
    BY Zenon DEF AtMost
<1>1. /\ BalancesOf(t) \in [Accounts -> Nat]
      /\ BalancesOf(t)[a] = balances[a][t]
      /\ supplies[t] \in Nat /\ balances[a][t] \in Nat
    BY DEF BalancesOf, TypeOK, Amounts
<1>2. \A x \in Accounts \ {a} : BalancesOf(t)[x] = BalancesOf(t)[x]
    BY Zenon
<1> QED
    BY <1>1, <1>2, SumUpdate, Zenon DEF LedgerInv

(* internal_mt_batch_transfer and mt_resolve_transfer keep it too, and no  *)
(* addition in them overflows.                                             *)
LEMMA TransferKeepsLedger ==
    ASSUME TypeOK, LedgerInv, NEW p \in Accounts, NEW q \in Accounts,
           NEW b \in [Tokens -> Nat], AtMost(b, balances[p]),
           balances' = Transferred(balances, p, q, b), supplies' = supplies
    PROVE  balances' \in [Accounts -> Amounts] /\ LedgerInv'
<1>1. balances \in [Accounts -> [Tokens -> Nat]]
    BY DEF TypeOK, Amounts
<1>2. /\ balances' \in [Accounts -> [Tokens -> Nat]]
      /\ \A a \in Accounts, t \in Tokens :
            balances'[a][t] = balances[a][t] - (IF a = p THEN b[t] ELSE 0)
                                             + (IF a = q THEN b[t] ELSE 0)
    BY <1>1, TransferType
<1>3. ASSUME NEW t \in Tokens
      PROVE  /\ SumsTo(BalancesOf(t)', Accounts, supplies'[t])
             /\ \A a \in Accounts : balances'[a][t] <= MaxAmount
    <2> DEFINE f == BalancesOf(t)
               h == BalancesOf(t)'
               tot == supplies[t]
               n == b[t]
    <2>1. tot \in Nat /\ tot <= MaxAmount /\ MaxAmount \in Nat
        BY CustodyAssumption DEF TypeOK, Amounts
    <2>2. f \in [Accounts -> Nat] /\ h \in [Accounts -> Nat]
        BY <1>1, <1>2, Zenon DEF BalancesOf
    <2>3. \A a \in Accounts : f[a] = balances[a][t] /\ h[a] = balances'[a][t]
        BY Zenon DEF BalancesOf
    <2>4. n \in Nat /\ n <= f[p] /\ SumsTo(f, Accounts, tot)
        BY <2>3, Zenon DEF AtMost, LedgerInv
    <2>5. \A a \in Accounts : h[a] = f[a] - (IF a = p THEN n ELSE 0)
                                          + (IF a = q THEN n ELSE 0)
        BY <1>2, <2>3, Zenon
    <2>6. SumsTo(h, Accounts, tot) /\ h[q] <= tot
        <3> HIDE DEF f, h, tot, n
        <3> QED
            <4>1. /\ p = q => h[p] = f[p]
                  /\ p # q => h[p] = f[p] - n /\ h[q] = f[q] + n
                  /\ \A x \in Accounts \ {p, q} : h[x] = f[x]
                BY <2>2, <2>4, <2>5
            <4> QED
                BY <2>1, <2>2, <2>4, <4>1, SumMove
    <2>7. \A a \in Accounts : f[a] <= MaxAmount
        BY <2>3 DEF TypeOK, Amounts
    <2>8. \A a \in Accounts : h[a] <= MaxAmount
        <3> HIDE DEF f, h, tot, n
        <3> QED
            BY <2>1, <2>2, <2>4, <2>5, <2>6, <2>7
    <2> QED
        BY <2>3, <2>6, <2>8, Zenon
<1>4. balances' \in [Accounts -> Amounts]
    BY <1>2, <1>3, CustodyAssumption DEF Amounts
<1> QED
    BY <1>3, <1>4, Zenon DEF LedgerInv
-----------------------------------------------------------------------------
LedgerKept ==
    /\ balances' \in [Accounts -> Amounts]
    /\ supplies' \in Amounts
    /\ locked' \subseteq Accounts
    /\ LedgerInv'

(* Held tokens change by as much as what they are held for.                *)
BooksBalance ==
    /\ held' \in [Tokens -> Int]
    /\ owed' \in [Tokens -> Int]
    /\ stranded' \in [Tokens -> Int]
    /\ \A t \in Tokens \ Honest : held'[t] = held[t]
    /\ \A t \in Honest :
          /\ held'[t] - held[t] = (supplies'[t] - supplies[t])
                                + (owed'[t] - owed[t])
                                + (stranded'[t] - stranded[t])
          /\ stranded'[t] >= 0
          /\ held'[t] <= IF t \in Nfts THEN 1 ELSE MaxAmount

OwedMoves(s, c) ==
    \A t \in Tokens : owed'[t] = owed[t] - Pending(calls[s])[t] + Pending(c)[t]

(* A sum of three stays one when both sides change by as much.             *)
LEMMA EqualChanges ==
    ASSUME NEW h \in Int, NEW a \in Int, NEW b \in Int, NEW c \in Int,
           NEW hh \in Int, NEW aa \in Int, NEW bb \in Int, NEW cc \in Int,
           h = a + b + c, hh - h = (aa - a) + (bb - b) + (cc - c)
    PROVE  hh = aa + bb + cc
OBVIOUS

(* A receipt of the call in slot s, which becomes c, keeps the invariant   *)
(* when the ledger stays consistent and the books balance.                 *)
LEMMA ReceiptKeepsIInv ==
    ASSUME IInv, NEW s \in Slots, NEW c \in {Idle} \cup Call, CallOK(c),
           calls' = [calls EXCEPT ![s] = c],
           LedgerKept, BooksBalance, OwedMoves(s, c)
    PROVE  IInv'
<1> USE CustodyAssumption
<1>1. CallsInv' /\ calls' \in [Slots -> {Idle} \cup Call]
    BY CallMoves, Zenon DEF IInv, BooksBalance, OwedMoves
<1>2. \A t \in Honest : /\ held'[t] = supplies'[t] + owed'[t] + stranded'[t]
                        /\ held'[t] \in 0 .. MaxAmount
                        /\ t \in Nfts => held'[t] <= 1
    <2> TAKE t \in Honest
    <2>1. /\ held[t] \in Int /\ supplies[t] \in Nat /\ owed[t] \in Int
          /\ stranded[t] \in Int
          /\ held[t] = supplies[t] + owed[t] + stranded[t]
        BY DEF IInv, TypeOK, Amounts, BooksInv
    <2>2. /\ held'[t] \in Int /\ supplies'[t] \in Nat /\ owed'[t] \in Nat
          /\ stranded'[t] \in Nat
        BY <1>1 DEF LedgerKept, BooksBalance, Amounts, CallsInv
    <2>3. /\ held'[t] - held[t] = (supplies'[t] - supplies[t])
                                + (owed'[t] - owed[t])
                                + (stranded'[t] - stranded[t])
          /\ held'[t] <= IF t \in Nfts THEN 1 ELSE MaxAmount
        BY Zenon DEF BooksBalance
    <2>4. held'[t] = supplies'[t] + owed'[t] + stranded'[t]
        BY <2>1, <2>2, <2>3, EqualChanges
    <2> QED
        BY <2>2, <2>3, <2>4
<1>3. held' \in Amounts
    BY <1>2, Zenon DEF IInv, TypeOK, Amounts, BooksBalance
<1>4. TypeOK'
    BY <1>1, <1>3, Zenon DEF TypeOK, LedgerKept, BooksBalance
<1>5. BooksInv'
    BY <1>2, Zenon DEF BooksInv, BooksBalance
<1> QED
    BY <1>1, <1>4, <1>5, Zenon DEF IInv, LedgerKept

(* A receipt that leaves balances, supplies and locks alone keeps the      *)
(* ledger consistent.                                                      *)
LEMMA LedgerUnchanged ==
    ASSUME IInv, UNCHANGED ledgerVars
    PROVE  LedgerKept
BY Zenon DEF IInv, TypeOK, LedgerInv, LedgerKept, ledgerVars, BalancesOf

(* At the beginning nothing is owned, owed or held.                        *)
LEMMA InitIInv == Init => IInv
<1> SUFFICES ASSUME Init PROVE IInv
    BY Zenon
<1> USE CustodyAssumption
<1>1. Zero \in Amounts /\ \A t \in Tokens : Zero[t] = 0
    BY DEF Zero, Amounts
<1>2. TypeOK
    BY <1>1 DEF Init, TypeOK, Amounts
<1>3. \A t \in Tokens : Pending(Idle)[t] = 0
    BY <1>1, Zenon DEF Pending, Idle
<1>4. CallsInv
    <2>1. \A s \in Slots : CallOK(calls[s])
        BY Zenon DEF Init, CallOK, Idle
    <2>2. ASSUME NEW t \in Tokens
          PROVE  SumsTo(PendingOf(t), Slots, 0)
        <3>1. PendingOf(t) \in [Slots -> Nat] /\ \A s \in Slots : PendingOf(t)[s] = 0
            BY <1>3 DEF Init, PendingOf
        <3> QED
            BY <3>1, SumOfZeros, Zenon
    <2> QED
        BY <1>1, <2>1, <2>2 DEF Init, CallsInv
<1>5. LedgerInv
    <2>1. ASSUME NEW t \in Tokens
          PROVE  SumsTo(BalancesOf(t), Accounts, 0)
        <3>1. /\ BalancesOf(t) \in [Accounts -> Nat]
              /\ \A a \in Accounts : BalancesOf(t)[a] = 0
            BY <1>1 DEF Init, BalancesOf
        <3> QED
            BY <3>1, SumOfZeros, Zenon
    <2> QED
        BY <1>1, <2>1 DEF Init, LedgerInv
<1>6. BooksInv
    BY <1>1 DEF Init, BooksInv
<1> QED
    BY <1>2, <1>4, <1>5, <1>6, Zenon DEF IInv
-----------------------------------------------------------------------------
(* The call in a slot that is not idle.                                    *)
LEMMA InFlight ==
    ASSUME IInv, NEW s \in Slots, calls[s].step # "idle"
    PROVE  /\ calls[s] \in Call
           /\ CallOK(calls[s])
           /\ calls[s].owner \in Accounts /\ calls[s].peer \in Accounts
           /\ calls[s].amounts \in Amounts
           /\ calls[s].amounts \in [Tokens -> Nat]
           /\ calls[s].reported \in [Tokens -> Nat]
           /\ calls[s].storage \in Nat
<1>1. calls[s] \in Call
    BY DEF IInv, TypeOK, Idle
<1> QED
    BY <1>1, CustodyAssumption DEF IInv, CallsInv, Call, Amounts

(* Pending, step by step.                                                  *)
LEMMA PendingAt ==
    /\ Pending(Idle) = Zero
    /\ \A c \in Call :
        /\ c.step \in {"on_transfer", "refund_deposit", "send"} =>
              Pending(c) = Real(c.amounts)
        /\ c.step = "near_withdraw" =>
              Pending(c) = Plus(Real(c.amounts), Only(wnear, c.storage))
        /\ c.step = "unwrap" => Pending(c) = Only(wnear, c.storage)
        /\ c.step = "resolve_withdraw" => Pending(c) = Unsent(c)
        /\ c.step \in {"resolve_deposit", "resolve_transfer", "receiver"} =>
              Pending(c) = Zero
<1>1. Pending(Idle) = Zero
    BY Zenon DEF Pending, Idle
<1> QED
    BY <1>1, Zenon DEF Pending

(* The amounts that the actions are built from are numbers of each token,  *)
(* and their real part is nothing of a token outside Honest.               *)
LEMMA AmountFacts ==
    ASSUME NEW b \in [Tokens -> Nat], NEW n \in Nat
    PROVE  /\ Real(b) \in [Tokens -> Nat]
           /\ \A t \in Honest : Real(b)[t] = b[t]
           /\ \A t \in Tokens \ Honest : Real(b)[t] = 0
           /\ Only(wnear, n) \in [Tokens -> Nat]
           /\ \A t \in Tokens \ Honest : Only(wnear, n)[t] = 0
           /\ Zero \in [Tokens -> Nat]
           /\ \A t \in Tokens : Zero[t] = 0
BY CustodyAssumption, Zenon DEF Real, Only, Zero

(* What the invariant says of the type and the range of each variable,     *)
(* token by token.                                                         *)
LEMMA VariableTypes ==
    ASSUME IInv
    PROVE  /\ \A t \in Tokens : /\ supplies[t] \in Nat
                                /\ held[t] \in Nat
                                /\ owed[t] \in Nat
                                /\ stranded[t] \in Int
           /\ \A t \in Honest : /\ stranded[t] >= 0
                                /\ held[t] <= IF t \in Nfts THEN 1 ELSE MaxAmount
           /\ held \in [Tokens -> Nat]
           /\ owed \in [Tokens -> Int]
           /\ stranded \in [Tokens -> Int]
           /\ Honest \subseteq Tokens
<1> USE CustodyAssumption
<1>1. \A t \in Tokens : held[t] \in 0 .. MaxAmount /\ supplies[t] \in 0 .. MaxAmount
    BY Zenon DEF IInv, TypeOK, Amounts
<1> QED
    BY <1>1 DEF IInv, TypeOK, CallsInv, BooksInv, Amounts

(* A finished call is well formed.                                         *)
LEMMA IdleOK == CallOK(Idle) /\ Idle \in {Idle} \cup Call
BY Zenon DEF CallOK, Idle

(* The ways in which a receipt moves x of the honest tokens: into and out  *)
(* of the Verifier, out of the hands of a call that failed, and between    *)
(* the ledger and a call.                                                  *)
LEMMA BooksTakeIn ==
    ASSUME IInv, NEW x \in [Tokens -> Nat], \A t \in Tokens \ Honest : x[t] = 0,
           CanReceive(x), held' = Plus(held, x), owed' = Plus(owed, x),
           UNCHANGED <<supplies, stranded>>
    PROVE  BooksBalance
<1>1. \A t \in Tokens : /\ held'[t] = held[t] + x[t]
                        /\ owed'[t] = owed[t] + x[t]
                        /\ supplies'[t] = supplies[t]
                        /\ stranded'[t] = stranded[t]
    BY VariableTypes, Zenon DEF Plus, Minus
<1>2. /\ held' \in [Tokens -> Int] /\ owed' \in [Tokens -> Int]
      /\ stranded' \in [Tokens -> Int]
    BY VariableTypes DEF Plus, Minus
<1>3. \A t \in Tokens : x[t] \in Nat
    BY Zenon
<1>4. \A t \in Honest : held'[t] - held[t] = (supplies'[t] - supplies[t])
                                          + (owed'[t] - owed[t])
                                          + (stranded'[t] - stranded[t])
    BY <1>1, <1>3, VariableTypes
<1>5. \A t \in Honest : held'[t] <= IF t \in Nfts THEN 1 ELSE MaxAmount
    BY <1>1, <1>3, VariableTypes, CustodyAssumption, Zenon DEF CanReceive
<1>6. \A t \in Honest : stranded'[t] >= 0
    BY <1>1, <1>3, VariableTypes, Zenon
<1>7. \A t \in Tokens \ Honest : held'[t] = held[t]
    BY <1>1, <1>3, VariableTypes
<1> QED
    BY <1>2, <1>4, <1>5, <1>6, <1>7, Zenon DEF BooksBalance

(* Tokens that leave the Verifier for a call in flight: the books balance. *)
LEMMA BooksPayOut ==
    ASSUME IInv, NEW x \in [Tokens -> Nat], \A t \in Tokens \ Honest : x[t] = 0,
           held' = Minus(held, x), owed' = Minus(owed, x),
           UNCHANGED <<supplies, stranded>>
    PROVE  BooksBalance
<1>1. \A t \in Tokens : /\ held'[t] = held[t] - x[t]
                        /\ owed'[t] = owed[t] - x[t]
                        /\ supplies'[t] = supplies[t]
                        /\ stranded'[t] = stranded[t]
    BY VariableTypes, Zenon DEF Plus, Minus
<1>2. /\ held' \in [Tokens -> Int] /\ owed' \in [Tokens -> Int]
      /\ stranded' \in [Tokens -> Int]
    BY VariableTypes DEF Plus, Minus
<1>3. \A t \in Tokens : x[t] \in Nat
    BY Zenon
<1>4. \A t \in Honest : held'[t] - held[t] = (supplies'[t] - supplies[t])
                                          + (owed'[t] - owed[t])
                                          + (stranded'[t] - stranded[t])
    BY <1>1, <1>3, VariableTypes
<1>5. \A t \in Honest : held'[t] <= IF t \in Nfts THEN 1 ELSE MaxAmount
    BY <1>1, <1>3, VariableTypes, CustodyAssumption
<1>6. \A t \in Honest : stranded'[t] >= 0
    BY <1>1, <1>3, VariableTypes, Zenon
<1>7. \A t \in Tokens \ Honest : held'[t] = held[t]
    BY <1>1, <1>3, VariableTypes
<1> QED
    BY <1>2, <1>4, <1>5, <1>6, <1>7, Zenon DEF BooksBalance

(* Tokens that a failed call leaves behind: the books balance.             *)
LEMMA BooksStrand ==
    ASSUME IInv, NEW x \in [Tokens -> Nat], \A t \in Tokens \ Honest : x[t] = 0,
           owed' = Minus(owed, x), stranded' = Plus(stranded, x),
           UNCHANGED <<supplies, held>>
    PROVE  BooksBalance
<1>1. \A t \in Tokens : /\ held'[t] = held[t]
                        /\ owed'[t] = owed[t] - x[t]
                        /\ supplies'[t] = supplies[t]
                        /\ stranded'[t] = stranded[t] + x[t]
    BY VariableTypes, Zenon DEF Plus, Minus
<1>2. /\ held' \in [Tokens -> Int] /\ owed' \in [Tokens -> Int]
      /\ stranded' \in [Tokens -> Int]
    BY VariableTypes DEF Plus, Minus
<1>3. \A t \in Tokens : x[t] \in Nat
    BY Zenon
<1>4. \A t \in Honest : held'[t] - held[t] = (supplies'[t] - supplies[t])
                                          + (owed'[t] - owed[t])
                                          + (stranded'[t] - stranded[t])
    BY <1>1, <1>3, VariableTypes
<1>5. \A t \in Honest : held'[t] <= IF t \in Nfts THEN 1 ELSE MaxAmount
    BY <1>1, <1>3, VariableTypes, CustodyAssumption, Zenon
<1>6. \A t \in Honest : stranded'[t] >= 0
    BY <1>1, <1>3, VariableTypes
<1>7. \A t \in Tokens \ Honest : held'[t] = held[t]
    BY <1>1, <1>3, VariableTypes, Zenon
<1> QED
    BY <1>2, <1>4, <1>5, <1>6, <1>7, Zenon DEF BooksBalance

(* Tokens of a call in flight that are credited to an account: the books   *)
(* balance.                                                                *)
LEMMA BooksCredit ==
    ASSUME IInv, NEW x \in [Tokens -> Nat], \A t \in Tokens \ Honest : x[t] = 0,
           owed' = Minus(owed, x), \A t \in Honest : supplies'[t] = supplies[t] + x[t],
           UNCHANGED <<held, stranded>>
    PROVE  BooksBalance
<1>1. \A t \in Tokens : /\ held'[t] = held[t]
                        /\ owed'[t] = owed[t] - x[t]
                        /\ stranded'[t] = stranded[t]
    BY VariableTypes, Zenon DEF Plus, Minus
<1>2. /\ held' \in [Tokens -> Int] /\ owed' \in [Tokens -> Int]
      /\ stranded' \in [Tokens -> Int]
    BY VariableTypes DEF Plus, Minus
<1>3. \A t \in Tokens : x[t] \in Nat
    BY Zenon
<1>4. \A t \in Honest : held'[t] - held[t] = (supplies'[t] - supplies[t])
                                          + (owed'[t] - owed[t])
                                          + (stranded'[t] - stranded[t])
    BY <1>1, <1>3, VariableTypes
<1>5. \A t \in Honest : held'[t] <= IF t \in Nfts THEN 1 ELSE MaxAmount
    BY <1>1, <1>3, VariableTypes, CustodyAssumption, Zenon
<1>6. \A t \in Honest : stranded'[t] >= 0
    BY <1>1, <1>3, VariableTypes, Zenon
<1>7. \A t \in Tokens \ Honest : held'[t] = held[t]
    BY <1>1, <1>3, VariableTypes, Zenon
<1> QED
    BY <1>2, <1>4, <1>5, <1>6, <1>7, Zenon DEF BooksBalance

(* Tokens burnt from an account for a call that is about to move them: the *)
(* books balance.                                                          *)
LEMMA BooksDebit ==
    ASSUME IInv, NEW x \in [Tokens -> Nat], \A t \in Tokens \ Honest : x[t] = 0,
           owed' = Plus(owed, x), \A t \in Honest : supplies'[t] = supplies[t] - x[t],
           UNCHANGED <<held, stranded>>
    PROVE  BooksBalance
<1>1. \A t \in Tokens : /\ held'[t] = held[t]
                        /\ owed'[t] = owed[t] + x[t]
                        /\ stranded'[t] = stranded[t]
    BY VariableTypes, Zenon DEF Plus, Minus
<1>2. /\ held' \in [Tokens -> Int] /\ owed' \in [Tokens -> Int]
      /\ stranded' \in [Tokens -> Int]
    BY VariableTypes DEF Plus, Minus
<1>3. \A t \in Tokens : x[t] \in Nat
    BY Zenon
<1>4. \A t \in Honest : held'[t] - held[t] = (supplies'[t] - supplies[t])
                                          + (owed'[t] - owed[t])
                                          + (stranded'[t] - stranded[t])
    BY <1>1, <1>3, VariableTypes
<1>5. \A t \in Honest : held'[t] <= IF t \in Nfts THEN 1 ELSE MaxAmount
    BY <1>1, <1>3, VariableTypes, CustodyAssumption, Zenon
<1>6. \A t \in Honest : stranded'[t] >= 0
    BY <1>1, <1>3, VariableTypes, Zenon
<1>7. \A t \in Tokens \ Honest : held'[t] = held[t]
    BY <1>1, <1>3, VariableTypes, Zenon
<1> QED
    BY <1>2, <1>4, <1>5, <1>6, <1>7, Zenon DEF BooksBalance

(* A receipt that moves tokens between accounts only: the books balance.   *)
LEMMA BooksUntouched ==
    ASSUME IInv, UNCHANGED <<held, owed, stranded>>,
           \A t \in Honest : supplies'[t] = supplies[t]
    PROVE  BooksBalance
<1>1. \A t \in Honest : held'[t] - held[t] = (supplies'[t] - supplies[t])
                                          + (owed'[t] - owed[t])
                                          + (stranded'[t] - stranded[t])
    BY VariableTypes
<1> QED
    BY <1>1, VariableTypes DEF BooksBalance

(* ft_on_transfer and its siblings move what the call brought to the       *)
(* ledger.                                                                 *)
LEMMA CreditKeepsIInv ==
    ASSUME IInv, NEW s \in Slots, At(s, "on_transfer"), LedgerKept,
           \A t \in Tokens : supplies'[t] = supplies[t] + calls[s].amounts[t],
           owed' = Minus(owed, Real(calls[s].amounts)),
           UNCHANGED <<held, stranded>>,
           NEW c \in {Idle, [calls[s] EXCEPT !.step = "resolve_deposit"]},
           calls' = [calls EXCEPT ![s] = c]
    PROVE  IInv'
<1> DEFINE b == calls[s].amounts
<1>1. calls[s] \in Call /\ b \in [Tokens -> Nat]
    BY InFlight, Zenon DEF At
<1>2. c \in {Idle} \cup Call /\ CallOK(c) /\ Pending(c) = Zero
    <2>1. CASE c = Idle
        BY <2>1, IdleOK, PendingAt, Zenon
    <2>2. CASE c = [calls[s] EXCEPT !.step = "resolve_deposit"]
        <3>1. c \in Call /\ c.step = "resolve_deposit"
            BY <1>1, <2>2, Zenon DEF Call, Steps
        <3> QED
            BY <3>1, PendingAt, Zenon DEF CallOK
    <2> QED
        BY <2>1, <2>2, Zenon
<1>3. Pending(calls[s]) = Real(b)
    BY <1>1, PendingAt, Zenon DEF At
<1>4. OwedMoves(s, c)
    BY <1>1, <1>2, <1>3, AmountFacts, VariableTypes DEF OwedMoves, Minus
<1>5. BooksBalance
    <2>1. /\ Real(b) \in [Tokens -> Nat]
          /\ \A t \in Tokens \ Honest : Real(b)[t] = 0
          /\ \A t \in Honest : supplies'[t] = supplies[t] + Real(b)[t]
        BY <1>1, AmountFacts, VariableTypes, Zenon
    <2> QED
        BY <2>1, BooksCredit, Zenon
<1> QED
    BY <1>2, <1>4, <1>5, ReceiptKeepsIInv, Zenon

(* A slot in which nothing is in flight, and the call that starts in it.   *)
LEMMA FreeSlot ==
    ASSUME IInv, NEW s \in Slots, At(s, "idle")
    PROVE  calls[s] = Idle /\ Pending(calls[s]) = Zero
<1>1. calls[s] = Idle
    BY Zenon DEF IInv, TypeOK, At, Call, Steps
<1> QED
    BY <1>1, PendingAt, Zenon

(* No tokens at all are an amount.                                         *)
LEMMA ZeroType == Zero \in Amounts /\ 0 \in 0 .. MaxAmount
BY CustodyAssumption DEF Zero, Amounts

(* A token contract that sends a deposit keeps the invariant.              *)
LEMMA SendDepositKeepsIInv ==
    ASSUME IInv, NEW s \in Slots, NEW a \in Accounts, NEW b \in Batches,
           SendDeposit(s, a, b)
    PROVE  IInv'
<1> DEFINE c == NewCall("on_transfer", a, a, b)
<1>1. b \in Amounts /\ b \in [Tokens -> Nat]
    BY CustodyAssumption DEF Amounts
<1>2. c \in Call /\ c.step = "on_transfer" /\ c.amounts = b
    BY <1>1, ZeroType, Zenon DEF NewCall, Call, Steps, Status
<1> HIDE DEF c
<1>3. c \in {Idle} \cup Call /\ CallOK(c) /\ Pending(c) = Real(b)
    BY <1>2, PendingAt, Zenon DEF CallOK
<1>4. calls' = [calls EXCEPT ![s] = c]
    BY Zenon DEF SendDeposit, Goto, c
<1>5. LedgerKept
    BY LedgerUnchanged, Zenon DEF SendDeposit
<1>6. /\ Real(b) \in [Tokens -> Nat]
      /\ \A t \in Tokens \ Honest : Real(b)[t] = 0
      /\ CanReceive(Real(b))
    BY <1>1, AmountFacts, Zenon DEF SendDeposit, CanReceive
<1>7. BooksBalance
    BY <1>6, BooksTakeIn, Zenon DEF SendDeposit, ledgerVars
<1>8. OwedMoves(s, c)
    <2>1. Pending(calls[s]) = Zero
        BY FreeSlot, Zenon DEF SendDeposit
    <2> QED
        BY <1>3, <1>6, <2>1, VariableTypes DEF OwedMoves, SendDeposit, Plus, Zero
<1> QED
    BY <1>3, <1>4, <1>5, <1>7, <1>8, ReceiptKeepsIInv, Zenon

(* *_on_transfer that credits a deposit, notifying or not, keeps the       *)
(* invariant.                                                              *)
LEMMA OnTransferKeepsIInv ==
    ASSUME IInv, NEW s \in Slots, OnTransfer(s) \/ OnTransferNotify(s)
    PROVE  IInv'
<1>1. /\ At(s, "on_transfer")
      /\ Deposit(calls[s].owner, calls[s].amounts)
      /\ owed' = Minus(owed, Real(calls[s].amounts))
      /\ UNCHANGED <<locked, held, stranded>>
    BY Zenon DEF OnTransfer, OnTransferNotify
<1>2. PICK c \in {Idle, [calls[s] EXCEPT !.step = "resolve_deposit"]} :
          calls' = [calls EXCEPT ![s] = c]
    BY Zenon DEF OnTransfer, OnTransferNotify, Finish, Goto
<1>3. calls[s].owner \in Accounts /\ calls[s].amounts \in [Tokens -> Nat]
    BY <1>1, InFlight, Zenon DEF At
<1>4. /\ LedgerKept
      /\ \A t \in Tokens : supplies'[t] = supplies[t] + calls[s].amounts[t]
    BY <1>1, <1>3, DepositKeepsLedger, Zenon DEF IInv, LedgerKept, TypeOK
<1> QED
    BY <1>1, <1>2, <1>4, CreditKeepsIInv, Zenon

(* Depositing to one account and passing it on to another is depositing to *)
(* the other.                                                              *)
LEMMA OnTransferExecuteKeepsIInv ==
    ASSUME IInv, NEW s \in Slots, NEW q \in Accounts, OnTransferExecute(s, q)
    PROVE  IInv'
<1> DEFINE a == calls[s].owner
           b == calls[s].amounts
           d == [balances EXCEPT ![a] = Plus(balances[a], b)]
<1> USE CustodyAssumption
<1>1. At(s, "on_transfer") /\ calls[s] \in Call
      /\ a \in Accounts /\ b \in [Tokens -> Nat]
    BY InFlight, Zenon DEF OnTransferExecute, At
<1>2. balances \in [Accounts -> [Tokens -> Nat]]
    BY DEF IInv, TypeOK, Amounts
<1>3. /\ CanDeposit(a, b) /\ CanTransfer(d, a, q, b, FALSE)
      /\ balances' = Transferred(d, a, q, b)
      /\ supplies' = Plus(supplies, b)
      /\ owed' = Minus(owed, Real(b))
      /\ calls' = [calls EXCEPT ![s] = Idle]
      /\ UNCHANGED <<locked, held, stranded>>
    BY Zenon DEF OnTransferExecute, Finish, Goto
<1>4. a # q /\ \A t \in Tokens : balances[q][t] + b[t] <= MaxAmount
    BY <1>1, <1>2, <1>3, Zenon DEF CanTransfer
<1>5. d \in [Accounts -> [Tokens -> Nat]] /\ AtMost(b, d[a])
    BY <1>1, <1>2 DEF Plus, AtMost
<1>6. /\ balances' \in [Accounts -> [Tokens -> Nat]]
      /\ \A x \in Accounts, t \in Tokens :
            balances'[x][t] = d[x][t] - (IF x = a THEN b[t] ELSE 0)
                                      + (IF x = q THEN b[t] ELSE 0)
    <2> HIDE DEF a, b, d
    <2>1. /\ Transferred(d, a, q, b) \in [Accounts -> [Tokens -> Nat]]
          /\ \A x \in Accounts, t \in Tokens :
                Transferred(d, a, q, b)[x][t] =
                    d[x][t] - (IF x = a THEN b[t] ELSE 0)
                            + (IF x = q THEN b[t] ELSE 0)
        BY <1>1, <1>5, TransferType
    <2> QED
        BY <1>3, <2>1, Zenon
<1>7. \A x \in Accounts, t \in Tokens :
          d[x][t] = balances[x][t] + (IF x = a THEN b[t] ELSE 0)
    BY <1>1, <1>2 DEF Plus
<1> HIDE DEF a, b, d
<1>8. \A x \in Accounts, t \in Tokens :
          balances'[x][t] = balances[x][t] + (IF x = q THEN b[t] ELSE 0)
    BY <1>1, <1>2, <1>4, <1>6, <1>7
<1>9. \A x \in Accounts \ {q} : balances'[x] = balances[x]
    BY <1>1, <1>2, <1>6, <1>8
<1>10. balances' \in [Accounts -> Amounts]
    <2>1. balances'[q] \in Amounts
        <3>1. \A t \in Tokens : balances'[q][t] \in 0 .. MaxAmount
            BY <1>1, <1>2, <1>4, <1>8
        <3> QED
            BY <1>6, <3>1, Zenon DEF Amounts
    <2> QED
        BY <1>6, <1>9, <2>1, Zenon DEF IInv, TypeOK
<1>11. supplies' \in Amounts /\ \A t \in Tokens : supplies'[t] = supplies[t] + b[t]
    <2>1. supplies' = Plus(supplies, b)
        BY <1>3, Zenon
    <2>2. ASSUME NEW t \in Tokens
          PROVE  /\ supplies'[t] = supplies[t] + b[t]
                 /\ supplies'[t] \in 0 .. MaxAmount
        <3>1. /\ supplies[t] \in Nat /\ b[t] \in Nat
              /\ supplies[t] + b[t] <= MaxAmount
            BY <1>1, <1>3, VariableTypes, Zenon DEF CanDeposit
        <3>2. supplies'[t] = supplies[t] + b[t]
            BY <2>1, Zenon DEF Plus
        <3> QED
            BY <3>1, <3>2, ConstantTypes
    <2> QED
        BY <2>1, <2>2, Zenon DEF Plus, Amounts
<1>12. \A t \in Tokens :
          supplies'[t] = supplies[t] - balances[q][t] + balances'[q][t]
    BY <1>1, <1>2, <1>8, <1>11, VariableTypes
<1>13. \A t \in Tokens : SumsTo(BalancesOf(t)', Accounts, supplies'[t])
    BY <1>9, <1>10, <1>12, OneBalanceMoves, Zenon DEF IInv
<1>14. \A t \in Nfts : supplies'[t] <= 1
    <2>1. \A t \in Nfts : /\ b[t] > 0 => supplies[t] + b[t] <= 1
                          /\ supplies[t] <= 1
        BY <1>3, Zenon DEF CanDeposit, IInv, LedgerInv
    <2>2. \A t \in Nfts : /\ b[t] \in Nat /\ supplies[t] \in Nat
                          /\ supplies'[t] = supplies[t] + b[t]
        BY <1>1, <1>11, VariableTypes, ConstantTypes, Zenon
    <2> QED
        BY <2>1, <2>2
<1>15. LedgerKept
    BY <1>3, <1>10, <1>11, <1>13, <1>14, Zenon DEF LedgerKept, LedgerInv, IInv, TypeOK
<1> QED
    BY <1>1, <1>3, <1>11, <1>15, CreditKeepsIInv, Zenon DEF b

(* Receipts that touch neither the ledger nor the books.                   *)
LEMMA RelabelKeepsIInv ==
    ASSUME IInv, NEW s \in Slots,
           \/ OnTransferPanic(s)
           \/ SendFails(s)
           \/ TokenResolveFails(s)
           \/ \E status \in Status, r \in Reports : RogueAnswers(s, status, r)
    PROVE  IInv'
<1>1. UNCHANGED <<ledgerVars, held, owed, stranded>>
    BY Zenon DEF OnTransferPanic, SendFails, TokenResolveFails, RogueAnswers
<1>2. calls[s].step \in {"on_transfer", "send", "receiver"}
    BY Zenon DEF OnTransferPanic, SendFails, TokenResolveFails, RogueAnswers, At
<1>3. /\ calls[s] \in Call /\ CallOK(calls[s])
      /\ calls[s].amounts \in [Tokens -> Nat]
    BY <1>2, InFlight, Zenon
<1>4. \E c \in Call : /\ CallOK(c)
                      /\ calls' = [calls EXCEPT ![s] = c]
                      /\ Pending(c) = Pending(calls[s])
    <2>1. CASE OnTransferPanic(s)
        <3> DEFINE c == [calls[s] EXCEPT !.step = "refund_deposit"]
        <3>1. c \in Call /\ c.step = "refund_deposit" /\ c.amounts = calls[s].amounts
            BY <1>3, Zenon DEF Call, Steps
        <3>2. CallOK(c) /\ Pending(c) = Pending(calls[s])
            BY <1>3, <2>1, <3>1, PendingAt, Zenon DEF CallOK, OnTransferPanic, At
        <3> QED
            BY <2>1, <3>1, <3>2, Zenon DEF OnTransferPanic, Goto
    <2>2. CASE SendFails(s)
        <3> DEFINE c == [calls[s] EXCEPT !.step = "resolve_withdraw",
                                         !.status = "failed"]
        <3>1. /\ c \in Call /\ c.step = "resolve_withdraw" /\ c.status = "failed"
              /\ c.amounts = calls[s].amounts /\ ~c.moved
            BY <1>3, <2>2, Zenon DEF Call, Steps, Status, CallOK, SendFails, At
        <3>2. CallOK(c) /\ Pending(c) = Pending(calls[s])
            BY <1>3, <2>2, <3>1, PendingAt, Zenon DEF CallOK, SendFails, At, Unsent
        <3> QED
            BY <2>2, <3>1, <3>2, Zenon DEF SendFails, Goto
    <2>3. CASE TokenResolveFails(s)
        <3> DEFINE c == [calls[s] EXCEPT !.step = "resolve_withdraw",
                                         !.status = "failed"]
        <3>1. /\ c \in Call /\ c.step = "resolve_withdraw" /\ c.status = "failed"
              /\ c.moved /\ c.is_call /\ c.amounts = calls[s].amounts
            BY <1>3, <2>3, Zenon DEF Call, Steps, Status, CallOK, TokenResolveFails, At
        <3>2. CallOK(c) /\ Pending(c) = Pending(calls[s])
            BY <1>3, <2>3, <3>1, PendingAt, Zenon
                DEF CallOK, TokenResolveFails, At, Unsent
        <3> QED
            BY <2>3, <3>1, <3>2, Zenon DEF TokenResolveFails, Goto
    <2>4. ASSUME NEW status \in Status, NEW r \in Reports,
                 RogueAnswers(s, status, r)
          PROVE  \E c \in Call : /\ CallOK(c)
                                 /\ calls' = [calls EXCEPT ![s] = c]
                                 /\ Pending(c) = Pending(calls[s])
        <3> DEFINE c == [calls[s] EXCEPT !.step = "resolve_withdraw",
                                         !.status = status, !.reported = r]
        <3>1. r \in Amounts
            BY CustodyAssumption, Zenon
        <3>2. /\ c \in Call /\ c.step = "resolve_withdraw"
              /\ c.amounts = calls[s].amounts /\ ~c.moved
              /\ \A t \in Honest : c.amounts[t] = 0
            BY <1>3, <2>4, <3>1, Zenon
            DEF Call, Steps, CallOK, Unmixed, RogueAnswers, At
        <3>3. CallOK(c) /\ Pending(c) = Pending(calls[s])
            BY <1>3, <2>4, <3>2, PendingAt, Zenon DEF CallOK, RogueAnswers, At, Unsent
        <3> QED
            BY <2>4, <3>2, <3>3, Zenon DEF RogueAnswers, Goto
    <2> QED
        BY <2>1, <2>2, <2>3, <2>4, Zenon
<1>5. PICK c \in Call : /\ CallOK(c)
                        /\ calls' = [calls EXCEPT ![s] = c]
                        /\ Pending(c) = Pending(calls[s])
    BY <1>4, Zenon
<1>6. OwedMoves(s, c)
    <2>1. Pending(c) \in [Tokens -> Nat]
        BY <1>5, PendingType, Zenon
    <2> QED
        BY <1>1, <1>5, <2>1, VariableTypes DEF OwedMoves
<1>7. BooksBalance
    BY <1>1, BooksUntouched, Zenon DEF ledgerVars
<1> QED
    BY <1>1, <1>5, <1>6, <1>7, LedgerUnchanged, ReceiptKeepsIInv, Zenon

(* x leaves the Verifier, or the hands of the call for good; c is what     *)
(* becomes of the call.                                                    *)
Releases(s, x, c) ==
    /\ x \in [Tokens -> Nat]
    /\ \A t \in Tokens \ Honest : x[t] = 0
    /\ c \in {Idle} \cup Call
    /\ CallOK(c)
    /\ calls' = [calls EXCEPT ![s] = c]
    /\ \A t \in Tokens : Pending(calls[s])[t] = Pending(c)[t] + x[t]

(* A receipt that only lets go of what was held for a call, by paying it   *)
(* out or by leaving it behind, keeps the invariant.                       *)
LEMMA ReleaseKeepsIInv ==
    ASSUME IInv, NEW s \in Slots, NEW x, NEW c, Releases(s, x, c),
           UNCHANGED ledgerVars, owed' = Minus(owed, x),
           \/ held' = Minus(held, x) /\ stranded' = stranded
           \/ held' = held /\ stranded' = Plus(stranded, x)
    PROVE  IInv'
<1>1. /\ x \in [Tokens -> Nat] /\ \A t \in Tokens \ Honest : x[t] = 0
      /\ c \in {Idle} \cup Call /\ CallOK(c) /\ calls' = [calls EXCEPT ![s] = c]
    BY Zenon DEF Releases
<1>2. BooksBalance
    BY <1>1, BooksPayOut, BooksStrand, Zenon DEF ledgerVars
<1>3. OwedMoves(s, c)
    <2>1. Pending(c) \in [Tokens -> Nat]
        BY <1>1, PendingType, Zenon
    <2> QED
        BY <1>1, <2>1, VariableTypes DEF OwedMoves, Releases, Minus
<1> QED
    BY <1>1, <1>2, <1>3, LedgerUnchanged, ReceiptKeepsIInv, Zenon

(* A call that ends, giving up all it was about to move.                   *)
LEMMA EndReleases ==
    ASSUME IInv, NEW s \in Slots, calls[s].step # "idle", Finish(s),
           \A t \in Tokens \ Honest : Pending(calls[s])[t] = 0
    PROVE  Releases(s, Pending(calls[s]), Idle)
<1>1. Pending(calls[s]) \in [Tokens -> Nat]
    BY InFlight, PendingType, Zenon
<1>2. \A t \in Tokens : Pending(Idle)[t] = 0
    BY PendingAt, Zenon DEF Zero
<1> QED
    BY <1>1, <1>2, IdleOK DEF Releases, Finish, Goto

(* The token contract that takes back a refused deposit keeps the          *)
(* invariant.                                                              *)
LEMMA RefundDepositKeepsIInv ==
    ASSUME IInv, NEW s \in Slots, RefundDeposit(s)
    PROVE  IInv'
<1>1. calls[s].step = "refund_deposit" /\ Finish(s)
    BY Zenon DEF RefundDeposit, At
<1>2. Pending(calls[s]) = Real(calls[s].amounts)
    BY <1>1, InFlight, PendingAt, Zenon
<1>3. Releases(s, Pending(calls[s]), Idle)
    BY <1>1, <1>2, EndReleases, Zenon DEF Real
<1> QED
    BY <1>2, <1>3, ReleaseKeepsIInv, Zenon DEF RefundDeposit

(* The unwrapping of wNEAR for native_withdraw, storage_deposit or         *)
(* auth_call, successful or not, keeps the invariant.                      *)
LEMMA UnwrapKeepsIInv ==
    ASSUME IInv, NEW s \in Slots, Unwrap(s) \/ UnwrapFails(s)
    PROVE  IInv'
<1>1. calls[s].step = "unwrap" /\ Finish(s)
    BY Zenon DEF Unwrap, UnwrapFails, At
<1>2. Pending(calls[s]) = Only(wnear, calls[s].storage)
    BY <1>1, InFlight, PendingAt, Zenon
<1>3. Releases(s, Pending(calls[s]), Idle)
    BY <1>1, <1>2, EndReleases, CustodyAssumption, Zenon DEF Only
<1> QED
    BY <1>2, <1>3, ReleaseKeepsIInv, Zenon DEF Unwrap, UnwrapFails

(* The unwrapping of wNEAR for the storage of a withdrawal, successful or  *)
(* not, keeps the invariant.                                               *)
LEMMA NearWithdrawKeepsIInv ==
    ASSUME IInv, NEW s \in Slots, NearWithdraw(s) \/ NearWithdrawFails(s)
    PROVE  IInv'
<1> DEFINE x == Only(wnear, calls[s].storage)
<1>1. calls[s].step = "near_withdraw"
    BY Zenon DEF NearWithdraw, NearWithdrawFails, At
<1>2. /\ calls[s] \in Call /\ CallOK(calls[s]) /\ calls[s].storage \in Nat
      /\ calls[s].amounts \in [Tokens -> Nat]
    BY <1>1, InFlight, Zenon
<1>3. PICK c \in Call : /\ CallOK(c)
                        /\ calls' = [calls EXCEPT ![s] = c]
                        /\ Pending(c) = Real(calls[s].amounts)
    <2>1. CASE NearWithdraw(s)
        <3> DEFINE c == [calls[s] EXCEPT !.step = "send", !.storage = 0]
        <3>1. /\ c \in Call /\ c.step = "send" /\ c.amounts = calls[s].amounts
              /\ c.moved = calls[s].moved /\ c.status = calls[s].status
            BY <1>2, ZeroType, Zenon DEF Call, Steps
        <3>2. CallOK(c) /\ Pending(c) = Real(calls[s].amounts)
            BY <1>1, <1>2, <3>1, PendingAt, Zenon DEF CallOK
        <3> QED
            BY <2>1, <3>1, <3>2, Zenon DEF NearWithdraw, Goto
    <2>2. CASE NearWithdrawFails(s)
        <3> DEFINE c == [calls[s] EXCEPT !.step = "resolve_withdraw",
                                         !.status = "failed", !.storage = 0]
        <3>1. /\ c \in Call /\ c.step = "resolve_withdraw"
              /\ c.amounts = calls[s].amounts
              /\ ~c.moved /\ c.status = "failed"
            BY <1>1, <1>2, ZeroType, Zenon DEF Call, Steps, Status, CallOK
        <3>2. CallOK(c) /\ Pending(c) = Real(calls[s].amounts)
            BY <1>1, <1>2, <3>1, PendingAt, Zenon DEF CallOK, Unsent
        <3> QED
            BY <2>2, <3>1, <3>2, Zenon DEF NearWithdrawFails, Goto
    <2> QED
        BY <2>1, <2>2, Zenon
<1>4. Pending(calls[s]) = Plus(Real(calls[s].amounts), x)
    BY <1>1, <1>2, PendingAt, Zenon
<1>5. Releases(s, x, c)
    BY <1>2, <1>3, <1>4, AmountFacts, Zenon DEF Releases, Plus
<1> QED
    BY <1>5, ReleaseKeepsIInv, Zenon DEF NearWithdraw, NearWithdrawFails

(* The transfer by the token contract that do_*_withdraw calls keeps the   *)
(* invariant.                                                              *)
LEMMA SendKeepsIInv ==
    ASSUME IInv, NEW s \in Slots, Send(s)
    PROVE  IInv'
<1> DEFINE x == Real(calls[s].amounts)
           c == [calls[s] EXCEPT
                   !.step = IF calls[s].is_call THEN "receiver"
                                                ELSE "resolve_withdraw",
                   !.moved = TRUE]
<1>1. /\ calls[s].step = "send" /\ calls[s] \in Call /\ CallOK(calls[s])
      /\ calls[s].amounts \in [Tokens -> Nat]
    BY InFlight, Zenon DEF Send, At
<1>2. /\ c \in Call /\ c.moved /\ c.status = "ok"
      /\ c.amounts = calls[s].amounts
      /\ \/ c.step = "receiver" /\ c.is_call
         \/ c.step = "resolve_withdraw" /\ ~c.is_call
    <2>1. CASE calls[s].is_call
        <3>1. c = [calls[s] EXCEPT !.step = "receiver", !.moved = TRUE]
            BY <2>1, Zenon
        <3> HIDE DEF c
        <3>2. calls[s].is_call \in BOOLEAN /\ c.is_call = calls[s].is_call
            BY <1>1, <3>1, Zenon DEF Call
        <3>3. /\ c \in Call /\ c.moved /\ c.status = "ok" /\ c.step = "receiver"
              /\ c.amounts = calls[s].amounts
            BY <1>1, <3>1, Zenon DEF Call, Steps, CallOK
        <3> QED
            BY <2>1, <3>2, <3>3, Zenon
    <2>2. CASE ~calls[s].is_call
        <3>1. c = [calls[s] EXCEPT !.step = "resolve_withdraw", !.moved = TRUE]
            BY <2>2, Zenon
        <3> HIDE DEF c
        <3> QED
            BY <1>1, <2>2, <3>1, Zenon DEF Call, Steps, CallOK
    <2> QED
        BY <2>1, <2>2, Zenon
<1>3. calls' = [calls EXCEPT ![s] = c]
    BY Zenon DEF Send, Goto
<1>4. Pending(calls[s]) = x
    BY <1>1, PendingAt, Zenon
<1> HIDE DEF c
<1>5. CallOK(c) /\ Pending(c) = Zero
    BY <1>1, <1>2, PendingAt, Zenon DEF CallOK, Unsent
<1>6. Releases(s, x, c)
    <2>1. x \in [Tokens -> Nat] /\ \A t \in Tokens \ Honest : x[t] = 0
        BY <1>1, AmountFacts, Zenon
    <2>2. \A t \in Tokens : Zero[t] = 0
        BY Zenon DEF Zero
    <2> HIDE DEF x
    <2> QED
        BY <1>2, <1>3, <1>4, <1>5, <2>1, <2>2 DEF Releases
<1> QED
    BY <1>6, ReleaseKeepsIInv, Zenon DEF Send

(* A receiver that leaves part of a *_transfer_call unused keeps the       *)
(* invariant.                                                              *)
LEMMA ReceiverReturnsKeepsIInv ==
    ASSUME IInv, NEW s \in Slots, NEW r \in Reports, ReceiverReturns(s, r)
    PROVE  IInv'
<1> DEFINE b == calls[s].amounts
           c == [calls[s] EXCEPT !.step = "resolve_withdraw",
                                 !.reported = Minus(b, r)]
<1>1. /\ calls[s].step = "receiver" /\ calls[s] \in Call /\ CallOK(calls[s])
      /\ b \in Amounts /\ b \in [Tokens -> Nat]
    BY InFlight, Zenon DEF ReceiverReturns, At
<1>2. r \in [Tokens -> Nat] /\ AtMost(r, b)
    BY CustodyAssumption DEF ReceiverReturns, Amounts
<1>3. /\ Minus(b, r) \in Amounts
      /\ \A t \in Tokens : /\ Minus(b, r)[t] <= b[t]
                           /\ Minus(b, Minus(b, r))[t] = r[t]
    <2>1. ASSUME NEW t \in Tokens
          PROVE  /\ Minus(b, r)[t] \in 0 .. MaxAmount
                 /\ Minus(b, r)[t] <= b[t]
                 /\ b[t] - Minus(b, r)[t] = r[t]
        <3>1. /\ b[t] \in Nat /\ r[t] \in Nat /\ b[t] <= MaxAmount
              /\ r[t] <= b[t]
            BY <1>1, <1>2, AmountsType, Zenon DEF AtMost
        <3>2. Minus(b, r)[t] = b[t] - r[t]
            BY Zenon DEF Minus
        <3> HIDE DEF b
        <3> QED
            BY <3>1, <3>2, ConstantTypes
    <2>2. Minus(b, r) \in Amounts
        BY <2>1, Zenon DEF Minus, Amounts
    <2>3. \A t \in Tokens : Minus(b, Minus(b, r))[t] = b[t] - Minus(b, r)[t]
        BY Zenon DEF Minus
    <2> HIDE DEF b
    <2> QED
        BY <2>1, <2>2, <2>3, Zenon
<1>4. /\ c \in Call /\ c.step = "resolve_withdraw" /\ c.moved /\ c.is_call
      /\ c.status = "ok" /\ c.amounts = b /\ c.reported = Minus(b, r)
    BY <1>1, <1>3, Zenon DEF Call, Steps, CallOK
<1>5. calls' = [calls EXCEPT ![s] = c]
    BY Zenon DEF ReceiverReturns, Goto
<1> HIDE DEF c
<1>6. CallOK(c)
    BY <1>1, <1>3, <1>4, Zenon DEF CallOK, AtMost
<1>7. Pending(c) = Real(r)
    <2>1. Pending(c) = Real(Minus(b, Minus(b, r)))
        BY <1>4, PendingAt, Zenon DEF Unsent
    <2> QED
        BY <1>2, <1>3, <2>1, CustodyAssumption, Zenon DEF Real
<1>8. /\ Real(r) \in [Tokens -> Nat]
      /\ \A t \in Tokens \ Honest : Real(r)[t] = 0
      /\ CanReceive(Real(r))
    BY <1>2, AmountFacts, Zenon DEF ReceiverReturns, CanReceive
<1>9. BooksBalance
    BY <1>8, BooksTakeIn, Zenon DEF ReceiverReturns, ledgerVars
<1>10. Pending(calls[s]) = Zero
    BY <1>1, PendingAt, Zenon
<1>11. OwedMoves(s, c)
    BY <1>7, <1>8, <1>10, VariableTypes
    DEF OwedMoves, ReceiverReturns, Plus, Zero
<1>12. LedgerKept
    BY LedgerUnchanged, Zenon DEF ReceiverReturns
<1> QED
    BY <1>4, <1>5, <1>6, <1>9, <1>11, <1>12, ReceiptKeepsIInv, Zenon

(* What *_resolve_withdraw refunds of the honest tokens is still held, and *)
(* is all of it unless a transfer_call failed.                             *)
LEMMA RefundIsHeld ==
    ASSUME NEW c \in Call, CallOK(c), c.step = "resolve_withdraw"
    PROVE  /\ WithdrawRefund(c) \in [Tokens -> Nat]
           /\ Unsent(c) \in [Tokens -> Nat]
           /\ \A t \in Tokens \ Honest : Unsent(c)[t] = 0
           /\ \A t \in Honest : WithdrawRefund(c)[t] <= Unsent(c)[t]
           /\ ~(c.is_call /\ c.status = "failed") =>
                  \A t \in Honest : WithdrawRefund(c)[t] = Unsent(c)[t]
<1> USE CustodyAssumption
<1>1. /\ c.amounts \in [Tokens -> Nat] /\ c.reported \in [Tokens -> Nat]
      /\ c.is_call \in BOOLEAN /\ c.moved \in BOOLEAN /\ c.status \in Status
    BY DEF Call, Amounts
<1>2. Unsent(c) \in [Tokens -> Nat]
    BY PendingType, PendingAt, Zenon
<1>3. \A t \in Tokens \ Honest : Unsent(c)[t] = 0
    BY Zenon DEF Unsent, Real, Zero
<1>4. Used(c) \in {Least(c.reported, c.amounts), Zero, c.amounts}
    BY Zenon DEF Used
<1>5. \A t \in Tokens : WithdrawRefund(c)[t] = c.amounts[t] - Used(c)[t]
    BY Zenon DEF WithdrawRefund, Minus
<1>6. \A t \in Tokens : Used(c)[t] \in Nat /\ Used(c)[t] <= c.amounts[t]
    BY <1>1, <1>4 DEF Least, Zero
<1>7. WithdrawRefund(c) \in [Tokens -> Nat]
    BY <1>1, <1>6 DEF WithdrawRefund, Minus
<1>8. CASE c.moved /\ c.is_call /\ c.status = "ok"
    <2>1. AtMost(c.reported, c.amounts)
        BY <1>8, Zenon DEF CallOK
    <2>2. Used(c) = Least(c.reported, c.amounts)
        BY <1>8, Zenon DEF Used
    <2>3. \A t \in Tokens : Used(c)[t] = c.reported[t]
        BY <1>1, <2>1, <2>2, Zenon DEF Least, AtMost
    <2>4. \A t \in Honest : Unsent(c)[t] = c.amounts[t] - c.reported[t]
        BY <1>8, Zenon DEF Unsent, Real, Minus
    <2>5. \A t \in Honest : Unsent(c)[t] = WithdrawRefund(c)[t]
        BY <1>5, <2>3, <2>4, Zenon
    <2> QED
        BY <1>2, <1>3, <1>7, <2>5
<1>9. CASE c.status = "failed" /\ c.is_call
    <2>1. Used(c) = c.amounts
        BY <1>9, Zenon DEF Used
    <2>2. \A t \in Tokens : WithdrawRefund(c)[t] = 0
        BY <1>1, <1>5, <2>1
    <2> QED
        BY <1>2, <1>3, <1>7, <1>9, <2>2
<1>10. CASE c.moved /\ ~c.is_call
    <2>1. c.status = "ok"
        BY <1>10, Zenon DEF CallOK
    <2>2. Used(c) = c.amounts
        BY <1>10, <2>1, Zenon DEF Used
    <2>3. \A t \in Honest : WithdrawRefund(c)[t] = 0 /\ Unsent(c)[t] = 0
        <3>1. Unsent(c) = Zero
            BY <1>10, Zenon DEF Unsent
        <3>2. \A t \in Tokens : c.amounts[t] - c.amounts[t] = 0 /\ Zero[t] = 0
            BY <1>1 DEF Zero
        <3> QED
            BY <1>5, <2>2, <3>1, <3>2, ConstantTypes, Zenon
    <2> QED
        BY <1>2, <1>3, <1>7, <2>3
<1>11. CASE ~c.moved /\ c.status = "failed" /\ ~c.is_call
    <2>1. Used(c) = Zero
        BY <1>11, Zenon DEF Used
    <2>2. \A t \in Honest : WithdrawRefund(c)[t] = c.amounts[t]
        <3>1. \A t \in Tokens : Zero[t] = 0 /\ c.amounts[t] - 0 = c.amounts[t]
            BY <1>1 DEF Zero
        <3> QED
            BY <1>5, <2>1, <3>1, ConstantTypes, Zenon
    <2>3. \A t \in Honest : Unsent(c)[t] = c.amounts[t]
        BY <1>11, Zenon DEF Unsent, Real
    <2> QED
        BY <1>1, <1>2, <1>3, <1>7, <2>2, <2>3
<1>12. CASE ~c.moved /\ \A t \in Honest : c.amounts[t] = 0
    <2>1. \A t \in Honest : Unsent(c)[t] = 0
        BY <1>12, Zenon DEF Unsent, Real
    <2>2. \A t \in Honest : WithdrawRefund(c)[t] = 0
        BY <1>1, <1>5, <1>6, <1>12
    <2> QED
        BY <1>2, <1>3, <1>7, <2>1, <2>2
<1> QED
    BY <1>1, <1>8, <1>9, <1>10, <1>11, <1>12, Zenon DEF CallOK

(* *_resolve_withdraw whose refund is refused keeps the invariant.         *)
LEMMA ResolveWithdrawPanicKeepsIInv ==
    ASSUME IInv, NEW s \in Slots, ResolveWithdrawPanic(s)
    PROVE  IInv'
<1>1. calls[s].step = "resolve_withdraw" /\ Finish(s)
    BY Zenon DEF ResolveWithdrawPanic, At
<1>2. calls[s] \in Call /\ CallOK(calls[s])
    BY <1>1, InFlight, Zenon
<1>3. Pending(calls[s]) = Unsent(calls[s])
    BY <1>1, <1>2, PendingAt, Zenon
<1>4. Releases(s, Pending(calls[s]), Idle)
    <2>1. \A t \in Tokens \ Honest : Pending(calls[s])[t] = 0
        BY <1>1, <1>2, <1>3, RefundIsHeld, Zenon
    <2> QED
        BY <1>1, <2>1, EndReleases, Zenon
<1> QED
    BY <1>3, <1>4, ReleaseKeepsIInv, Zenon DEF ResolveWithdrawPanic

(* *_resolve_withdraw keeps the invariant.                                 *)
LEMMA ResolveWithdrawKeepsIInv ==
    ASSUME IInv, NEW s \in Slots, ResolveWithdraw(s)
    PROVE  IInv'
<1> DEFINE u == Unsent(calls[s])
           r == WithdrawRefund(calls[s])
<1>1. /\ calls[s].step = "resolve_withdraw" /\ calls[s] \in Call
      /\ CallOK(calls[s]) /\ calls[s].owner \in Accounts
    BY InFlight, Zenon DEF ResolveWithdraw, At
<1>2. /\ Deposit(calls[s].owner, r)
      /\ owed' = Minus(owed, u)
      /\ stranded' = Plus(stranded, Minus(u, Real(r)))
      /\ calls' = [calls EXCEPT ![s] = Idle]
      /\ UNCHANGED <<locked, held>>
    BY Zenon DEF ResolveWithdraw, Finish, Goto
<1>3. /\ r \in [Tokens -> Nat] /\ u \in [Tokens -> Nat]
      /\ \A t \in Tokens \ Honest : u[t] = 0
      /\ \A t \in Honest : r[t] <= u[t]
    BY <1>1, RefundIsHeld, Zenon
<1>4. Pending(calls[s]) = u /\ Pending(Idle) = Zero
    BY <1>1, PendingAt, Zenon
<1> HIDE DEF u, r
<1>5. LedgerKept /\ \A t \in Tokens : supplies'[t] = supplies[t] + r[t]
    BY <1>1, <1>2, <1>3, DepositKeepsLedger, Zenon DEF IInv, LedgerKept, TypeOK
<1>6. /\ \A t \in Tokens : owed'[t] = owed[t] - u[t]
      /\ \A t \in Honest : stranded'[t] = stranded[t] + (u[t] - r[t])
      /\ owed' \in [Tokens -> Int] /\ stranded' \in [Tokens -> Int]
    <2>1. /\ owed \in [Tokens -> Int] /\ stranded \in [Tokens -> Int]
          /\ Honest \subseteq Tokens
        BY VariableTypes, Zenon
    <2>2. \A t \in Tokens : owed'[t] = owed[t] - u[t]
        BY <1>2, Zenon DEF Minus
    <2>3. owed' \in [Tokens -> Int]
        BY <1>2, <1>3, <2>1 DEF Minus
    <2>4. /\ Real(r) \in [Tokens -> Nat]
          /\ \A t \in Honest : Real(r)[t] = r[t]
        BY <1>3, AmountFacts, Zenon
    <2>5. Minus(u, Real(r)) \in [Tokens -> Int]
        BY <1>3, <2>4 DEF Minus
    <2>6. \A t \in Honest : Minus(u, Real(r))[t] = u[t] - r[t]
        BY <2>1, <2>4, Zenon DEF Minus
    <2>7. stranded' \in [Tokens -> Int]
        BY <1>2, <2>1, <2>5 DEF Plus
    <2>8. \A t \in Honest : stranded'[t] = stranded[t] + (u[t] - r[t])
        BY <1>2, <2>1, <2>6, Zenon DEF Plus
    <2> QED
        BY <2>2, <2>3, <2>7, <2>8, Zenon
<1>7. BooksBalance
    <2>1. ASSUME NEW t \in Honest
          PROVE  /\ held'[t] - held[t] = (supplies'[t] - supplies[t])
                                       + (owed'[t] - owed[t])
                                       + (stranded'[t] - stranded[t])
                 /\ stranded'[t] >= 0
        <3>1. /\ r[t] \in Nat /\ u[t] \in Nat /\ r[t] <= u[t]
              /\ supplies'[t] = supplies[t] + r[t]
              /\ owed'[t] = owed[t] - u[t]
              /\ stranded'[t] = stranded[t] + (u[t] - r[t])
              /\ held'[t] = held[t]
            BY <1>2, <1>3, <1>5, <1>6, VariableTypes, Zenon
        <3>2. /\ supplies[t] \in Nat /\ owed[t] \in Nat /\ held[t] \in Nat
              /\ stranded[t] \in Int /\ stranded[t] >= 0
            BY VariableTypes, Zenon
        <3>3. supplies'[t] - supplies[t] = r[t] /\ held'[t] - held[t] = 0
            BY <3>1, <3>2
        <3>4. owed'[t] - owed[t] = 0 - u[t]
            <4>1. owed'[t] = owed[t] - u[t] /\ owed[t] \in Nat /\ u[t] \in Nat
                BY <3>1, <3>2, Zenon
            <4> QED
                BY <4>1
        <3>5. /\ stranded'[t] - stranded[t] = u[t] - r[t]
              /\ stranded'[t] >= 0
            BY <3>1, <3>2
        <3>6. 0 = r[t] + (0 - u[t]) + (u[t] - r[t])
            BY <3>1
        <3> QED
            BY <3>3, <3>4, <3>5, <3>6, Zenon
    <2> QED
        BY <1>2, <1>6, <2>1, VariableTypes DEF BooksBalance
<1>8. OwedMoves(s, Idle)
    BY <1>3, <1>4, <1>6, VariableTypes DEF OwedMoves, Zero
<1> QED
    BY <1>2, <1>5, <1>7, <1>8, IdleOK, ReceiptKeepsIInv, Zenon

(* x leaves the ledger for the call c.                                     *)
LEMMA DebitKeepsIInv ==
    ASSUME IInv, NEW s \in Slots, NEW c \in Call, CallOK(c),
           calls' = [calls EXCEPT ![s] = c], Pending(calls[s]) = Zero,
           NEW x \in [Tokens -> Nat], Pending(c) = Real(x),
           LedgerKept, \A t \in Tokens : supplies'[t] = supplies[t] - x[t],
           owed' = Plus(owed, Real(x)), UNCHANGED <<held, stranded>>
    PROVE  IInv'
<1>1. /\ Real(x) \in [Tokens -> Nat]
      /\ \A t \in Tokens \ Honest : Real(x)[t] = 0
      /\ \A t \in Honest : supplies'[t] = supplies[t] - Real(x)[t]
    BY AmountFacts, VariableTypes, Zenon
<1>2. BooksBalance
    BY <1>1, BooksDebit, Zenon
<1>3. OwedMoves(s, c)
    BY <1>1, VariableTypes DEF OwedMoves, Plus, Zero
<1> QED
    BY <1>2, <1>3, ReceiptKeepsIInv, Zenon

(* *_resolve_deposit keeps the invariant.                                  *)
LEMMA ResolveDepositKeepsIInv ==
    ASSUME IInv, NEW s \in Slots, NEW q \in Answers, ResolveDeposit(s, q)
    PROVE  IInv'
<1> DEFINE r == DepositRefund(s, q)
           c == [calls[s] EXCEPT !.step = "refund_deposit", !.amounts = r]
<1>1. /\ calls[s].step = "resolve_deposit" /\ calls[s] \in Call
      /\ calls[s].owner \in Accounts /\ calls[s].amounts \in Amounts
    BY InFlight, Zenon DEF ResolveDeposit, At
<1>2. q \in Amounts
    BY AnswersType, Zenon
<1>3. balances[calls[s].owner] \in Amounts
    BY <1>1, Zenon DEF IInv, TypeOK
<1>4. r \in Amounts /\ r \in [Tokens -> Nat]
    <2>1. Least(q, calls[s].amounts) \in [Tokens -> Nat]
        BY <1>1, <1>2, AmountsType, LeastType, Zenon
    <2> QED
        BY <1>3, <2>1, AmountsType, LeastType, Zenon DEF DepositRefund
<1>5. /\ CanBurn(calls[s].owner, r)
      /\ balances' = [balances EXCEPT ![calls[s].owner] = Minus(@, r)]
      /\ supplies' = Minus(supplies, r)
      /\ owed' = Plus(owed, Real(r))
      /\ calls' = [calls EXCEPT ![s] = c]
      /\ UNCHANGED <<locked, held, stranded>>
    BY Zenon DEF ResolveDeposit, Goto
<1> HIDE DEF r
<1>6. c \in Call /\ c.step = "refund_deposit" /\ c.amounts = r
    BY <1>1, <1>4, Zenon DEF Call, Steps
<1> HIDE DEF c
<1>7. CallOK(c) /\ Pending(c) = Real(r) /\ Pending(calls[s]) = Zero
    BY <1>1, <1>6, PendingAt, Zenon DEF CallOK
<1>8. LedgerKept /\ \A t \in Tokens : supplies'[t] = supplies[t] - r[t]
    BY <1>1, <1>4, <1>5, BurnKeepsLedger, Zenon DEF IInv, LedgerKept, TypeOK
<1> QED
    BY <1>4, <1>5, <1>6, <1>7, <1>8, DebitKeepsIInv, Zenon

(* internal_*_withdraw, forced or not, keeps the invariant.                *)
LEMMA StartWithdrawKeepsIInv ==
    ASSUME IInv, NEW s \in Slots, NEW a \in Accounts, NEW b \in Batches,
           NEW n \in 0 .. MaxStorage, NEW is_call \in BOOLEAN, NEW force,
           StartWithdraw(s, a, b, n, is_call, force)
    PROVE  IInv'
<1> DEFINE w == Only(wnear, n)
           x == Plus(b, w)
           step == IF n > 0 THEN "near_withdraw" ELSE "send"
           c == [NewCall(step, a, a, b) EXCEPT !.storage = n, !.is_call = is_call]
<1>1. /\ b \in Amounts /\ b \in [Tokens -> Nat]
      /\ n \in Nat /\ n \in 0 .. MaxAmount
      /\ Unmixed(b)
    BY CustodyAssumption DEF Amounts, OfHonestToken, Unmixed
<1>2. /\ At(s, "idle") /\ Withdraw(a, x, force)
      /\ calls' = [calls EXCEPT ![s] = c]
      /\ owed' = Plus(owed, Plus(Real(b), w))
      /\ UNCHANGED <<locked, held, stranded>>
    BY Zenon DEF StartWithdraw, Goto
<1>3. /\ c \in Call /\ c.step = step /\ c.amounts = b /\ c.storage = n
      /\ c.moved = FALSE /\ c.status = "ok"
    BY <1>1, ZeroType, Zenon DEF NewCall, Call, Steps, Status
<1> HIDE DEF c
<1>4. /\ w \in [Tokens -> Nat] /\ Real(b) \in [Tokens -> Nat]
      /\ x \in [Tokens -> Nat] /\ Real(x) = Plus(Real(b), w)
    BY <1>1, CustodyAssumption DEF Real, Plus, Only
<1>5. Pending(c) = Plus(Real(b), w)
    <2>1. CASE n > 0
        BY <1>3, <2>1, PendingAt, Zenon
    <2>2. CASE n = 0
        <3>1. Pending(c) = Real(b)
            BY <1>3, <2>2, PendingAt
        <3>2. \A t \in Tokens : w[t] = 0
            BY <2>2, Zenon DEF Only
        <3>3. Plus(Real(b), w) = [t \in Tokens |-> Real(b)[t]]
            <4> HIDE DEF w
            <4> QED
                BY <1>4, <3>2 DEF Plus
        <3> QED
            BY <1>4, <3>1, <3>3, Zenon
    <2> QED
        BY <1>1, <2>1, <2>2
<1>6. CallOK(c) /\ Pending(calls[s]) = Zero
    BY <1>1, <1>2, <1>3, FreeSlot, Zenon DEF CallOK
<1> HIDE DEF x, w
<1>7. LedgerKept /\ \A t \in Tokens : supplies'[t] = supplies[t] - x[t]
    BY <1>2, <1>4, BurnKeepsLedger, Zenon DEF Withdraw, IInv, LedgerKept, TypeOK
<1> QED
    BY <1>2, <1>3, <1>4, <1>5, <1>6, <1>7, DebitKeepsIInv, Zenon

(* The intents that burn wNEAR to spend it as NEAR keep the invariant.     *)
LEMMA StartUnwrapKeepsIInv ==
    ASSUME IInv, NEW s \in Slots, NEW a \in Accounts, NEW n \in 1 .. MaxStorage,
           StartUnwrap(s, a, n)
    PROVE  IInv'
<1> DEFINE x == Only(wnear, n)
           c == [NewCall("unwrap", a, a, Zero) EXCEPT !.storage = n]
<1>1. n \in Nat /\ n \in 0 .. MaxAmount
    BY CustodyAssumption
<1>2. /\ At(s, "idle") /\ Withdraw(a, x, FALSE)
      /\ calls' = [calls EXCEPT ![s] = c]
      /\ owed' = Plus(owed, x)
      /\ UNCHANGED <<locked, held, stranded>>
    BY Zenon DEF StartUnwrap, Goto
<1>3. c \in Call /\ c.step = "unwrap" /\ c.storage = n
    BY <1>1, ZeroType, Zenon DEF NewCall, Call, Steps, Status
<1> HIDE DEF c
<1>4. x \in [Tokens -> Nat] /\ Real(x) = x
    BY <1>1, CustodyAssumption, Zenon DEF Real, Only
<1>5. Pending(c) = Real(x)
    BY <1>3, <1>4, PendingAt, Zenon
<1>6. CallOK(c) /\ Pending(calls[s]) = Zero
    BY <1>2, <1>3, FreeSlot, Zenon DEF CallOK
<1> HIDE DEF x
<1>7. LedgerKept /\ \A t \in Tokens : supplies'[t] = supplies[t] - x[t]
    BY <1>2, <1>4, BurnKeepsLedger, Zenon DEF Withdraw, IInv, LedgerKept, TypeOK
<1> QED
    BY <1>2, <1>3, <1>4, <1>5, <1>6, <1>7, DebitKeepsIInv, Zenon

(* A receipt that changes only the ledger, and no supply of an honest      *)
(* token, and a call that is about to move nothing.                        *)
LEMMA InternalKeepsIInv ==
    ASSUME IInv, LedgerKept, UNCHANGED <<held, owed, stranded>>,
           \A t \in Honest : supplies'[t] = supplies[t],
           \/ calls' = calls
           \/ \E s \in Slots, c \in {Idle} \cup Call :
                 /\ calls' = [calls EXCEPT ![s] = c]
                 /\ CallOK(c) /\ Pending(c) = Zero /\ Pending(calls[s]) = Zero
    PROVE  IInv'
<1>1. BooksBalance
    BY BooksUntouched, Zenon
<1>2. CASE calls' = calls
    <2>1. TypeOK'
        BY <1>2, Zenon DEF IInv, TypeOK, LedgerKept
    <2>2. CallsInv'
        BY <1>2, Zenon DEF IInv, CallsInv, PendingOf
    <2>3. BooksInv'
        BY VariableTypes, Zenon DEF IInv, BooksInv
    <2> QED
        BY <2>1, <2>2, <2>3, Zenon DEF IInv, LedgerKept
<1>3. ASSUME NEW s \in Slots, NEW c \in {Idle} \cup Call,
             calls' = [calls EXCEPT ![s] = c],
             CallOK(c), Pending(c) = Zero, Pending(calls[s]) = Zero
      PROVE  IInv'
    <2>1. OwedMoves(s, c)
        <3>1. \A t \in Tokens : Zero[t] = 0
            BY Zenon DEF Zero
        <3>2. \A t \in Tokens : owed'[t] = owed[t] /\ owed[t] \in Nat
            BY VariableTypes, Zenon
        <3> QED
            BY <1>3, <3>1, <3>2 DEF OwedMoves
    <2> QED
        BY <1>1, <1>3, <2>1, ReceiptKeepsIInv, Zenon
<1> QED
    BY <1>2, <1>3, Zenon

(* The call that notifies the receiver of a transfer or a mint is well     *)
(* formed and holds no tokens.                                             *)
LEMMA NotifyCallOK ==
    ASSUME NEW a \in Accounts, NEW q \in Accounts, NEW b \in Amounts
    PROVE  LET c == NewCall("resolve_transfer", a, q, b)
           IN  c \in {Idle} \cup Call /\ CallOK(c) /\ Pending(c) = Zero
<1> DEFINE c == NewCall("resolve_transfer", a, q, b)
<1>1. c \in Call /\ c.step = "resolve_transfer"
    BY ZeroType, Zenon DEF NewCall, Call, Steps, Status
<1> HIDE DEF c
<1>2. c \in {Idle} \cup Call /\ CallOK(c) /\ Pending(c) = Zero
    BY <1>1, PendingAt, Zenon DEF CallOK
<1> QED
    BY <1>2, Zenon DEF c

(* mt_batch_transfer and mt_batch_transfer_call, forced or not, keep the   *)
(* invariant.                                                              *)
LEMMA TransferActionKeepsIInv ==
    ASSUME IInv, NEW a \in Accounts, NEW q \in Accounts, NEW b \in Transfers,
           NEW force,
           \/ Transfer(a, q, b, force)
           \/ \E s \in Slots : TransferCall(s, a, q, b, force)
    PROVE  IInv'
<1>1. b \in Amounts /\ b \in [Tokens -> Nat]
    BY CustodyAssumption DEF Amounts
<1>2. /\ AtMost(b, balances[a]) /\ balances' = Transferred(balances, a, q, b)
      /\ UNCHANGED <<supplies, locked, held, owed, stranded>>
    BY Zenon DEF Transfer, TransferCall, CanTransfer
<1>3. LedgerKept
    BY <1>1, <1>2, TransferKeepsLedger, Zenon DEF IInv, LedgerKept, TypeOK
<1>4. \/ calls' = calls
      \/ \E s \in Slots, c \in {Idle} \cup Call :
            /\ calls' = [calls EXCEPT ![s] = c]
            /\ CallOK(c) /\ Pending(c) = Zero /\ Pending(calls[s]) = Zero
    <2>1. CASE Transfer(a, q, b, force)
        BY <2>1, Zenon DEF Transfer
    <2>2. ASSUME NEW s \in Slots, TransferCall(s, a, q, b, force)
          PROVE  \E c \in {Idle} \cup Call :
                    /\ calls' = [calls EXCEPT ![s] = c]
                    /\ CallOK(c) /\ Pending(c) = Zero /\ Pending(calls[s]) = Zero
        BY <1>1, <2>2, NotifyCallOK, FreeSlot, Zenon DEF TransferCall, Goto
    <2> QED
        BY <2>1, <2>2, Zenon
<1> QED
    BY <1>2, <1>3, <1>4, InternalKeepsIInv, Zenon

(* mt_resolve_transfer keeps the invariant.                                *)
LEMMA ResolveTransferKeepsIInv ==
    ASSUME IInv, NEW s \in Slots, NEW r \in Answers, ResolveTransfer(s, r)
    PROVE  IInv'
<1> DEFINE b == TransferRefund(s, r)
<1>1. /\ calls[s].step = "resolve_transfer" /\ calls[s] \in Call
      /\ calls[s].owner \in Accounts /\ calls[s].peer \in Accounts
      /\ calls[s].amounts \in Amounts
    BY InFlight, Zenon DEF ResolveTransfer, At
<1>2. r \in Amounts /\ balances[calls[s].peer] \in Amounts
    BY <1>1, AnswersType, Zenon DEF IInv, TypeOK
<1>3. b \in [Tokens -> Nat]
    <2>1. Least(r, calls[s].amounts) \in [Tokens -> Nat]
        BY <1>1, <1>2, AmountsType, LeastType, Zenon
    <2> QED
        BY <1>2, <2>1, AmountsType, LeastType, Zenon DEF TransferRefund
<1>4. /\ AtMost(b, balances[calls[s].peer])
      /\ balances' = Transferred(balances, calls[s].peer, calls[s].owner, b)
      /\ calls' = [calls EXCEPT ![s] = Idle]
      /\ UNCHANGED <<supplies, locked, held, owed, stranded>>
    BY Zenon DEF ResolveTransfer, CanReturn, Returned, Finish, Goto
<1> HIDE DEF b
<1>5. LedgerKept
    BY <1>1, <1>3, <1>4, TransferKeepsLedger, Zenon DEF IInv, LedgerKept, TypeOK
<1>6. Pending(calls[s]) = Zero /\ Pending(Idle) = Zero
    BY <1>1, PendingAt, Zenon
<1> QED
    BY <1>4, <1>5, <1>6, IdleOK, InternalKeepsIInv, Zenon

(* The imt_mint intent keeps the invariant.                                *)
LEMMA MintKeepsIInv ==
    ASSUME IInv, NEW a \in Accounts, NEW b \in Mints,
           \/ Mint(a, b)
           \/ \E s \in Slots, m \in Accounts : MintNotify(s, m, a, b)
    PROVE  IInv'
<1>1. /\ b \in Amounts /\ b \in [Tokens -> Nat] /\ \A t \in Honest : b[t] = 0
    BY CustodyAssumption DEF Amounts
<1>2. Deposit(a, b) /\ UNCHANGED <<locked, held, owed, stranded>>
    BY Zenon DEF Mint, MintNotify
<1>3. LedgerKept /\ \A t \in Tokens : supplies'[t] = supplies[t] + b[t]
    BY <1>1, <1>2, DepositKeepsLedger, Zenon DEF IInv, LedgerKept, TypeOK
<1>4. \A t \in Honest : supplies'[t] = supplies[t]
    BY <1>1, <1>3, VariableTypes
<1>5. \/ calls' = calls
      \/ \E s \in Slots, c \in {Idle} \cup Call :
            /\ calls' = [calls EXCEPT ![s] = c]
            /\ CallOK(c) /\ Pending(c) = Zero /\ Pending(calls[s]) = Zero
    <2>1. CASE Mint(a, b)
        BY <2>1, Zenon DEF Mint
    <2>2. ASSUME NEW s \in Slots, NEW m \in Accounts, MintNotify(s, m, a, b)
          PROVE  \E c \in {Idle} \cup Call :
                    /\ calls' = [calls EXCEPT ![s] = c]
                    /\ CallOK(c) /\ Pending(c) = Zero /\ Pending(calls[s]) = Zero
        BY <1>1, <2>2, NotifyCallOK, FreeSlot, Zenon DEF MintNotify, Goto
    <2> QED
        BY <2>1, <2>2, Zenon
<1> QED
    BY <1>2, <1>3, <1>4, <1>5, InternalKeepsIInv, Zenon

(* The imt_burn intent keeps the invariant.                                *)
LEMMA BurnKeepsIInv ==
    ASSUME IInv, NEW a \in Accounts, NEW b \in Mints, Burn(a, b)
    PROVE  IInv'
<1>1. b \in [Tokens -> Nat] /\ \A t \in Honest : b[t] = 0
    BY CustodyAssumption DEF Amounts
<1>2. /\ CanBurn(a, b)
      /\ balances' = [balances EXCEPT ![a] = Minus(@, b)]
      /\ supplies' = Minus(supplies, b)
      /\ UNCHANGED <<locked, calls, held, owed, stranded>>
    BY Zenon DEF Burn, Withdraw
<1>3. LedgerKept /\ \A t \in Tokens : supplies'[t] = supplies[t] - b[t]
    BY <1>1, <1>2, BurnKeepsLedger, Zenon DEF IInv, LedgerKept, TypeOK
<1>4. \A t \in Honest : supplies'[t] = supplies[t]
    BY <1>1, <1>3, VariableTypes
<1> QED
    BY <1>2, <1>3, <1>4, InternalKeepsIInv, Zenon

(* Locking and unlocking an account keeps the invariant.                   *)
LEMMA LockKeepsIInv ==
    ASSUME IInv, NEW a \in Accounts, Lock(a) \/ Unlock(a)
    PROVE  IInv'
<1>1. /\ UNCHANGED <<balances, supplies, calls, held, owed, stranded>>
      /\ locked' \subseteq Accounts
    BY Zenon DEF Lock, Unlock, IInv, TypeOK
<1>2. LedgerKept
    BY <1>1, Zenon DEF IInv, TypeOK, LedgerInv, LedgerKept, BalancesOf
<1> QED
    BY <1>1, <1>2, InternalKeepsIInv, Zenon
-----------------------------------------------------------------------------
(* Every receipt of a call in flight keeps the invariant.                  *)
LEMMA ContinueKeepsIInv ==
    ASSUME IInv, NEW s \in Slots, Continue(s)
    PROVE  IInv'
BY OnTransferKeepsIInv, OnTransferExecuteKeepsIInv, RelabelKeepsIInv,
   ResolveDepositKeepsIInv, RefundDepositKeepsIInv, NearWithdrawKeepsIInv,
   SendKeepsIInv, ReceiverReturnsKeepsIInv, ResolveWithdrawKeepsIInv,
   ResolveWithdrawPanicKeepsIInv, UnwrapKeepsIInv, ResolveTransferKeepsIInv, Zenon
   DEF Continue

(* Every receipt that starts a call keeps the invariant.                   *)
LEMMA StartKeepsIInv ==
    ASSUME IInv, NEW s \in Slots, Start(s)
    PROVE  IInv'
<1>1. 0 \in 0 .. MaxStorage
    BY CustodyAssumption
<1> QED
    BY <1>1, SendDepositKeepsIInv, StartWithdrawKeepsIInv,
       StartUnwrapKeepsIInv, TransferActionKeepsIInv, MintKeepsIInv, Zenon
    DEF Start

(* The invariant is inductive.                                             *)
LEMMA NextKeepsIInv == IInv /\ [Next]_vars => IInv'
<1> SUFFICES ASSUME IInv, [Next]_vars PROVE IInv'
    BY Zenon
<1>1. CASE Next
    BY <1>1, ContinueKeepsIInv, StartKeepsIInv, TransferActionKeepsIInv,
       MintKeepsIInv, BurnKeepsIInv, LockKeepsIInv, Zenon
    DEF Next
<1>2. CASE UNCHANGED vars
    <2>1. UNCHANGED <<held, owed, stranded, calls, supplies>> /\ UNCHANGED ledgerVars
        BY <1>2, Zenon DEF vars, ledgerVars
    <2> QED
        BY <2>1, LedgerUnchanged, InternalKeepsIInv, Zenon
<1> QED
    BY <1>1, <1>2, Zenon

(* The inductive invariant holds in every reachable state.                 *)
THEOREM Invariance == Spec => []IInv
BY InitIInv, NextKeepsIInv, PTL DEF Spec

(* Every variable keeps its type: no checked addition or subtraction that  *)
(* the code lets through leaves the range of a u128.                       *)
THEOREM TypeCorrect == Spec => []TypeOK
<1>1. IInv => TypeOK
    BY Zenon DEF IInv
<1> QED
    BY <1>1, Invariance, PTL

(* The Verifier is solvent: see Solvent.                                   *)
THEOREM Solvency == Spec => []Solvent
<1>1. IInv => Solvent
    BY VariableTypes DEF IInv, BooksInv, Solvent
<1> QED
    BY <1>1, Invariance, PTL

(* The supplies are the sums of the balances, what is owed is what calls   *)
(* in flight are about to move, and an NFT is credited at most once: see   *)
(* LedgerAddsUp.                                                           *)
THEOREM LedgerIsExact == Spec => []LedgerAddsUp
<1>1. IInv => LedgerAddsUp
    BY Zenon DEF IInv, LedgerInv, CallsInv, SumsTo, LedgerAddsUp, SuppliesAreSums,
           NftsAreUnique
<1> QED
    BY <1>1, Invariance, PTL

(* What one call is about to move is part of what is owed.                 *)
LEMMA PendingIsOwed ==
    ASSUME IInv, NEW s \in Slots, NEW t \in Tokens
    PROVE  Pending(calls[s])[t] <= owed[t]
<1>1. \A r \in Slots : Pending(calls[r]) \in [Tokens -> Nat]
    BY PendingType, Zenon DEF IInv, TypeOK, CallsInv
<1>2. /\ PendingOf(t) \in [Slots -> Nat]
      /\ PendingOf(t)[s] = Pending(calls[s])[t]
      /\ Pending(calls[s])[t] \in Nat
    BY <1>1, Zenon DEF PendingOf
<1>3. owed[t] \in Nat /\ SumsTo(PendingOf(t), Slots, owed[t])
    BY Zenon DEF IInv, CallsInv
<1>4. \A x \in Slots \ {s} : PendingOf(t)[x] = PendingOf(t)[x]
    BY Zenon
<1> QED
    BY <1>2, <1>3, <1>4, SumUpdate, Zenon

(* A refund inside the Verifier overflows nothing.                         *)
LEMMA ReturnFits ==
    ASSUME IInv, NEW p \in Accounts, NEW q \in Accounts,
           NEW b \in [Tokens -> Nat], AtMost(b, balances[p])
    PROVE  AtMost(Transferred(balances, p, q, b)[q], Everything)
<1> SUFFICES ASSUME NEW t \in Tokens
             PROVE  Transferred(balances, p, q, b)[q][t] <= MaxAmount
    BY Zenon DEF AtMost, Everything
<1> DEFINE f == BalancesOf(t)
           h == [a \in Accounts |-> Transferred(balances, p, q, b)[a][t]]
           tot == supplies[t]
           n == b[t]
<1>1. balances \in [Accounts -> [Tokens -> Nat]]
    BY DEF IInv, TypeOK, Amounts
<1>2. /\ f \in [Accounts -> Nat] /\ h \in [Accounts -> Nat]
      /\ \A a \in Accounts : f[a] = balances[a][t]
      /\ \A a \in Accounts : h[a] = balances[a][t] - (IF a = p THEN b[t] ELSE 0)
                                                   + (IF a = q THEN b[t] ELSE 0)
    BY <1>1, TransferType DEF BalancesOf
<1>3. tot \in Nat /\ tot <= MaxAmount /\ SumsTo(f, Accounts, tot)
    BY CustodyAssumption DEF IInv, TypeOK, Amounts, LedgerInv
<1>4. n \in Nat /\ n <= f[p]
    BY <1>2, Zenon DEF AtMost
<1>5. Transferred(balances, p, q, b)[q][t] = h[q]
    BY Zenon
<1> HIDE DEF f, h, tot
<1>6. \A a \in Accounts : h[a] = f[a] - (IF a = p THEN n ELSE 0)
                                      + (IF a = q THEN n ELSE 0)
    BY <1>2, Zenon
<1> HIDE DEF n
<1>7. /\ p = q => h[p] = f[p]
      /\ p # q => h[p] = f[p] - n /\ h[q] = f[q] + n
      /\ \A x \in Accounts \ {p, q} : h[x] = f[x]
    BY <1>2, <1>4, <1>6
<1>8. h[q] <= tot
    <2>1. f \in [Accounts -> Nat] /\ h \in [Accounts -> Nat]
        BY <1>2, Zenon
    <2> QED
        BY <1>3, <1>4, <1>7, <2>1, SumMove
<1>9. h[q] \in Nat
    BY <1>2, Zenon
<1> QED
    BY <1>3, <1>5, <1>8, <1>9, ConstantTypes

(* The refund of a withdrawal of honest tokens is never refused.           *)
LEMMA RefundFits ==
    ASSUME IInv, NEW s \in Slots, At(s, "resolve_withdraw"),
           OfHonestToken(calls[s].amounts)
    PROVE  CanDeposit(calls[s].owner, WithdrawRefund(calls[s]))
<1> DEFINE a == calls[s].owner
           r == WithdrawRefund(calls[s])
<1>1. /\ calls[s] \in Call /\ CallOK(calls[s]) /\ a \in Accounts
      /\ calls[s].step = "resolve_withdraw"
      /\ calls[s].amounts \in [Tokens -> Nat]
      /\ calls[s].reported \in [Tokens -> Nat]
    BY InFlight, Zenon DEF At
<1>2. /\ r \in [Tokens -> Nat] /\ Unsent(calls[s]) \in [Tokens -> Nat]
      /\ \A t \in Honest : r[t] <= Unsent(calls[s])[t]
    BY <1>1, RefundIsHeld, Zenon
<1>3. \A t \in Honest : Unsent(calls[s])[t] <= owed[t]
    BY <1>1, PendingAt, PendingIsOwed, VariableTypes, Zenon
<1>4. \A t \in Tokens \ Honest : r[t] = 0
    <2>1. Used(calls[s]) \in
             {Least(calls[s].reported, calls[s].amounts), Zero, calls[s].amounts}
        BY <1>1, Zenon DEF Used, Call, Status
    <2>2. calls[s].reported \in [Tokens -> Nat]
        BY <1>1, Zenon
    <2>3. \A t \in Tokens \ Honest : calls[s].amounts[t] = 0
        BY Zenon DEF OfHonestToken
    <2>4. \A t \in Tokens \ Honest : Used(calls[s])[t] = 0
        <3> TAKE t \in Tokens \ Honest
        <3>1. /\ calls[s].amounts[t] = 0 /\ calls[s].reported[t] \in Nat
              /\ Zero[t] = 0
            BY <2>2, <2>3, Zenon DEF Zero
        <3>2. Least(calls[s].reported, calls[s].amounts)[t] = 0
            BY <3>1 DEF Least
        <3> QED
            BY <2>1, <3>1, <3>2, Zenon
    <2> QED
        <3> TAKE t \in Tokens \ Honest
        <3>1. r[t] = calls[s].amounts[t] - Used(calls[s])[t]
            BY Zenon DEF WithdrawRefund, Minus
        <3> HIDE DEF r
        <3> QED
            BY <2>3, <2>4, <3>1
<1>5. AtMost(balances[a], supplies)
    BY <1>1, BalanceAtMostSupply, Zenon DEF IInv
<1>6. \A t \in Tokens : balances[a][t] \in Nat /\ supplies[t] <= MaxAmount
    <2>1. balances[a] \in Amounts /\ supplies \in Amounts
        BY <1>1, Zenon DEF IInv, TypeOK
    <2> QED
        BY <2>1, AmountsType, Zenon
<1> HIDE DEF r, a
<1>7. ASSUME NEW t \in Honest
      PROVE  supplies[t] + r[t] <= IF t \in Nfts THEN 1 ELSE MaxAmount
    <2>1. /\ held[t] = supplies[t] + owed[t] + stranded[t]
          /\ r[t] \in Nat /\ r[t] <= Unsent(calls[s])[t]
          /\ Unsent(calls[s])[t] \in Nat /\ Unsent(calls[s])[t] <= owed[t]
        BY <1>2, <1>3, VariableTypes, Zenon DEF IInv, BooksInv, r
    <2>2. /\ supplies[t] \in Nat /\ held[t] \in Nat /\ owed[t] \in Nat
          /\ stranded[t] \in Int /\ stranded[t] >= 0
          /\ held[t] <= IF t \in Nfts THEN 1 ELSE MaxAmount
        BY VariableTypes, Zenon
    <2>3. supplies[t] + r[t] <= held[t]
        BY <2>1, <2>2
    <2>4. CASE t \in Nfts
        BY <2>1, <2>2, <2>3, <2>4
    <2>5. CASE t \notin Nfts
        BY <2>1, <2>2, <2>3, <2>5, ConstantTypes
    <2> QED
        BY <2>4, <2>5, Zenon
<1>8. \A t \in Tokens : supplies[t] + r[t] <= MaxAmount
    <2>1. \A t \in Honest : supplies[t] + r[t] <= MaxAmount
        <3> SUFFICES ASSUME NEW t \in Honest PROVE supplies[t] + r[t] <= MaxAmount
            BY Zenon
        <3>1. supplies[t] \in Nat /\ r[t] \in Nat
            BY <1>2, VariableTypes, Zenon DEF r
        <3> QED
            BY <1>7, <3>1, CustodyAssumption
    <2>2. \A t \in Tokens \ Honest : supplies[t] + r[t] <= MaxAmount
        BY <1>4, <1>6, VariableTypes
    <2> QED
        BY <2>1, <2>2, Zenon
<1>9. \A t \in Tokens : balances[a][t] + r[t] <= MaxAmount
    <2> TAKE t \in Tokens
    <2>1. /\ balances[a][t] \in Nat /\ supplies[t] \in Nat
          /\ balances[a][t] <= supplies[t] /\ supplies[t] + r[t] <= MaxAmount
        BY <1>5, <1>6, <1>8, VariableTypes, Zenon DEF AtMost
    <2>2. r[t] \in Nat
        BY <1>2, Zenon DEF r
    <2> QED
        BY <2>1, <2>2, ConstantTypes
<1>10. \A t \in Nfts : r[t] > 0 => supplies[t] + r[t] <= 1
    BY <1>4, <1>7, ConstantTypes
<1>11. CanDeposit(a, r)
    BY <1>8, <1>9, <1>10, Zenon DEF CanDeposit
<1> QED
    BY <1>11, Zenon DEF a, r

(* No resolve callback panics over honest tokens: see ResolversNeverPanic. *)
THEOREM ResolversSafe == Spec => []ResolversNeverPanic
<1>1. ASSUME IInv, NEW s \in Slots, At(s, "resolve_deposit"), NEW r \in Answers
      PROVE  CanBurn(calls[s].owner, DepositRefund(s, r))
    <2>1. /\ calls[s].owner \in Accounts /\ calls[s].amounts \in [Tokens -> Nat]
        BY <1>1, InFlight, Zenon DEF At
    <2>2. r \in [Tokens -> Nat] /\ supplies \in [Tokens -> Nat]
          /\ balances[calls[s].owner] \in [Tokens -> Nat]
        <3>1. r \in Amounts
            BY <1>1, AnswersType, Zenon
        <3>2. supplies \in Amounts /\ balances[calls[s].owner] \in Amounts
            BY <1>1, <2>1, Zenon DEF IInv, TypeOK
        <3> QED
            BY <3>1, <3>2, AmountsType, Zenon
    <2>3. AtMost(balances[calls[s].owner], supplies)
        BY <1>1, <2>1, BalanceAtMostSupply, Zenon DEF IInv
    <2>4. \A t \in Tokens : DepositRefund(s, r)[t] \in Nat
                            /\ DepositRefund(s, r)[t] <= balances[calls[s].owner][t]
        <3>1. Least(r, calls[s].amounts) \in [Tokens -> Nat]
            BY <2>1, <2>2, LeastType, Zenon
        <3>2. /\ DepositRefund(s, r) \in [Tokens -> Nat]
              /\ AtMost(DepositRefund(s, r), balances[calls[s].owner])
            BY <2>2, <3>1, LeastType, Zenon DEF DepositRefund
        <3> QED
            BY <3>2, Zenon DEF AtMost
    <2>5. ASSUME NEW t \in Tokens
          PROVE  DepositRefund(s, r)[t] <= supplies[t]
        <3>1. /\ supplies[t] \in Nat /\ balances[calls[s].owner][t] \in Nat
              /\ balances[calls[s].owner][t] <= supplies[t]
            BY <2>2, <2>3, Zenon DEF AtMost
        <3> QED
            BY <2>4, <3>1
    <2> QED
        BY <2>4, <2>5, Zenon DEF CanBurn, AtMost
<1>2. ASSUME IInv, NEW s \in Slots, At(s, "resolve_transfer"), NEW r \in Answers
      PROVE  CanReturn(s, TransferRefund(s, r))
    <2> DEFINE b == TransferRefund(s, r)
    <2>1. /\ calls[s].owner \in Accounts /\ calls[s].peer \in Accounts
          /\ calls[s].amounts \in [Tokens -> Nat]
        BY <1>2, InFlight, Zenon DEF At
    <2>2. r \in [Tokens -> Nat] /\ balances[calls[s].peer] \in [Tokens -> Nat]
        <3>1. r \in Amounts
            BY <1>2, AnswersType, Zenon
        <3>2. balances[calls[s].peer] \in Amounts
            BY <1>2, <2>1, Zenon DEF IInv, TypeOK
        <3> QED
            BY <3>1, <3>2, AmountsType, Zenon
    <2>3. b \in [Tokens -> Nat] /\ AtMost(b, balances[calls[s].peer])
        <3>1. Least(r, calls[s].amounts) \in [Tokens -> Nat]
            BY <2>1, <2>2, LeastType, Zenon
        <3> QED
            BY <2>2, <3>1, LeastType, Zenon DEF TransferRefund
    <2> HIDE DEF b
    <2>4. CanReturn(s, b)
        BY <1>2, <2>1, <2>3, ReturnFits, Zenon DEF CanReturn, Returned
    <2> QED
        BY <2>4, Zenon DEF b
<1>3. ASSUME IInv, NEW s \in Slots, At(s, "resolve_withdraw"),
             OfHonestToken(calls[s].amounts)
      PROVE  CanDeposit(calls[s].owner, WithdrawRefund(calls[s]))
    BY <1>3, RefundFits, Zenon
<1>4. IInv => ResolversNeverPanic
    BY <1>1, <1>2, <1>3, Zenon DEF ResolversNeverPanic
<1> QED
    BY <1>4, Invariance, PTL

(* Only calls reported as failed strand tokens: see OnlyFailedCallsStrand. *)
THEOREM Stranding == Spec => OnlyFailedCallsStrand
<1> DEFINE Fails(s) ==
             /\ calls'[s] # calls[s]
             /\ \/ calls[s].step \in {"near_withdraw", "unwrap"}
                \/ /\ calls[s].step = "resolve_withdraw"
                   /\ calls[s].is_call
                   /\ calls[s].status = "failed"
           Allowed == stranded' # stranded => \E s \in Slots : Fails(s)
<1>1. ASSUME IInv, NEW s \in Slots, NearWithdrawFails(s) \/ UnwrapFails(s)
      PROVE  Fails(s)
    <2>1. calls[s].step \in {"near_withdraw", "unwrap"} /\ calls \in [Slots -> {Idle} \cup Call]
        BY <1>1, Zenon DEF NearWithdrawFails, UnwrapFails, At, IInv, TypeOK
    <2>2. calls'[s].step \in {"resolve_withdraw", "idle"}
        <3>1. calls[s] \in Call
            BY <1>1, <2>1, InFlight, Zenon
        <3>2. [calls[s] EXCEPT !.step = "resolve_withdraw", !.status = "failed",
                               !.storage = 0].step = "resolve_withdraw"
            BY <3>1, Zenon DEF Call
        <3>3. CASE NearWithdrawFails(s)
            BY <2>1, <3>2, <3>3, Zenon DEF NearWithdrawFails, Goto
        <3>4. CASE UnwrapFails(s)
            BY <2>1, <3>4, Zenon DEF UnwrapFails, Goto, Finish, Idle
        <3> QED
            BY <1>1, <3>3, <3>4, Zenon
    <2> QED
        BY <2>1, <2>2, Zenon
<1>2. ASSUME IInv, NEW s \in Slots, ResolveWithdraw(s) \/ ResolveWithdrawPanic(s),
             stranded' # stranded
      PROVE  Fails(s)
    <2> DEFINE c == calls[s]
    <2>1. /\ c \in Call /\ CallOK(c) /\ c.step = "resolve_withdraw"
          /\ c.amounts \in [Tokens -> Nat]
        BY <1>2, InFlight, Zenon DEF ResolveWithdraw, ResolveWithdrawPanic, At
    <2>2. calls'[s] # calls[s]
        <3>1. calls' = [calls EXCEPT ![s] = Idle]
            BY <1>2, Zenon DEF ResolveWithdraw, ResolveWithdrawPanic, Finish, Goto
        <3>2. calls \in [Slots -> {Idle} \cup Call]
            BY <1>2, Zenon DEF IInv, TypeOK
        <3>3. calls'[s] = Idle
            BY <3>1, <3>2, Zenon
        <3> QED
            BY <2>1, <3>3 DEF Idle
    <2>3. stranded \in [Tokens -> Int]
        BY <1>2, Zenon DEF IInv, TypeOK
    <2>4. ASSUME ~(c.is_call /\ c.status = "failed"), ResolveWithdraw(s)
          PROVE  FALSE
        <3>1. /\ WithdrawRefund(c) \in [Tokens -> Nat] /\ Unsent(c) \in [Tokens -> Nat]
              /\ \A t \in Tokens \ Honest : Unsent(c)[t] = 0
              /\ \A t \in Honest : WithdrawRefund(c)[t] = Unsent(c)[t]
            BY <2>1, <2>4, RefundIsHeld, Zenon
        <3>2. stranded' = Plus(stranded, Minus(Unsent(c), Real(WithdrawRefund(c))))
            BY <2>4, Zenon DEF ResolveWithdraw
        <3> HIDE DEF c
        <3>3. \A t \in Tokens : Minus(Unsent(c), Real(WithdrawRefund(c)))[t] = 0
            BY <3>1 DEF Minus, Real
        <3>4. \A t \in Tokens : stranded[t] + Minus(Unsent(c), Real(WithdrawRefund(c)))[t]
                                = stranded[t]
            BY <2>3, <3>3
        <3>5. stranded' = stranded
            BY <2>3, <3>2, <3>4, Zenon DEF Plus
        <3> QED
            BY <1>2, <3>5, Zenon
    <2>5. ASSUME ResolveWithdrawPanic(s)
          PROVE  FALSE
        <3>1. ~OfHonestToken(c.amounts)
            BY <1>2, <2>5, RefundFits, Zenon DEF ResolveWithdrawPanic
        <3>2. \A t \in Honest : c.amounts[t] = 0
            BY <2>1, <3>1, Zenon DEF CallOK, Unmixed
        <3>3. c.reported \in [Tokens -> Nat]
              /\ (c.moved /\ c.is_call /\ c.status = "ok" => AtMost(c.reported, c.amounts))
            <4>1. c.reported \in [Tokens -> Nat]
                BY <2>1, ConstantTypes DEF Call, Amounts
            <4> QED
                BY <2>1, <4>1, Zenon DEF CallOK
        <3>4. stranded' = Plus(stranded, Unsent(c))
            BY <2>5, Zenon DEF ResolveWithdrawPanic
        <3>5. c.moved \in BOOLEAN /\ c.is_call \in BOOLEAN
            BY <2>1, Zenon DEF Call
        <3> HIDE DEF c
        <3>6. \A t \in Tokens : Unsent(c)[t] = 0
            <4>1. Real(c.amounts) = Zero
                BY <2>1, <3>2, Zenon DEF Real, Zero
            <4>2. CASE ~c.moved
                BY <4>1, <4>2, Zenon DEF Unsent, Zero
            <4>3. CASE c.moved /\ c.is_call /\ c.status = "ok"
                <5>1. \A t \in Honest : c.amounts[t] - c.reported[t] = 0
                    <6> TAKE t \in Honest
                    <6>1. /\ c.amounts[t] = 0 /\ c.reported[t] \in Nat
                          /\ c.reported[t] <= c.amounts[t]
                        BY <3>2, <3>3, <4>3, ConstantTypes, Zenon DEF AtMost
                    <6> QED
                        BY <6>1
                <5> QED
                    BY <4>3, <5>1, CustodyAssumption, Zenon DEF Unsent, Real, Minus
            <4>4. CASE c.moved /\ ~(c.is_call /\ c.status = "ok")
                BY <4>4, Zenon DEF Unsent, Zero
            <4> QED
                BY <4>2, <4>3, <4>4, <3>5, Zenon
        <3>7. \A t \in Tokens : stranded[t] + Unsent(c)[t] = stranded[t]
            BY <2>3, <3>6
        <3>8. stranded' = stranded
            BY <2>3, <3>4, <3>7, Zenon DEF Plus
        <3> QED
            BY <1>2, <3>8, Zenon
    <2> QED
        BY <1>2, <2>1, <2>2, <2>4, <2>5, Zenon
<1>3. ASSUME NEW s \in Slots, Continue(s), stranded' # stranded
      PROVE  \/ NearWithdrawFails(s) \/ UnwrapFails(s)
             \/ ResolveWithdraw(s) \/ ResolveWithdrawPanic(s)
    BY <1>3, Zenon DEF Continue, OnTransfer, OnTransferNotify, OnTransferExecute,
        OnTransferPanic, ResolveDeposit, RefundDeposit, NearWithdraw, Send,
        SendFails, ReceiverReturns, TokenResolveFails, RogueAnswers, Unwrap,
        ResolveTransfer
<1>4. ASSUME NEW s \in Slots, Start(s)
      PROVE  stranded' = stranded
    BY <1>4, Zenon DEF Start, SendDeposit, StartWithdraw, StartUnwrap, TransferCall,
        MintNotify
<1>5. ASSUME NEW a \in Accounts,
             \/ \E r \in Accounts, b \in Transfers, force \in Forced :
                   Transfer(a, r, b, force)
             \/ \E b \in Mints : Mint(a, b) \/ Burn(a, b)
             \/ Lock(a)
             \/ Unlock(a)
      PROVE  stranded' = stranded
    BY <1>5, Zenon DEF Transfer, Mint, Burn, Lock, Unlock
<1> HIDE DEF Fails
<1>6. IInv /\ [Next]_vars => [Allowed]_vars
    BY <1>1, <1>2, <1>3, <1>4, <1>5, Zenon DEF Next
<1> USE DEF Fails
<1>7. IInv /\ [Next]_vars =>
        [stranded' # stranded =>
          \E s \in Slots :
            /\ calls'[s] # calls[s]
            /\ \/ calls[s].step \in {"near_withdraw", "unwrap"}
               \/ /\ calls[s].step = "resolve_withdraw"
                  /\ calls[s].is_call
                  /\ calls[s].status = "failed"]_vars
    BY <1>6, Zenon
<1> QED
    BY <1>7, Invariance, PTL DEF Spec, OnlyFailedCallsStrand
-----------------------------------------------------------------------------
(* A deposit that is being resolved is refunded at the cost of the account *)
(* that was credited and notified.                                         *)
PeerOK(c) == c.step \in {"on_transfer", "resolve_deposit"} => c.peer = c.owner
PeersInv == \A s \in Slots : PeerOK(calls[s])

(* Only the call in slot s changes, and its successor has a legal peer:    *)
(* then all calls still have one.                                          *)
LEMMA PeersOfOneCall ==
    ASSUME IInv, PeersInv, NEW s \in Slots, NEW c, PeerOK(c),
           calls' = [calls EXCEPT ![s] = c]
    PROVE  PeersInv'
BY Zenon DEF PeersInv, IInv, TypeOK

(* The receipts of a call that is in flight keep who is notified.          *)
LEMMA ContinueKeepsPeers ==
    ASSUME IInv, PeersInv, NEW s \in Slots, Continue(s)
    PROVE  PeersInv'
<1> DEFINE c == calls[s]
<1>1. PeerOK(Idle)
    BY Zenon DEF PeerOK, Idle
<1>2. PeerOK(c)
    BY Zenon DEF PeersInv
<1>3. CASE OnTransfer(s) \/ (\E a \in Accounts : OnTransferExecute(s, a))
           \/ RefundDeposit(s) \/ ResolveWithdraw(s) \/ ResolveWithdrawPanic(s)
           \/ Unwrap(s) \/ UnwrapFails(s) \/ \E r \in Answers : ResolveTransfer(s, r)
    <2>1. calls' = [calls EXCEPT ![s] = Idle]
        BY <1>3, Zenon DEF OnTransfer, OnTransferExecute, RefundDeposit, ResolveWithdraw,
            ResolveWithdrawPanic, Unwrap, UnwrapFails, ResolveTransfer, Finish, Goto
    <2> QED
        BY <1>1, <2>1, PeersOfOneCall, Zenon
<1>4. CASE OnTransferNotify(s)
    <2>1. c \in Call /\ c.step = "on_transfer"
        BY <1>4, InFlight, Zenon DEF OnTransferNotify, At
    <2>2. PeerOK([c EXCEPT !.step = "resolve_deposit"])
        BY <1>2, <2>1, Zenon DEF PeerOK, Call
    <2> QED
        BY <1>4, <2>2, PeersOfOneCall, Zenon DEF OnTransferNotify, Goto
<1>5. ASSUME NEW d, Goto(s, d), d.step \notin {"on_transfer", "resolve_deposit"}
      PROVE  PeersInv'
    BY <1>5, PeersOfOneCall, Zenon DEF PeerOK, Goto
<1>6. CASE OnTransferPanic(s) \/ NearWithdraw(s) \/ NearWithdrawFails(s) \/ Send(s)
           \/ SendFails(s) \/ TokenResolveFails(s)
    <2>1. c \in Call
        BY <1>6, InFlight, Zenon DEF OnTransferPanic, NearWithdraw, NearWithdrawFails, Send,
            SendFails, TokenResolveFails, At
    <2>2. CASE OnTransferPanic(s)
        BY <1>5, <2>1, <2>2, Zenon DEF OnTransferPanic, Call
    <2>3. CASE NearWithdraw(s)
        BY <1>5, <2>1, <2>3, Zenon DEF NearWithdraw, Call
    <2>4. CASE NearWithdrawFails(s) \/ SendFails(s) \/ TokenResolveFails(s)
        BY <1>5, <2>1, <2>4, Zenon DEF NearWithdrawFails, SendFails, TokenResolveFails, Call
    <2>5. CASE Send(s)
        BY <1>5, <2>1, <2>5, Zenon DEF Send, Call
    <2> QED
        BY <1>6, <2>2, <2>3, <2>4, <2>5, Zenon
<1>7. ASSUME NEW r, ResolveDeposit(s, r) \/ ReceiverReturns(s, r)
      PROVE  PeersInv'
    <2>1. c \in Call
        BY <1>7, InFlight, Zenon DEF ResolveDeposit, ReceiverReturns, At
    <2> QED
        BY <1>5, <1>7, <2>1, Zenon DEF ResolveDeposit, ReceiverReturns, Call
<1>8. ASSUME NEW r, NEW status, RogueAnswers(s, status, r)
      PROVE  PeersInv'
    <2>1. c \in Call
        BY <1>8, InFlight, Zenon DEF RogueAnswers, At
    <2> QED
        BY <1>5, <1>8, <2>1, Zenon DEF RogueAnswers, Call
<1> QED
    BY <1>3, <1>4, <1>6, <1>7, <1>8, Zenon DEF Continue

(* So do the receipts that start a call.                                   *)
LEMMA StartKeepsPeers ==
    ASSUME IInv, PeersInv, NEW s \in Slots, Start(s)
    PROVE  PeersInv'
<1>1. ASSUME NEW a, NEW b, SendDeposit(s, a, b)
      PROVE  PeersInv'
    BY <1>1, PeersOfOneCall, Zenon DEF SendDeposit, Goto, NewCall, PeerOK
<1>2. ASSUME NEW a, NEW b, NEW n, NEW is_call, NEW force,
             StartWithdraw(s, a, b, n, is_call, force)
      PROVE  PeersInv'
    <2> DEFINE step == IF n > 0 THEN "near_withdraw" ELSE "send"
               c == [NewCall(step, a, a, b) EXCEPT !.storage = n, !.is_call = is_call]
    <2>1. c.step = step
        BY Zenon DEF NewCall
    <2>2. calls' = [calls EXCEPT ![s] = c]
        BY <1>2, Zenon DEF StartWithdraw, Goto
    <2>3. PeerOK(c)
        BY <2>1 DEF PeerOK
    <2> HIDE DEF c
    <2> QED
        BY <2>2, <2>3, PeersOfOneCall, Zenon
<1>3. ASSUME NEW a, NEW n, StartUnwrap(s, a, n)
      PROVE  PeersInv'
    BY <1>3, PeersOfOneCall, Zenon DEF StartUnwrap, Goto, NewCall, PeerOK
<1>4. ASSUME NEW a, NEW r, NEW b,
             (\E force \in Forced : TransferCall(s, a, r, b, force)) \/ MintNotify(s, a, r, b)
      PROVE  PeersInv'
    BY <1>4, PeersOfOneCall, Zenon DEF TransferCall, MintNotify, Goto, NewCall, PeerOK
<1> QED
    BY <1>1, <1>2, <1>3, <1>4, Zenon DEF Start

(* Every step keeps the peers of the calls under way legal.                *)
LEMMA NextKeepsPeers == IInv /\ PeersInv /\ [Next]_vars => PeersInv'
<1> SUFFICES ASSUME IInv, PeersInv, [Next]_vars PROVE PeersInv'
    BY Zenon
<1>1. CASE calls' = calls
    BY <1>1, Zenon DEF PeersInv
<1>2. ASSUME NEW a \in Accounts,
             \/ \E r \in Accounts, b \in Transfers, force \in Forced :
                   Transfer(a, r, b, force)
             \/ \E b \in Mints : Mint(a, b) \/ Burn(a, b)
             \/ Lock(a)
             \/ Unlock(a)
      PROVE  calls' = calls
    BY <1>2, Zenon DEF Transfer, Mint, Burn, Lock, Unlock
<1>3. CASE UNCHANGED vars
    BY <1>1, <1>3, Zenon DEF vars
<1> QED
    BY <1>1, <1>2, <1>3, ContinueKeepsPeers, StartKeepsPeers, Zenon DEF Next

-----------------------------------------------------------------------------
(* No balance of a locked account gets smaller.                            *)
NoLoss == \A a \in locked, t \in Tokens : ~(balances'[a][t] < balances[a][t])

(* A deposit to any account takes nothing from a locked one.               *)
LEMMA CreditLosesNothing ==
    ASSUME IInv, NEW a \in Accounts, NEW b \in [Tokens -> Nat],
           balances' = [balances EXCEPT ![a] = Plus(@, b)]
    PROVE  NoLoss
<1>1. /\ balances \in [Accounts -> [Tokens -> Nat]]
      /\ locked \subseteq Accounts
    BY CustodyAssumption DEF IInv, TypeOK, Amounts
<1>2. \A x \in Accounts, t \in Tokens :
          balances'[x][t] = balances[x][t] + (IF x = a THEN b[t] ELSE 0)
    BY <1>1 DEF Plus
<1> QED
    BY <1>1, <1>2 DEF NoLoss

(* Whatever happens to the balances of an unlocked account takes nothing   *)
(* from a locked one.                                                      *)
LEMMA DebitOfUnlocked ==
    ASSUME IInv, NEW a \in Accounts, a \notin locked, NEW f,
           balances' = [balances EXCEPT ![a] = f]
    PROVE  NoLoss
<1>1. /\ balances \in [Accounts -> [Tokens -> Nat]]
      /\ locked \subseteq Accounts
    BY CustodyAssumption DEF IInv, TypeOK, Amounts
<1>2. \A x \in locked : balances'[x] = balances[x]
    BY <1>1, Zenon
<1> QED
    BY <1>1, <1>2 DEF NoLoss

(* A transfer out of an unlocked account takes nothing from a locked one,  *)
(* whoever receives it.                                                    *)
LEMMA TransferOfUnlocked ==
    ASSUME IInv, NEW p \in Accounts, NEW q \in Accounts, p \notin locked,
           NEW b \in [Tokens -> Nat], AtMost(b, balances[p]),
           balances' = Transferred(balances, p, q, b)
    PROVE  NoLoss
<1>1. /\ balances \in [Accounts -> [Tokens -> Nat]]
      /\ locked \subseteq Accounts
    BY CustodyAssumption DEF IInv, TypeOK, Amounts
<1>2. \A x \in Accounts, t \in Tokens :
          balances'[x][t] = balances[x][t] - (IF x = p THEN b[t] ELSE 0)
                                           + (IF x = q THEN b[t] ELSE 0)
    BY <1>1, TransferType
<1> QED
    BY <1>1, <1>2 DEF NoLoss

(* What *_on_transfer deposits and its intents transfer at once.           *)
LEMMA ExecuteOfUnlocked ==
    ASSUME IInv, NEW s \in Slots, NEW q \in Accounts, OnTransferExecute(s, q)
    PROVE  NoLoss
<1> DEFINE p == calls[s].owner
           b == calls[s].amounts
           d == [balances EXCEPT ![p] = Plus(@, b)]
<1>1. /\ balances \in [Accounts -> [Tokens -> Nat]]
      /\ locked \subseteq Accounts
    BY CustodyAssumption DEF IInv, TypeOK, Amounts
<1>2. p \in Accounts /\ b \in [Tokens -> Nat]
    BY InFlight, Zenon DEF OnTransferExecute, At
<1>3. p \notin locked /\ AtMost(b, d[p]) /\ balances' = Transferred(d, p, q, b)
    BY Zenon DEF OnTransferExecute, CanTransfer
<1> HIDE DEF p, b
<1>4. d \in [Accounts -> [Tokens -> Nat]]
    BY <1>1, <1>2 DEF Plus
<1>5. \A x \in locked : d[x] = balances[x]
    BY <1>1, <1>3, Zenon
<1> HIDE DEF d
<1>6. \A x \in Accounts, t \in Tokens :
          balances'[x][t] = d[x][t] - (IF x = p THEN b[t] ELSE 0)
                                    + (IF x = q THEN b[t] ELSE 0)
    BY <1>2, <1>3, <1>4, TransferType
<1> QED
    BY <1>1, <1>2, <1>3, <1>5, <1>6 DEF NoLoss

(* A receipt ends or moves on the call in slot s, at the cost of at most   *)
(* what came in with it, and of nobody but the account that was notified.  *)
Refunds(s, a, t) ==
    /\ calls'[s] # calls[s]
    /\ calls[s].step \in {"resolve_deposit", "resolve_transfer"}
    /\ calls[s].peer = a
    /\ balances[a][t] - balances'[a][t] <= calls[s].amounts[t]

LossOK ==
    \A a \in locked, t \in Tokens :
        balances'[a][t] < balances[a][t] => \E s \in Slots : Refunds(s, a, t)

(* The resolver of a refused deposit takes from a locked receiver at most  *)
(* what that deposit had brought.                                          *)
LEMMA ResolveDepositLoss ==
    ASSUME IInv, PeersInv, NEW s \in Slots, NEW r \in Answers, ResolveDeposit(s, r)
    PROVE  LossOK
<1> DEFINE p == calls[s].owner
           b == calls[s].amounts
           refund == DepositRefund(s, r)
<1>1. /\ balances \in [Accounts -> [Tokens -> Nat]]
      /\ locked \subseteq Accounts
      /\ calls \in [Slots -> {Idle} \cup Call]
    BY CustodyAssumption DEF IInv, TypeOK, Amounts
<1>2. /\ calls[s].step = "resolve_deposit" /\ calls[s] \in Call /\ calls[s].peer = p
      /\ p \in Accounts /\ b \in [Tokens -> Nat] /\ r \in [Tokens -> Nat]
    <2>1. calls[s].step = "resolve_deposit"
        BY Zenon DEF ResolveDeposit, At
    <2>2. r \in [Tokens -> Nat]
        BY AnswersType, AmountsType, Zenon
    <2> QED
        BY <2>1, <2>2, InFlight, Zenon DEF PeersInv, PeerOK
<1>3. /\ refund \in [Tokens -> Nat]
      /\ \A t \in Tokens : refund[t] <= b[t]
    <2>1. Least(r, b) \in [Tokens -> Nat] /\ AtMost(Least(r, b), b)
        BY <1>2, LeastType, Zenon
    <2>2. /\ refund \in [Tokens -> Nat]
          /\ AtMost(refund, Least(r, b))
        BY <1>1, <1>2, <2>1, LeastType, Zenon DEF DepositRefund
    <2> HIDE DEF refund, b
    <2> QED
        BY <1>2, <2>1, <2>2 DEF AtMost
<1>4. balances' = [balances EXCEPT ![p] = Minus(@, refund)]
    BY Zenon DEF ResolveDeposit
<1>5. calls'[s] # calls[s]
    <2>1. [calls[s] EXCEPT !.step = "refund_deposit", !.amounts = refund].step
             = "refund_deposit"
        BY <1>2, Zenon DEF Call
    <2>2. calls'[s].step = "refund_deposit"
        BY <1>1, <2>1, Zenon DEF ResolveDeposit, Goto
    <2> QED
        BY <1>2, <2>2, Zenon
<1>6. ASSUME NEW a \in locked, NEW t \in Tokens, balances'[a][t] < balances[a][t]
      PROVE  Refunds(s, a, t)
    <2> HIDE DEF refund, p, b
    <2>1. a \in Accounts /\ balances[a][t] \in Nat
        BY <1>1, <1>6, Zenon
    <2>2. a # p => balances'[a] = balances[a]
        BY <1>1, <1>4, <2>1, Zenon
    <2>3. a = p
        BY <1>6, <2>1, <2>2
    <2>4. balances'[a][t] = balances[a][t] - refund[t]
        BY <1>1, <1>2, <1>4, <2>3, Zenon DEF Minus
    <2>5. balances[a][t] - balances'[a][t] <= b[t]
        BY <1>2, <1>3, <2>1, <2>4
    <2> QED
        BY <1>2, <1>5, <2>3, <2>5, Zenon DEF Refunds, b
<1> QED
    BY <1>6, Zenon DEF LossOK

(* The resolver of a refused mt_transfer_call takes from a locked receiver *)
(* at most what that transfer had brought.                                 *)
LEMMA ResolveTransferLoss ==
    ASSUME IInv, NEW s \in Slots, NEW r \in Answers, ResolveTransfer(s, r)
    PROVE  LossOK
<1> DEFINE p == calls[s].peer
           q == calls[s].owner
           b == calls[s].amounts
           refund == TransferRefund(s, r)
<1>1. /\ balances \in [Accounts -> [Tokens -> Nat]]
      /\ locked \subseteq Accounts
      /\ calls \in [Slots -> {Idle} \cup Call]
    BY CustodyAssumption DEF IInv, TypeOK, Amounts
<1>2. /\ calls[s].step = "resolve_transfer"
      /\ p \in Accounts /\ q \in Accounts
      /\ b \in [Tokens -> Nat] /\ r \in [Tokens -> Nat]
    <2>1. calls[s].step = "resolve_transfer"
        BY Zenon DEF ResolveTransfer, At
    <2>2. r \in [Tokens -> Nat]
        BY AnswersType, AmountsType, Zenon
    <2> QED
        BY <2>1, <2>2, InFlight, Zenon
<1>3. /\ refund \in [Tokens -> Nat]
      /\ AtMost(refund, balances[p])
      /\ \A t \in Tokens : refund[t] <= b[t]
    <2>1. Least(r, b) \in [Tokens -> Nat] /\ AtMost(Least(r, b), b)
        BY <1>2, LeastType, Zenon
    <2>2. /\ refund \in [Tokens -> Nat]
          /\ AtMost(refund, Least(r, b)) /\ AtMost(refund, balances[p])
        BY <1>1, <1>2, <2>1, LeastType, Zenon DEF TransferRefund
    <2> HIDE DEF refund, b, p
    <2> QED
        BY <1>2, <2>1, <2>2 DEF AtMost
<1>4. balances' = Transferred(balances, p, q, refund)
    BY Zenon DEF ResolveTransfer, Returned
<1>5. calls'[s] # calls[s]
    <2>1. calls'[s] = Idle
        BY <1>1, Zenon DEF ResolveTransfer, Finish, Goto
    <2> QED
        BY <1>2, <2>1 DEF Idle
<1>6. ASSUME NEW a \in locked, NEW t \in Tokens, balances'[a][t] < balances[a][t]
      PROVE  Refunds(s, a, t)
    <2> HIDE DEF refund, p, q, b
    <2>1. a \in Accounts /\ balances[a][t] \in Nat /\ refund[t] \in Nat
          /\ refund[t] <= b[t] /\ b[t] \in Nat
        BY <1>1, <1>2, <1>3, <1>6, Zenon
    <2>2. balances'[a][t] = balances[a][t] - (IF a = p THEN refund[t] ELSE 0)
                                           + (IF a = q THEN refund[t] ELSE 0)
        BY <1>1, <1>2, <1>3, <1>4, <2>1, TransferType
    <2>3. a = p
        BY <1>6, <2>1, <2>2
    <2>4. balances[a][t] - balances'[a][t] <= b[t]
        BY <2>1, <2>2
    <2> QED
        BY <1>2, <1>5, <2>3, <2>4, Zenon DEF Refunds, b, p
<1> QED
    BY <1>6, Zenon DEF LossOK

(* Every receipt of a call that is in flight leaves a locked account what  *)
(* it has, but for refunds.                                                *)
LEMMA ContinueLoss ==
    ASSUME IInv, PeersInv, NEW s \in Slots, Continue(s)
    PROVE  LossOK
<1>1. ASSUME NoLoss
      PROVE  LossOK
    BY <1>1, Zenon DEF NoLoss, LossOK
<1>2. ASSUME balances' = balances
      PROVE  NoLoss
    <2>1. balances \in [Accounts -> [Tokens -> Nat]] /\ locked \subseteq Accounts
        BY CustodyAssumption DEF IInv, TypeOK, Amounts
    <2> QED
        BY <1>2, <2>1 DEF NoLoss
<1>3. ASSUME OnTransfer(s) \/ OnTransferNotify(s)
      PROVE  NoLoss
    <2>1. calls[s].owner \in Accounts /\ calls[s].amounts \in [Tokens -> Nat]
        BY <1>3, InFlight, Zenon DEF OnTransfer, OnTransferNotify, At
    <2> QED
        BY <1>3, <2>1, CreditLosesNothing, Zenon DEF OnTransfer, OnTransferNotify, Deposit
<1>4. ASSUME ResolveWithdraw(s)
      PROVE  NoLoss
    <2>1. calls[s].owner \in Accounts /\ calls[s] \in Call /\ CallOK(calls[s])
          /\ calls[s].step = "resolve_withdraw"
        BY <1>4, InFlight, Zenon DEF ResolveWithdraw, At
    <2>2. WithdrawRefund(calls[s]) \in [Tokens -> Nat]
        BY <2>1, RefundIsHeld, Zenon
    <2> QED
        BY <1>4, <2>1, <2>2, CreditLosesNothing, Zenon DEF ResolveWithdraw, Deposit
<1>5. ASSUME \/ OnTransferPanic(s) \/ RefundDeposit(s) \/ NearWithdraw(s)
             \/ NearWithdrawFails(s) \/ Send(s) \/ SendFails(s) \/ TokenResolveFails(s)
             \/ ResolveWithdrawPanic(s) \/ Unwrap(s) \/ UnwrapFails(s)
             \/ \E r \in Reports : ReceiverReturns(s, r)
             \/ \E status \in Status, r \in Reports : RogueAnswers(s, status, r)
      PROVE  balances' = balances
    BY <1>5, Zenon DEF OnTransferPanic, RefundDeposit, NearWithdraw, NearWithdrawFails,
       Send, SendFails, TokenResolveFails, ResolveWithdrawPanic, Unwrap, UnwrapFails,
       ReceiverReturns, RogueAnswers, ledgerVars
<1> QED
    BY <1>1, <1>2, <1>3, <1>4, <1>5, ExecuteOfUnlocked, ResolveDepositLoss,
       ResolveTransferLoss, Zenon DEF Continue

(* So does every receipt that starts a call, unless it is forced.          *)
LEMMA StartLoss ==
    ASSUME IInv, Forced \subseteq {FALSE}, NEW s \in Slots, Start(s)
    PROVE  NoLoss
<1> USE CustodyAssumption
<1>1. ASSUME NEW a \in Accounts, NEW b, NEW n, NEW is_call,
             StartWithdraw(s, a, b, n, is_call, FALSE)
      PROVE  NoLoss
    BY <1>1, DebitOfUnlocked, Zenon DEF StartWithdraw, Withdraw
<1>2. ASSUME NEW a \in Accounts, NEW n, StartUnwrap(s, a, n)
      PROVE  NoLoss
    BY <1>2, DebitOfUnlocked, Zenon DEF StartUnwrap, Withdraw
<1>3. ASSUME NEW a \in Accounts, NEW b \in Batches, SendDeposit(s, a, b)
      PROVE  NoLoss
    <2>1. balances \in [Accounts -> [Tokens -> Nat]] /\ locked \subseteq Accounts
        BY CustodyAssumption DEF IInv, TypeOK, Amounts
    <2> QED
        BY <1>3, <2>1 DEF SendDeposit, NoLoss, ledgerVars
<1>4. ASSUME NEW a \in Accounts, NEW r \in Accounts, NEW b \in Transfers,
             TransferCall(s, a, r, b, FALSE)
      PROVE  NoLoss
    <2>1. b \in [Tokens -> Nat]
        BY AmountsType, Zenon
    <2> QED
        BY <1>4, <2>1, TransferOfUnlocked, Zenon DEF TransferCall, CanTransfer
<1>5. ASSUME NEW a \in Accounts, NEW r \in Accounts, NEW b \in Mints, MintNotify(s, a, r, b)
      PROVE  NoLoss
    <2>1. b \in [Tokens -> Nat]
        BY AmountsType, Zenon
    <2> QED
        BY <1>5, <2>1, CreditLosesNothing, Zenon DEF MintNotify, Deposit
<1> QED
    BY <1>1, <1>2, <1>3, <1>4, <1>5, Zenon DEF Start

(* And so does everything else.                                            *)
LEMMA InternalLoss ==
    ASSUME IInv, Forced \subseteq {FALSE}, NEW a \in Accounts,
           \/ \E r \in Accounts, b \in Transfers, force \in Forced :
                 Transfer(a, r, b, force)
           \/ \E b \in Mints : Mint(a, b) \/ Burn(a, b)
           \/ Lock(a)
           \/ Unlock(a)
    PROVE  NoLoss
<1>1. ASSUME NEW r \in Accounts, NEW b \in Transfers, Transfer(a, r, b, FALSE)
      PROVE  NoLoss
    <2>1. b \in [Tokens -> Nat]
        BY AmountsType, CustodyAssumption, Zenon
    <2> QED
        BY <1>1, <2>1, TransferOfUnlocked, Zenon DEF Transfer, CanTransfer
<1>2. ASSUME NEW b \in Mints, Mint(a, b) \/ Burn(a, b)
      PROVE  NoLoss
    <2>1. b \in [Tokens -> Nat]
        BY AmountsType, CustodyAssumption, Zenon
    <2>2. CASE Mint(a, b)
        BY <2>1, <2>2, CreditLosesNothing, Zenon DEF Mint, Deposit
    <2>3. CASE Burn(a, b)
        BY <2>3, DebitOfUnlocked, Zenon DEF Burn, Withdraw
    <2> QED
        BY <1>2, <2>2, <2>3, Zenon
<1>3. ASSUME Lock(a) \/ Unlock(a)
      PROVE  NoLoss
    <2>1. balances \in [Accounts -> [Tokens -> Nat]] /\ locked \subseteq Accounts
        BY CustodyAssumption DEF IInv, TypeOK, Amounts
    <2> QED
        BY <1>3, <2>1 DEF Lock, Unlock, NoLoss
<1> QED
    BY <1>1, <1>2, <1>3, Zenon

(* The lock of an account protects what it has, as long as no role forces  *)
(* a withdrawal or a transfer: see LockedKeepsFunds.                       *)
THEOREM LocksKeepFunds ==
    ASSUME Forced \subseteq {FALSE}
    PROVE  Spec => LockedKeepsFunds
<1>1. Init => PeersInv
    BY DEF Init, PeersInv, PeerOK, Idle
<1>2. ASSUME IInv, PeersInv, Next
      PROVE  LossOK
    <2>1. NoLoss => LossOK
        BY Zenon DEF NoLoss, LossOK
    <2> QED
        BY <1>2, <2>1, ContinueLoss, StartLoss, InternalLoss, Zenon DEF Next
<1>3. IInv /\ PeersInv /\ [Next]_vars =>
          [\A a \in locked, t \in Tokens :
              balances'[a][t] < balances[a][t] =>
                \E s \in Slots :
                  /\ calls'[s] # calls[s]
                  /\ calls[s].step \in {"resolve_deposit", "resolve_transfer"}
                  /\ calls[s].peer = a
                  /\ balances[a][t] - balances'[a][t] <= calls[s].amounts[t]]_vars
    BY <1>2, Zenon DEF LossOK, Refunds
<1> QED
    BY <1>1, <1>3, NextKeepsPeers, Invariance, PTL DEF Spec, LockedKeepsFunds
=============================================================================
