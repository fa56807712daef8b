-------------------------- MODULE SettlementProofs --------------------------
(***************************************************************************)
(* What a batch of intents does to balances, for any accounts, tokens and  *)
(* intents, and amounts and fees of any width: it settles exactly when the *)
(* changes of its intents add up, the transfers that it logs explain every *)
(* balance, there is one for each pair of accounts and token, and the      *)
(* closure of a set of token diffs makes them add up.                      *)
(*                                                                         *)
(* The inductive invariant has three parts: who is in which map of the     *)
(* matcher (MatcherInv), that what is not yet matched is the difference of *)
(* the balances to what they were (BooksInv), and that the supply delta of *)
(* the token diffs is what the maps do not balance (ClosureInv).           *)
(***************************************************************************)
EXTENDS Settlement, Sums

Changes == [holding : Holdings, delta : Int, outside : BOOLEAN]

TypeInv ==
    /\ phase \in {"executing", "matching", "settled", "failed", "overflow", "unmatched"}
    /\ before \in [Holdings -> 0 .. MaxAmount]
    /\ balances \in [Holdings -> 0 .. MaxAmount]
    /\ deposits \in [Holdings -> 0 .. MaxAmount]
    /\ withdrawals \in [Holdings -> 0 .. MaxAmount]
    /\ outside \in [Holdings -> Int]
    /\ net \in [Tokens -> Int]
    /\ closed \subseteq Tokens
    /\ transfers \in [Accounts \X Accounts \X Tokens -> 0 .. MaxAmount]
    /\ sender \in [Tokens -> Accounts \cup {None}]
    /\ receiver \in [Tokens -> Accounts \cup {None}]
    /\ todo \in Seq(Changes)
    /\ Len(todo) <= 2

\* The party of a token, if there is one, has something left; if there is none,
\* nobody has.
PartyOK(party, amounts, t) ==
    /\ party[t] # None => amounts[<<party[t], t>>] > 0
    /\ phase = "matching" /\ party[t] = None => \A a \in Accounts : amounts[<<a, t>>] = 0

MatcherInv ==
    /\ \A h \in Holdings : deposits[h] = 0 \/ withdrawals[h] = 0
    /\ \A t \in Tokens : PartyOK(sender, withdrawals, t) /\ PartyOK(receiver, deposits, t)
    /\ \A a, b \in Accounts, t \in Tokens :
          transfers[<<a, b, t>>] > 0 =>
             /\ phase # "executing"
             /\ withdrawals[<<a, t>>] = 0 \/ deposits[<<b, t>>] = 0
    /\ phase = "executing" => \A t \in Tokens : sender[t] = None /\ receiver[t] = None

TotalsExplained(t) ==
    Total(balances, t) = Total(before, t) + Total(outside, t)
                          + Total(deposits, t) - Total(withdrawals, t)

BooksInv ==
    /\ TransfersExplainBalances
    /\ phase \in {"executing", "matching"} => \A t \in Tokens : TotalsExplained(t)

\* What the next changes of the running intent, the i-th and all, do to the deltas.
Owing(i, t) ==
    IF i <= Len(todo) /\ ~todo[i].outside /\ todo[i].holding[2] = t THEN todo[i].delta
                                                                 ELSE 0

ClosureInv ==
    /\ phase = "executing" =>
          \A t \in Tokens :
             net[t] = Total(deposits, t) - Total(withdrawals, t) + (Owing(1, t) + Owing(2, t))
    /\ \A t \in closed : net[t] = 0

IInv == TypeInv /\ MatcherInv /\ BooksInv /\ ClosureInv

---------------------------------------------------------------------------
(* Fees and closures. *)

\* Taking nothing away changes nothing.
LEMMA MinusNothing ==
    ASSUME NEW n \in Int
    PROVE  n = n - 0
OBVIOUS

\* What division that rounds down is.
LEMMA DivBounds ==
    ASSUME NEW a \in Int, NEW m \in Nat \ {0}
    PROVE  /\ a \div m \in Int
           /\ (a \div m) * m <= a
           /\ a < (a \div m) * m + m
OBVIOUS

\* The quotient is the only number that fits between the two multiples.
LEMMA DivUnique ==
    ASSUME NEW a \in Int, NEW m \in Nat \ {0}, NEW q \in Int, q * m <= a, a < q * m + m
    PROVE  a \div m = q
<1> DEFINE p == a \div m
<1>1. p \in Int /\ p * m <= a /\ a < p * m + m
    BY DivBounds, Zenon
<1> HIDE DEF p
<1>2. ~(p <= q - 1)
    <2> SUFFICES ASSUME p <= q - 1 PROVE FALSE
        BY Zenon
    <2>1. p * m <= (q - 1) * m
        BY <1>1
    <2>2. (q - 1) * m = q * m - m
        BY <1>1
    <2> QED
        BY <1>1, <2>1, <2>2
<1>3. ~(q <= p - 1)
    <2> SUFFICES ASSUME q <= p - 1 PROVE FALSE
        BY Zenon
    <2>1. q * m <= (p - 1) * m
        BY <1>1
    <2>2. (p - 1) * m = p * m - m
        BY <1>1
    <2> QED
        BY <1>1, <2>1, <2>2
<1> QED
    BY <1>1, <1>2, <1>3 DEF p

\* What a fee that is rounded up leaves of an amount is what the rest of the pips
\* gives when it is rounded down.
LEMMA FeeLeaves ==
    ASSUME NEW d \in Nat, NEW f \in 0 .. MaxPips
    PROVE  /\ FeeCeil(f, d) \in Nat
           /\ (d * (MaxPips - f)) \div MaxPips = d - FeeCeil(f, d)
<1> DEFINE c == FeeCeil(f, d)
<1>1. MaxPips \in Nat \ {0} /\ f \in Nat
    BY SettlementAssumption
<1>2. d * f \in Int /\ d * f + MaxPips - 1 \in Int
    BY <1>1
<1>3. c \in Int /\ c * MaxPips <= d * f + MaxPips - 1 /\ d * f + MaxPips - 1 < c * MaxPips + MaxPips
    BY <1>1, <1>2, DivBounds, Zenon DEF FeeCeil
<1> HIDE DEF c
<1>4. /\ d * (MaxPips - f) = d * MaxPips - d * f
      /\ (d - c) * MaxPips = d * MaxPips - c * MaxPips
      /\ d * MaxPips \in Int /\ c * MaxPips \in Int
    BY <1>1, <1>3
<1>5. /\ (d - c) * MaxPips <= d * (MaxPips - f)
      /\ d * (MaxPips - f) < (d - c) * MaxPips + MaxPips
    BY <1>1, <1>2, <1>3, <1>4
<1>6. (d * (MaxPips - f)) \div MaxPips = d - c
    BY <1>1, <1>2, <1>3, <1>4, <1>5, DivUnique
<1>7. c \in Nat
    <2>1. d * f >= 0
        BY <1>1
    <2>2. ~(c <= -1)
        <3> SUFFICES ASSUME c <= -1 PROVE FALSE
            BY Zenon
        <3>1. c * MaxPips <= (-1) * MaxPips
            BY <1>1, <1>3
        <3> QED
            BY <1>1, <1>2, <1>3, <1>4, <2>1, <3>1
    <2> QED
        BY <1>3, <2>2
<1> QED
    BY <1>6, <1>7, Zenon DEF c

\* The fee of a token is a share of the whole.
LEMMA FeeType ==
    ASSUME NEW t, NEW amount \in Nat
    PROVE  TokenFee(t, amount) \in 0 .. MaxPips
BY SettlementAssumption DEF TokenFee

\* What the fee collector gets for a diff of a token.
CollectedOf(t, delta) ==
    IF delta < 0 THEN FeeCeil(TokenFee(t, Abs(delta)), Abs(delta)) ELSE 0

\* TokenDiff::supply_delta counts the diff with its fee.
LEMMA SupplyDeltaCounts ==
    ASSUME NEW t, NEW delta \in Int
    PROVE  /\ CollectedOf(t, delta) \in Nat
           /\ SupplyDelta(t, delta) = delta + CollectedOf(t, delta)
<1>1. CASE delta < 0
    <2> DEFINE d == -delta
               f == TokenFee(t, d)
    <2>1. d \in Nat /\ Abs(delta) = d /\ delta = -d
        BY <1>1 DEF Abs
    <2>2. f \in 0 .. MaxPips
        BY <2>1, FeeType, Zenon
    <2>3. -delta * (MaxPips - f) = d * (MaxPips - f)
        BY <2>2, SettlementAssumption
    <2>4. FeeCeil(f, d) \in Nat /\ (d * (MaxPips - f)) \div MaxPips = d - FeeCeil(f, d)
        BY <2>1, <2>2, FeeLeaves, Zenon
    <2>5. SupplyDelta(t, delta) = -(d - FeeCeil(f, d)) /\ CollectedOf(t, delta) = FeeCeil(f, d)
        BY <1>1, <2>1, <2>3, <2>4, Zenon DEF SupplyDelta, CollectedOf
    <2> HIDE DEF d, f
    <2> QED
        BY <2>1, <2>4, <2>5
<1>2. CASE ~(delta < 0)
    BY <1>2 DEF SupplyDelta, CollectedOf
<1> QED
    BY <1>1, <1>2, Zenon

\* The closure of a supply delta takes it back, through the fees of both and with
\* what is rounded.
LEMMA ClosureCloses ==
    ASSUME NEW t \in Tokens, NEW n \in Int, fee < MaxPips
    PROVE  /\ ClosureSupplyDelta(t, n) \in Int
           /\ SupplyDelta(t, ClosureSupplyDelta(t, n)) = -n
<1>1. CASE n <= 0
    BY <1>1 DEF ClosureSupplyDelta, SupplyDelta
<1>2. CASE n > 0
    <2> DEFINE f == TokenFee(t, n)
               c == ClosureSupplyDelta(t, n)
               e == -c
               rest == MaxPips - f
    <2>1. MaxPips \in Nat \ {0} /\ fee \in Nat /\ f \in Nat /\ rest \in Nat \ {0} /\ rest <= MaxPips
        BY SettlementAssumption DEF TokenFee
    <2>2. Abs(n) = n /\ n \in Nat
        BY <1>2 DEF Abs
    <2>3. c = (-n * MaxPips) \div rest
        BY <1>2, <2>2 DEF ClosureSupplyDelta
    <2>4. -n * MaxPips \in Int
        BY <2>1
    <2>5. c \in Int /\ c * rest <= -n * MaxPips /\ -n * MaxPips < c * rest + rest
        BY <2>1, <2>3, <2>4, DivBounds, Zenon
    <2> HIDE DEF c, f
    <2>6. e \in Int /\ n * MaxPips <= e * rest /\ e * rest < n * MaxPips + rest
        <3> HIDE DEF rest
        <3>1. e \in Int /\ e * rest = -(c * rest) /\ -n * MaxPips = -(n * MaxPips)
            BY <2>1, <2>5
        <3>2. n * MaxPips \in Int /\ c * rest \in Int
            BY <2>1, <2>2, <2>5
        <3> QED
            BY <2>1, <2>5, <3>1, <3>2
    <2>7. rest \in Nat \ {0} /\ rest <= MaxPips
        BY <2>1, Zenon
    <2> HIDE DEF e, rest
    <2>8. e >= n
        <3>1. n * rest <= n * MaxPips
            BY <2>1, <2>2, <2>7
        <3>2. n * rest <= e * rest
            <4>1. n * rest \in Int /\ n * MaxPips \in Int /\ e * rest \in Int
                BY <2>1, <2>2, <2>6, <2>7
            <4> QED
                BY <2>6, <3>1, <4>1
        <3>3. ~(e <= n - 1)
            <4> SUFFICES ASSUME e <= n - 1 PROVE FALSE
                BY Zenon
            <4>1. e * rest <= (n - 1) * rest
                BY <2>2, <2>6, <2>7
            <4>2. (n - 1) * rest = n * rest - rest /\ n * rest \in Int /\ e * rest \in Int
                BY <2>2, <2>6, <2>7
            <4> QED
                BY <2>7, <3>2, <4>1, <4>2
        <3> QED
            BY <2>2, <2>6, <3>3
    <2>9. TokenFee(t, e) = f
        <3>1. CASE n = 1 /\ f = 0
            <4>1. rest = MaxPips
                BY <2>1, <3>1 DEF rest
            <4>2. ~(e >= 2)
                <5> SUFFICES ASSUME e >= 2 PROVE FALSE
                    BY Zenon
                <5>1. e * MaxPips >= 2 * MaxPips
                    BY <2>1, <2>6
                <5> QED
                    BY <2>1, <2>6, <3>1, <4>1, <5>1
            <4> QED
                BY <2>2, <2>6, <2>8, <3>1, <4>2 DEF f
        <3>2. CASE ~(n = 1 /\ f = 0)
            BY <1>2, <2>2, <2>6, <2>8, <3>2, SettlementAssumption DEF f, TokenFee
        <3> QED
            BY <3>1, <3>2, Zenon
    <2>10. (e * rest) \div MaxPips = n
        <3>1. e * rest \in Int /\ n * MaxPips \in Int
            BY <2>1, <2>2, <2>6, <2>7
        <3>2. e * rest < n * MaxPips + MaxPips
            BY <2>1, <2>6, <2>7, <3>1
        <3> QED
            BY <2>1, <2>2, <2>6, <3>1, <3>2, DivUnique, Zenon
    <2>11. SupplyDelta(t, c) = -((e * rest) \div MaxPips)
        <3>1. c < 0 /\ Abs(c) = e /\ -c * (MaxPips - f) = e * rest
            BY <1>2, <2>1, <2>5, <2>8, <2>2 DEF Abs, e, rest
        <3> QED
            BY <2>9, <3>1, Zenon DEF SupplyDelta
    <2> QED
        BY <2>5, <2>10, <2>11, Zenon DEF c
<1> QED
    BY <1>1, <1>2

---------------------------------------------------------------------------
(* The maps of the matcher, and totals. *)

\* sub_add changes the difference of the two maps by the amount, and leaves one of
\* them empty.
LEMMA SubAddFacts ==
    ASSUME NEW sub \in Nat, NEW add \in Nat, NEW amount \in Nat, sub = 0 \/ add = 0
    PROVE  LET r == SubAdd(sub, add, amount)
           IN  /\ r.sub \in Nat /\ r.add \in Nat
               /\ r.add - r.sub = add - sub + amount
               /\ r.sub = 0 \/ r.add = 0
BY DEF SubAdd, Lesser

\* A delta changes the difference of deposits and withdrawals by itself,
\* and leaves at most one of the two.
LEMMA DeltaFacts ==
    ASSUME TypeInv, MatcherInv, NEW h \in Holdings, NEW delta \in Int
    PROVE  /\ DepositsAfter(h, delta) \in Nat /\ WithdrawalsAfter(h, delta) \in Nat
           /\ DepositsAfter(h, delta) - WithdrawalsAfter(h, delta)
                = deposits[h] - withdrawals[h] + delta
           /\ DepositsAfter(h, delta) = 0 \/ WithdrawalsAfter(h, delta) = 0
<1>1. /\ deposits[h] \in Nat /\ withdrawals[h] \in Nat
      /\ deposits[h] = 0 \/ withdrawals[h] = 0
    <2>1. deposits[h] \in Nat /\ withdrawals[h] \in Nat
        BY SettlementAssumption DEF TypeInv
    <2> QED
        BY <2>1, Zenon DEF MatcherInv
<1>2. CASE delta < 0
    <2> DEFINE r == SubAdd(deposits[h], withdrawals[h], -delta)
    <2>1. -delta \in Nat
        BY <1>2
    <2>2. /\ r.sub \in Nat /\ r.add \in Nat
          /\ r.add - r.sub = withdrawals[h] - deposits[h] + (-delta)
          /\ r.sub = 0 \/ r.add = 0
        BY <1>1, <2>1, SubAddFacts, Zenon
    <2>3. DepositsAfter(h, delta) = r.sub /\ WithdrawalsAfter(h, delta) = r.add
        BY <1>2, Zenon DEF DepositsAfter, WithdrawalsAfter, Withdrawn
    <2> HIDE DEF r
    <2> QED
        BY <1>1, <2>2, <2>3
<1>3. CASE ~(delta < 0)
    <2> DEFINE r == SubAdd(withdrawals[h], deposits[h], delta)
    <2>1. delta \in Nat
        BY <1>3
    <2>2. /\ r.sub \in Nat /\ r.add \in Nat
          /\ r.add - r.sub = deposits[h] - withdrawals[h] + delta
          /\ r.sub = 0 \/ r.add = 0
        BY <1>1, <2>1, SubAddFacts, Zenon
    <2>3. DepositsAfter(h, delta) = r.add /\ WithdrawalsAfter(h, delta) = r.sub
        BY <1>3, Zenon DEF DepositsAfter, WithdrawalsAfter, Deposited
    <2> HIDE DEF r
    <2> QED
        BY <1>1, <2>2, <2>3, Zenon
<1> QED
    BY <1>2, <1>3, Zenon

\* The total of a token over all accounts is a number.
LEMMA TotalType ==
    ASSUME NEW f \in [Holdings -> Int], NEW t \in Tokens
    PROVE  Total(f, t) \in Int
<1>1. Column(f, t) \in [Accounts -> Int]
    BY Zenon DEF Column, Holdings
<1> QED
    BY <1>1, SumChange, SettlementAssumption, Zenon DEF Total

\* f and g differ only in what they say of one holding.
Elsewhere(f, g, holding) == \A h \in Holdings : h # holding => g[h] = f[h]

\* Changing one holding changes the total of its token, and no other.
LEMMA TotalUpdate ==
    ASSUME NEW f \in [Holdings -> Int], NEW g \in [Holdings -> Int],
           NEW a \in Accounts, NEW u \in Tokens, NEW t \in Tokens,
           Elsewhere(f, g, <<a, u>>)
    PROVE  Total(g, t) = Total(f, t) + (IF t = u THEN g[<<a, u>>] - f[<<a, u>>] ELSE 0)
<1>1. /\ f[<<a, u>>] \in Int /\ g[<<a, u>>] \in Int
      /\ \A b \in Accounts : b # a \/ t # u => g[<<b, t>>] = f[<<b, t>>]
    BY Zenon DEF Holdings, Elsewhere
<1>2. Total(f, t) \in Int
    BY TotalType, Zenon
<1>3. CASE t = u
    <2>1. /\ Column(f, t) \in [Accounts -> Int] /\ Column(g, t) \in [Accounts -> Int]
          /\ Column(f, t)[a] = f[<<a, u>>] /\ Column(g, t)[a] = g[<<a, u>>]
          /\ \A b \in Accounts \ {a} : Column(g, t)[b] = Column(f, t)[b]
        BY <1>1, <1>3, Zenon DEF Column, Holdings
    <2>2. Total(g, t) = Total(f, t) - f[<<a, u>>] + g[<<a, u>>]
        BY <2>1, SumChange, SettlementAssumption DEF Total
    <2> QED
        BY <1>1, <1>2, <1>3, <2>2
<1>4. CASE t # u
    <2>1. Column(g, t) = Column(f, t)
        BY <1>1, <1>4, Zenon DEF Column
    <2> QED
        BY <1>2, <1>4, <2>1 DEF Total
<1> QED
    BY <1>3, <1>4, Zenon

\* A total of nothing is nothing, and a total of amounts is at least each of them.
LEMMA TotalOfAmounts ==
    ASSUME NEW f \in [Holdings -> Nat], NEW t \in Tokens
    PROVE  /\ (\A a \in Accounts : f[<<a, t>>] = 0) => Total(f, t) = 0
           /\ \A a \in Accounts : f[<<a, t>>] <= Total(f, t)
<1>1. Column(f, t) \in [Accounts -> Nat] /\ \A a \in Accounts : Column(f, t)[a] = f[<<a, t>>]
    BY Zenon DEF Column, Holdings
<1>2. (\A a \in Accounts : f[<<a, t>>] = 0) => Total(f, t) = 0
    BY <1>1, SumOfZeros, SettlementAssumption, Zenon DEF Total, SumsTo
<1>3. \A a \in Accounts : f[<<a, t>>] <= Total(f, t)
    BY <1>1, TermAtMostSum, SettlementAssumption, Zenon DEF Total
<1> QED
    BY <1>2, <1>3, Zenon

\* The types of the amounts, as integers.
LEMMA AmountTypes ==
    ASSUME TypeInv
    PROVE  /\ balances \in [Holdings -> Int] /\ before \in [Holdings -> Int]
           /\ deposits \in [Holdings -> Int] /\ withdrawals \in [Holdings -> Int]
           /\ deposits \in [Holdings -> Nat] /\ withdrawals \in [Holdings -> Nat]
           /\ outside \in [Holdings -> Int]
           /\ transfers \in [Accounts \X Accounts \X Tokens -> Nat]
BY SettlementAssumption DEF TypeInv

Transferred(s, r, u, amount) == transfers' = [transfers EXCEPT ![<<s, r, u>>] = @ + amount]

\* A transfer is counted once where it is received and once where it is sent.
LEMMA TransferCounted ==
    ASSUME TypeInv, NEW s \in Accounts, NEW r \in Accounts, NEW u \in Tokens,
           NEW amount \in Nat,
           Transferred(s, r, u, amount),
           NEW a \in Accounts, NEW t \in Tokens
    PROVE  /\ Received(a, t) \in Int /\ Sent(a, t) \in Int
           /\ Received(a, t)' = Received(a, t) + (IF a = r /\ t = u THEN amount ELSE 0)
           /\ Sent(a, t)' = Sent(a, t) + (IF a = s /\ t = u THEN amount ELSE 0)
<1> DEFINE R == [b \in Accounts |-> transfers[<<b, a, t>>]]
           S == [b \in Accounts |-> transfers[<<a, b, t>>]]
           Rn == [b \in Accounts |-> transfers'[<<b, a, t>>]]
           Sn == [b \in Accounts |-> transfers'[<<a, b, t>>]]
<1>1. /\ transfers \in [Accounts \X Accounts \X Tokens -> Nat]
      /\ IsFiniteSet(Accounts)
    BY AmountTypes, SettlementAssumption, Zenon
<1>2. /\ transfers' \in [Accounts \X Accounts \X Tokens -> Nat]
      /\ \A b, c \in Accounts :
            transfers'[<<b, c, t>>] = transfers[<<b, c, t>>]
                                    + (IF b = s /\ c = r /\ t = u THEN amount ELSE 0)
    BY <1>1 DEF Transferred
<1>3. /\ R \in [Accounts -> Int] /\ S \in [Accounts -> Int]
      /\ Rn \in [Accounts -> Int] /\ Sn \in [Accounts -> Int]
    BY <1>1, <1>2
<1>4. \A b \in Accounts : Rn[b] = R[b] + (IF b = s /\ a = r /\ t = u THEN amount ELSE 0)
    BY <1>2, Zenon
<1>5. \A b \in Accounts : Sn[b] = S[b] + (IF a = s /\ b = r /\ t = u THEN amount ELSE 0)
    BY <1>2, Zenon
<1>6. Received(a, t) = SumOf(R, Accounts) /\ Received(a, t)' = SumOf(Rn, Accounts)
    BY Zenon DEF Received
<1>7. Sent(a, t) = SumOf(S, Accounts) /\ Sent(a, t)' = SumOf(Sn, Accounts)
    BY Zenon DEF Sent
<1> HIDE DEF R, S, Rn, Sn
<1>8. /\ SumOf(R, Accounts) \in Int
      /\ SumOf(Rn, Accounts) = SumOf(R, Accounts) - R[s] + Rn[s]
    BY <1>1, <1>3, <1>4, SumChange
<1>9. /\ SumOf(S, Accounts) \in Int
      /\ SumOf(Sn, Accounts) = SumOf(S, Accounts) - S[r] + Sn[r]
    BY <1>1, <1>3, <1>5, SumChange
<1>10. R[s] \in Int /\ S[r] \in Int
    BY <1>3, Zenon
<1> QED
    BY <1>4, <1>5, <1>6, <1>7, <1>8, <1>9, <1>10

---------------------------------------------------------------------------
(* The intents. *)

\* Before anything happens, everything is zero.
LEMMA InitIInv == Init => IInv
<1> SUFFICES ASSUME Init PROVE IInv
    BY Zenon
<1> USE SettlementAssumption
<1>1. TypeInv
    BY DEF Init, TypeInv
<1>2. MatcherInv
    BY DEF Init, MatcherInv, PartyOK, Holdings
<1>3. ASSUME NEW f, f = [h \in Holdings |-> 0], NEW t \in Tokens
      PROVE  Total(f, t) = 0
    BY <1>3, TotalOfAmounts, Zenon DEF Holdings
<1>4. ASSUME NEW t \in Tokens
      PROVE  /\ Total(balances, t) = Total(before, t) /\ Total(before, t) \in Int
             /\ Total(outside, t) = 0 /\ Total(deposits, t) = 0 /\ Total(withdrawals, t) = 0
    BY <1>1, <1>3, AmountTypes, TotalType, Zenon DEF Init
<1>5. ASSUME NEW a \in Accounts, NEW t \in Tokens
      PROVE  Received(a, t) = 0 /\ Sent(a, t) = 0
    <2> DEFINE R == [b \in Accounts |-> transfers[<<b, a, t>>]]
               S == [b \in Accounts |-> transfers[<<a, b, t>>]]
    <2>1. /\ R \in [Accounts -> Nat] /\ \A b \in Accounts : R[b] = 0
          /\ S \in [Accounts -> Nat] /\ \A b \in Accounts : S[b] = 0
        BY Zenon DEF Init
    <2>2. SumOf(R, Accounts) = 0 /\ SumOf(S, Accounts) = 0
        <3> HIDE DEF R, S
        <3> QED
            BY <2>1, SumOfZeros, Zenon DEF SumsTo
    <2> QED
        BY <2>2, Zenon DEF Received, Sent
<1>6. TransfersExplainBalances
    <2>1. ASSUME NEW a \in Accounts, NEW t \in Tokens
          PROVE  /\ balances[<<a, t>>] = before[<<a, t>>] /\ before[<<a, t>>] \in Int
                 /\ outside[<<a, t>>] = 0 /\ deposits[<<a, t>>] = 0 /\ withdrawals[<<a, t>>] = 0
        BY <1>1 DEF Init, Holdings, TypeInv
    <2>2. ASSUME NEW a \in Accounts, NEW t \in Tokens
          PROVE  balances[<<a, t>>] = before[<<a, t>>] + outside[<<a, t>>]
                                       + deposits[<<a, t>>] - withdrawals[<<a, t>>]
                                       + Received(a, t) - Sent(a, t)
        <3>1. Received(a, t) = 0 /\ Sent(a, t) = 0
            BY <1>5, Zenon
        <3> QED
            BY <2>1, <3>1
    <2> QED
        BY <2>2, Zenon DEF TransfersExplainBalances
<1>7. BooksInv
    BY <1>4, <1>6 DEF BooksInv, TotalsExplained
<1>8. ClosureInv
    <2>1. \A t \in Tokens : Owing(1, t) = 0 /\ Owing(2, t) = 0
        BY DEF Init, Owing
    <2> QED
        BY <1>4, <2>1 DEF Init, ClosureInv
<1> QED
    BY <1>1, <1>2, <1>7, <1>8, Zenon DEF IInv

\* An intent begins: what its changes do to the deltas is what it adds to the
\* supply delta.
LEMMA ExecuteKeepsIInv ==
    ASSUME IInv, NEW changes \in Seq(Changes), Len(changes) <= 2, Execute(changes),
           net' \in [Tokens -> Int], closed' \subseteq Tokens,
           \A t \in Tokens : net'[t] = net[t] + (Owing(1, t)' + Owing(2, t)'),
           \A t \in closed' : net'[t] = 0
    PROVE  IInv'
<1>1. /\ phase = "executing" /\ todo = <<>> /\ todo' = changes
      /\ UNCHANGED <<phase, balances, deposits, withdrawals, matching, before, outside>>
    BY Zenon DEF Execute
<1>2. TypeInv'
    BY <1>1, Zenon DEF IInv, TypeInv, matching
<1>3. MatcherInv'
    BY <1>1, Zenon DEF IInv, MatcherInv, PartyOK, matching
<1>4. BooksInv'
    <2>1. TransfersExplainBalances'
        BY <1>1, Zenon
           DEF IInv, BooksInv, TransfersExplainBalances, Received, Sent, matching
    <2> QED
        BY <1>1, <2>1, Zenon DEF IInv, BooksInv, TotalsExplained, Total, Column
<1>5. ClosureInv'
    <2>1. \A t \in Tokens : Owing(1, t) = 0 /\ Owing(2, t) = 0
        BY <1>1 DEF Owing
    <2>2. ASSUME NEW t \in Tokens
          PROVE  net[t] = Total(deposits, t) - Total(withdrawals, t)
        <3>1. Total(deposits, t) \in Int /\ Total(withdrawals, t) \in Int
            BY AmountTypes, TotalType, Zenon DEF IInv
        <3> QED
            BY <1>1, <2>1, <3>1 DEF IInv, ClosureInv
    <2>3. \A t \in Tokens : /\ Total(deposits, t)' = Total(deposits, t)
                            /\ Total(withdrawals, t)' = Total(withdrawals, t)
        BY <1>1, Zenon DEF Total, Column
    <2> QED
        BY <2>2, <2>3, Zenon DEF ClosureInv
<1> QED
    BY <1>2, <1>3, <1>4, <1>5, Zenon DEF IInv

\* The one or two changes of an intent, as a sequence.
LEMMA ShortSequences ==
    ASSUME NEW S, NEW x \in S, NEW y \in S
    PROVE  /\ <<x>> \o <<y>> = <<x, y>> /\ <<x>> \o <<>> = <<x>>
           /\ <<x>> \in Seq(S) /\ Len(<<x>>) = 1
           /\ <<x, y>> \in Seq(S) /\ Len(<<x, y>>) = 2
           /\ <<x>>[1] = x /\ <<x, y>>[1] = x /\ <<x, y>>[2] = y
<1>1. <<x>> \o <<y>> = <<x, y>>
    <2> DEFINE s == <<x>> \o <<y>>
    <2>1. s \in Seq(S) /\ Len(s) = 2 /\ s[1] = x /\ s[2] = y
        OBVIOUS
    <2> HIDE DEF s
    <2>2. s = <<x, y>>
        BY <2>1
    <2> QED
        BY <2>2, Zenon DEF s
<1>2. <<x>> \o <<>> = <<x>>
    OBVIOUS
<1>3. <<x>> \in Seq(S) /\ Len(<<x>>) = 1
    OBVIOUS
<1>4. <<x, y>> \in Seq(S)
    OBVIOUS
<1>5. Len(<<x, y>>) = 2
    BY Zenon
<1>6. <<x>>[1] = x /\ <<x, y>>[1] = x /\ <<x, y>>[2] = y
    BY Zenon
<1> QED
    BY <1>1, <1>2, <1>3, <1>4, <1>5, <1>6, Zenon

\* The changes of a diff, with its fee.
LEMMA DiffChanges ==
    ASSUME NEW a \in Accounts, NEW u \in Tokens, NEW delta \in Int,
           todo' = <<Change(a, u, delta)>> \o FeeChanges(u, delta)
    PROVE  /\ todo' \in Seq(Changes) /\ Len(todo') <= 2
           /\ \A t \in Tokens :
                 Owing(1, t)' + Owing(2, t)' = IF t = u THEN SupplyDelta(u, delta) ELSE 0
<1> DEFINE c == CollectedOf(u, delta)
           first == Change(a, u, delta)
           second == Change(collector, u, c)
<1>1. c \in Nat /\ SupplyDelta(u, delta) = delta + c
    BY SupplyDeltaCounts, Zenon
<1>2. FeeChanges(u, delta) = IF c > 0 THEN <<second>> ELSE <<>>
    BY DEF FeeChanges, CollectedOf
<1>3. first \in Changes /\ second \in Changes
    BY <1>1, SettlementAssumption DEF Change, Changes, Holdings
<1>4. /\ first.delta = delta /\ first.holding[2] = u /\ first.outside = FALSE
      /\ second.delta = c /\ second.holding[2] = u /\ second.outside = FALSE
    BY Zenon DEF Change
<1> HIDE DEF first, second, c
<1>5. CASE c > 0
    <2>1. todo' = <<first, second>>
        BY <1>2, <1>3, <1>5, ShortSequences DEF first
    <2> DEFINE pair == <<first, second>>
    <2>a. /\ pair \in Seq(Changes) /\ Len(pair) = 2
          /\ pair[1] = first /\ pair[2] = second
        BY <1>3, ShortSequences, Zenon
    <2> HIDE DEF pair
    <2>2. todo' \in Seq(Changes) /\ Len(todo') = 2 /\ todo'[1] = first /\ todo'[2] = second
        BY <2>1, <2>a, Zenon DEF pair
    <2> QED
        BY <1>1, <1>4, <2>2 DEF Owing
<1>6. CASE c = 0
    <2>1. todo' = <<first>>
        BY <1>2, <1>3, <1>6, ShortSequences DEF first
    <2>2. todo' \in Seq(Changes) /\ Len(todo') = 1 /\ todo'[1] = first
        BY <1>3, <2>1, ShortSequences, Zenon
    <2> QED
        BY <1>1, <1>4, <1>6, <2>2 DEF Owing
<1> QED
    BY <1>1, <1>5, <1>6

\* A token diff of one account, with the fee it pays, keeps the invariant.
LEMMA DiffKeepsIInv ==
    ASSUME IInv, NEW a \in Accounts, NEW u \in Tokens, NEW delta \in Int,
           Execute(<<Change(a, u, delta)>> \o FeeChanges(u, delta)),
           net' = [net EXCEPT ![u] = @ + SupplyDelta(u, delta)],
           closed' \subseteq Tokens,
           \A t \in closed' : IF t = u THEN net[u] + SupplyDelta(u, delta) = 0 ELSE t \in closed
    PROVE  IInv'
<1>1. todo' = <<Change(a, u, delta)>> \o FeeChanges(u, delta)
    BY Zenon DEF Execute
<1>2. /\ todo' \in Seq(Changes) /\ Len(todo') <= 2
      /\ \A t \in Tokens :
            Owing(1, t)' + Owing(2, t)' = IF t = u THEN SupplyDelta(u, delta) ELSE 0
    BY <1>1, DiffChanges, Zenon
<1>3. SupplyDelta(u, delta) \in Int
    BY SupplyDeltaCounts
<1>4. net \in [Tokens -> Int] /\ \A t \in closed : net[t] = 0
    BY Zenon DEF IInv, TypeInv, ClosureInv
<1>5. /\ net' \in [Tokens -> Int]
      /\ \A t \in Tokens : net'[t] = net[t] + (IF t = u THEN SupplyDelta(u, delta) ELSE 0)
    BY <1>3, <1>4
<1>6. \A t \in closed' : net'[t] = 0
    BY <1>4, <1>5, Zenon
<1>7. \A t \in Tokens : net'[t] = net[t] + (Owing(1, t)' + Owing(2, t)')
    BY <1>2, <1>5, Zenon
<1> QED
    BY <1>1, <1>2, <1>5, <1>6, <1>7, ExecuteKeepsIInv, Zenon

\* Every intent that begins keeps the invariant.
LEMMA IntentsKeepIInv ==
    ASSUME IInv
    PROVE  /\ \A a, b \in Accounts, t \in Tokens, amount \in Moves :
                 Transfer(a, b, t, amount) => IInv'
           /\ \A a \in Accounts, t \in Tokens, delta \in Deltas :
                 TokenDiff(a, t, delta) => IInv'
           /\ \A a \in Accounts, t \in Tokens : Close(a, t) => IInv'
           /\ \A a \in Accounts, t \in Tokens, amount \in Moves :
                 Withdraw(a, t, amount) \/ Mint(a, t, amount) => IInv'
<1>0. /\ Moves \subseteq Nat /\ Deltas \subseteq Int
      /\ net \in [Tokens -> Int] /\ closed \subseteq Tokens
      /\ \A t \in closed : net[t] = 0
    BY SettlementAssumption DEF IInv, TypeInv, ClosureInv
<1>1. ASSUME NEW a \in Accounts, NEW b \in Accounts, NEW u \in Tokens, NEW amount \in Moves,
             Transfer(a, b, u, amount)
      PROVE  IInv'
    <2> DEFINE first == Change(a, u, -amount)
               second == Change(b, u, amount)
    <2>1. first \in Changes /\ second \in Changes /\ amount \in Nat
        BY <1>0 DEF Change, Changes, Holdings
    <2>2. /\ first.delta = -amount /\ first.holding[2] = u /\ first.outside = FALSE
          /\ second.delta = amount /\ second.holding[2] = u /\ second.outside = FALSE
        BY Zenon DEF Change
    <2>3. Execute(<<first, second>>) /\ closed' = closed \ {u} /\ net' = net
        BY <1>1, Zenon DEF Transfer
    <2> HIDE DEF first, second
    <2>4. /\ <<first, second>> \in Seq(Changes) /\ todo' = <<first, second>>
          /\ Len(<<first, second>>) = 2 /\ todo'[1] = first /\ todo'[2] = second
        BY <2>1, <2>3, ShortSequences, Zenon DEF Execute
    <2>5. \A t \in Tokens : Owing(1, t)' + Owing(2, t)' = 0
        BY <2>1, <2>2, <2>4 DEF Owing
    <2>6. \A t \in Tokens : net'[t] = net[t] + (Owing(1, t)' + Owing(2, t)')
        BY <1>0, <2>3, <2>5
    <2>7. /\ net' \in [Tokens -> Int] /\ closed' \subseteq Tokens
          /\ \A t \in closed' : net'[t] = 0
        BY <1>0, <2>3, Zenon
    <2>8. Len(<<first, second>>) <= 2
        BY <2>4
    <2> QED
        BY <2>3, <2>4, <2>6, <2>7, <2>8, ExecuteKeepsIInv, Zenon
<1>2. ASSUME NEW a \in Accounts, NEW u \in Tokens, NEW delta \in Deltas, TokenDiff(a, u, delta)
      PROVE  IInv'
    BY <1>0, <1>2, DiffKeepsIInv, Zenon DEF TokenDiff
<1>3. ASSUME NEW a \in Accounts, NEW u \in Tokens, Close(a, u)
      PROVE  IInv'
    <2> DEFINE c == ClosureSupplyDelta(u, net[u])
    <2>1. c \in Int /\ SupplyDelta(u, c) = -net[u] /\ net[u] \in Int
        BY <1>0, <1>3, ClosureCloses, Zenon DEF Close
    <2>2. /\ Execute(<<Change(a, u, c)>> \o FeeChanges(u, c))
          /\ net' = [net EXCEPT ![u] = @ + SupplyDelta(u, c)]
          /\ closed' = closed \cup {u}
        BY <1>3, Zenon DEF Close
    <2> HIDE DEF c
    <2>3. net[u] + SupplyDelta(u, c) = 0
        BY <2>1
    <2> QED
        BY <1>0, <2>1, <2>2, <2>3, DiffKeepsIInv, Zenon
<1>4. ASSUME NEW a \in Accounts, NEW u \in Tokens, NEW amount \in Moves,
             Withdraw(a, u, amount) \/ Mint(a, u, amount)
      PROVE  IInv'
    <2>1. PICK c \in Changes : Execute(<<c>>) /\ c.outside = TRUE
        <3>1. /\ OutsideChange(a, u, -amount) \in Changes
              /\ OutsideChange(a, u, amount) \in Changes
            BY <1>0 DEF OutsideChange, Changes, Holdings
        <3> QED
            BY <1>4, <3>1, Zenon DEF Withdraw, Mint, OutsideChange
    <2>2. net' = net /\ closed' = closed
        BY <1>4, Zenon DEF Withdraw, Mint
    <2>3. <<c>> \in Seq(Changes) /\ todo' = <<c>> /\ Len(<<c>>) = 1 /\ todo'[1] = c
        BY <2>1, ShortSequences, Zenon DEF Execute
    <2>4. \A t \in Tokens : Owing(1, t)' = 0 /\ Owing(2, t)' = 0
        BY <2>1, <2>3 DEF Owing
    <2>5. \A t \in Tokens : net'[t] = net[t] + (Owing(1, t)' + Owing(2, t)')
        BY <1>0, <2>2, <2>4
    <2>6. /\ net' \in [Tokens -> Int] /\ closed' \subseteq Tokens
          /\ \A t \in closed' : net'[t] = 0
        BY <1>0, <2>2, Zenon
    <2>7. Len(<<c>>) <= 2
        BY <2>3
    <2> QED
        BY <2>1, <2>3, <2>5, <2>6, <2>7, ExecuteKeepsIInv, Zenon
<1> QED
    BY <1>1, <1>2, <1>3, <1>4, Zenon

---------------------------------------------------------------------------
(* The changes of an intent, one at a time. *)

\* What an account received and sent by transfers are numbers.
LEMMA CountTypes ==
    ASSUME TypeInv, NEW a \in Accounts, NEW t \in Tokens
    PROVE  Received(a, t) \in Int /\ Sent(a, t) \in Int
<1> DEFINE R == [b \in Accounts |-> transfers[<<b, a, t>>]]
           S == [b \in Accounts |-> transfers[<<a, b, t>>]]
<1>1. R \in [Accounts -> Int] /\ S \in [Accounts -> Int]
    BY AmountTypes
<1>2. SumOf(R, Accounts) \in Int /\ SumOf(S, Accounts) \in Int
    <2> HIDE DEF R, S
    <2> QED
        BY <1>1, SumChange, SettlementAssumption, Zenon
<1> QED
    BY <1>2, Zenon DEF Received, Sent

\* The first of at most two changes, and what is left.
LEMMA HeadAndTail ==
    ASSUME NEW s \in Seq(Changes), s # <<>>, Len(s) <= 2
    PROVE  /\ Head(s) = s[1] /\ s[1] \in Changes
           /\ Tail(s) \in Seq(Changes) /\ Len(Tail(s)) = Len(s) - 1 /\ Len(s) \in 1 .. 2
           /\ Len(s) = 2 => Tail(s)[1] = s[2] /\ s[2] \in Changes
<1>1. Len(s) \in Nat /\ Len(s) # 0
    OBVIOUS
<1>2. Len(s) \in 1 .. 2
    <2> DEFINE n == Len(s)
    <2>1. n \in Nat /\ n # 0 /\ n <= 2
        BY <1>1, Zenon
    <2> HIDE DEF n
    <2>2. n \in 1 .. 2
        BY <2>1
    <2> QED
        BY <2>2, Zenon DEF n
<1>5. Head(s) = s[1] /\ s[1] \in Changes
    BY <1>1
<1>3. Tail(s) \in Seq(Changes) /\ Len(Tail(s)) = Len(s) - 1
    BY <1>1
<1>4. Len(s) = 2 => Tail(s)[1] = s[2] /\ s[2] \in Changes
    BY <1>1
<1> QED
    BY <1>2, <1>3, <1>4, <1>5, Zenon

\* One change keeps the books: what it does to the deltas it does to the maps,
\* and what the intent owes is less by that.
LEMMA StepKeepsIInv ==
    ASSUME IInv, Step
    PROVE  IInv'
<1> DEFINE c == Head(todo)
           d == c.delta
           h == c.holding
<1>1. /\ phase = "executing" /\ todo # <<>> /\ Fits(c)
      /\ balances' = [balances EXCEPT ![h] = @ + d]
      /\ todo' = Tail(todo)
      /\ UNCHANGED <<phase, matching, before, net, closed, intents>>
    BY Zenon DEF Step
<1>2. /\ c.outside => /\ outside' = [outside EXCEPT ![h] = @ + d]
                      /\ UNCHANGED <<deposits, withdrawals>>
      /\ ~c.outside =>
            /\ deposits' = [deposits EXCEPT ![h] = DepositsAfter(h, d)]
            /\ withdrawals' = [withdrawals EXCEPT ![h] = WithdrawalsAfter(h, d)]
            /\ UNCHANGED outside
    BY Zenon DEF Step
<1>3. /\ TypeInv /\ MatcherInv /\ BooksInv /\ ClosureInv
    BY Zenon DEF IInv
<1>4. /\ c = todo[1] /\ c \in Changes /\ todo' \in Seq(Changes) /\ Len(todo') <= 1
      /\ Len(todo') = Len(todo) - 1 /\ Len(todo) \in 1 .. 2
      /\ Len(todo) = 2 => todo'[1] = todo[2] /\ todo[2] \in Changes
    BY <1>1, <1>3, HeadAndTail DEF TypeInv
<1>5. h \in Holdings /\ d \in Int /\ c.outside \in BOOLEAN
    BY <1>4, Zenon DEF Changes
<1>6. PICK x \in Accounts, u \in Tokens : h = <<x, u>> /\ h[2] = u
    BY <1>5 DEF Holdings
<1>7. /\ DepositsAfter(h, d) \in Nat /\ WithdrawalsAfter(h, d) \in Nat
      /\ DepositsAfter(h, d) - WithdrawalsAfter(h, d) = deposits[h] - withdrawals[h] + d
      /\ DepositsAfter(h, d) = 0 \/ WithdrawalsAfter(h, d) = 0
    BY <1>3, <1>5, DeltaFacts, Zenon
<1>8. /\ balances[h] + d \in 0 .. MaxAmount
      /\ ~c.outside => /\ DepositsAfter(h, d) \in 0 .. MaxAmount
                       /\ WithdrawalsAfter(h, d) \in 0 .. MaxAmount
    BY <1>1, <1>7, SettlementAssumption DEF Fits
<1> DEFINE dep == DepositsAfter(h, d)
           wd == WithdrawalsAfter(h, d)
<1> HIDE DEF dep, wd
<1>9. /\ ~c.outside => /\ deposits' = [deposits EXCEPT ![h] = dep]
                       /\ withdrawals' = [withdrawals EXCEPT ![h] = wd]
                       /\ dep \in 0 .. MaxAmount /\ wd \in 0 .. MaxAmount
      /\ dep \in Nat /\ wd \in Nat /\ dep - wd = deposits[h] - withdrawals[h] + d
      /\ dep = 0 \/ wd = 0
    BY <1>2, <1>7, <1>8, Zenon DEF dep, wd
<1> HIDE DEF c, d, h
<1>10. /\ balances \in [Holdings -> Int] /\ before \in [Holdings -> Int]
       /\ deposits \in [Holdings -> Int] /\ withdrawals \in [Holdings -> Int]
       /\ outside \in [Holdings -> Int]
    BY <1>3, AmountTypes, Zenon
<1>11. TypeInv'
    <2>1. balances' \in [Holdings -> 0 .. MaxAmount]
        BY <1>1, <1>3, <1>8, Zenon DEF TypeInv
    <2>2. /\ deposits' \in [Holdings -> 0 .. MaxAmount]
          /\ withdrawals' \in [Holdings -> 0 .. MaxAmount]
          /\ outside' \in [Holdings -> Int]
        <3>0. /\ deposits \in [Holdings -> 0 .. MaxAmount]
              /\ withdrawals \in [Holdings -> 0 .. MaxAmount]
            BY <1>3, Zenon DEF TypeInv
        <3>1. CASE c.outside
            <4>1. outside[h] \in Int
                BY <1>5, <1>10, Zenon
            <4>2. outside[h] + d \in Int
                BY <1>5, <4>1
            <4>3. outside' \in [Holdings -> Int]
                BY <1>2, <1>10, <3>1, <4>2, Zenon
            <4> QED
                BY <1>2, <3>0, <3>1, <4>3, Zenon
        <3>2. CASE ~c.outside
            BY <1>2, <1>9, <1>10, <3>0, <3>2, Zenon
        <3> QED
            BY <3>1, <3>2, Zenon
    <2>3. /\ transfers' = transfers /\ sender' = sender /\ receiver' = receiver
          /\ phase' = phase /\ before' = before /\ net' = net /\ closed' = closed
        BY <1>1, Zenon DEF matching
    <2>4. Len(todo') <= 2
        BY <1>4
    <2> QED
        BY <1>3, <1>4, <2>1, <2>2, <2>3, <2>4, Zenon DEF TypeInv
<1>12. MatcherInv'
    <2>1. \A g \in Holdings : deposits'[g] = 0 \/ withdrawals'[g] = 0
        BY <1>2, <1>3, <1>5, <1>9, <1>10, Zenon DEF MatcherInv
    <2>2. \A t \in Tokens : sender'[t] = None /\ receiver'[t] = None
        BY <1>1, <1>3, Zenon DEF MatcherInv, matching
    <2>3. \A a, b \in Accounts, t \in Tokens : ~(transfers'[<<a, b, t>>] > 0)
        BY <1>1, <1>3, Zenon DEF MatcherInv, matching
    <2> QED
        BY <1>1, <2>1, <2>2, <2>3, Zenon DEF MatcherInv, PartyOK
<1>14. ASSUME NEW t \in Tokens
       PROVE  /\ Total(balances, t) \in Int /\ Total(outside, t) \in Int
              /\ Total(deposits, t) \in Int /\ Total(withdrawals, t) \in Int
              /\ Total(deposits, t)' \in Int /\ Total(withdrawals, t)' \in Int
              /\ Total(balances, t)' = Total(balances, t) + (IF t = u THEN d ELSE 0)
              /\ Total(outside, t)' = Total(outside, t) + (IF c.outside /\ t = u THEN d ELSE 0)
              /\ Total(deposits, t)' - Total(withdrawals, t)'
                   = Total(deposits, t) - Total(withdrawals, t)
                      + (IF ~c.outside /\ t = u THEN d ELSE 0)
    <2>1. /\ Total(balances, t) \in Int /\ Total(outside, t) \in Int
          /\ Total(deposits, t) \in Int /\ Total(withdrawals, t) \in Int
        BY <1>10, TotalType, Zenon
    <2>2. /\ balances[h] \in Int /\ deposits[h] \in Int /\ withdrawals[h] \in Int
          /\ outside[h] \in Int
        BY <1>5, <1>10, Zenon
    <2>3. Total(balances, t)' = Total(balances, t) + (IF t = u THEN d ELSE 0)
        <3>1. /\ balances' \in [Holdings -> Int]
              /\ Elsewhere(balances, balances', h)
              /\ balances'[h] - balances[h] = d
            BY <1>1, <1>5, <1>10, <2>2 DEF Elsewhere
        <3> QED
            BY <1>6, <1>10, <3>1, TotalUpdate
    <2>4. CASE c.outside
        <3>1. /\ outside' \in [Holdings -> Int]
              /\ Elsewhere(outside, outside', <<x, u>>)
              /\ outside'[<<x, u>>] - outside[<<x, u>>] = d
            BY <1>2, <1>5, <1>6, <1>10, <2>2, <2>4 DEF Elsewhere
        <3>2. Total(outside, t)' = Total(outside, t) + (IF t = u THEN d ELSE 0)
            BY <1>10, <3>1, TotalUpdate
        <3>3. deposits' = deposits /\ withdrawals' = withdrawals
            BY <1>2, <2>4, Zenon
        <3>4. /\ Total(deposits, t)' = Total(deposits, t)
              /\ Total(withdrawals, t)' = Total(withdrawals, t)
            BY <3>3, Zenon
        <3> QED
            BY <2>1, <2>3, <2>4, <3>2, <3>4
    <2>5. CASE ~c.outside
        <3>1. /\ deposits' \in [Holdings -> Int]
              /\ Elsewhere(deposits, deposits', <<x, u>>)
              /\ deposits'[<<x, u>>] = dep /\ deposits[<<x, u>>] = deposits[h]
            BY <1>5, <1>6, <1>9, <1>10, <2>5 DEF Elsewhere
        <3>2. /\ withdrawals' \in [Holdings -> Int]
              /\ Elsewhere(withdrawals, withdrawals', <<x, u>>)
              /\ withdrawals'[<<x, u>>] = wd /\ withdrawals[<<x, u>>] = withdrawals[h]
            BY <1>5, <1>6, <1>9, <1>10, <2>5 DEF Elsewhere
        <3>3. Total(deposits, t)' = Total(deposits, t) + (IF t = u THEN dep - deposits[h] ELSE 0)
            BY <1>10, <3>1, TotalUpdate
        <3>4. Total(withdrawals, t)' = Total(withdrawals, t)
                                        + (IF t = u THEN wd - withdrawals[h] ELSE 0)
            BY <1>10, <3>2, TotalUpdate
        <3>5. Total(outside, t)' = Total(outside, t)
            BY <1>2, <2>5, Zenon
        <3> QED
            BY <1>5, <1>9, <2>1, <2>2, <2>3, <2>5, <3>3, <3>4, <3>5
    <2> QED
        BY <1>5, <2>4, <2>5, Zenon
<1>13. BooksInv'
    <2>1. ASSUME NEW a \in Accounts, NEW t \in Tokens
          PROVE  balances'[<<a, t>>] = before'[<<a, t>>] + outside'[<<a, t>>]
                                        + deposits'[<<a, t>>] - withdrawals'[<<a, t>>]
                                        + Received(a, t)' - Sent(a, t)'
        <3> DEFINE g == <<a, t>>
        <3>1. g \in Holdings
            BY Zenon DEF Holdings
        <3>2. balances[g] = before[g] + outside[g] + deposits[g] - withdrawals[g]
                             + Received(a, t) - Sent(a, t)
            BY <1>1, <1>3, Zenon DEF BooksInv, TransfersExplainBalances
        <3>3. /\ Received(a, t)' = Received(a, t) /\ Sent(a, t)' = Sent(a, t)
              /\ before' = before
            BY <1>1, Zenon DEF Received, Sent, matching
        <3>4. Received(a, t) \in Int /\ Sent(a, t) \in Int
            BY <1>3, CountTypes, Zenon
        <3> HIDE DEF g
        <3>5. /\ balances[g] \in Int /\ before[g] \in Int /\ outside[g] \in Int
              /\ deposits[g] \in Int /\ withdrawals[g] \in Int
            BY <1>10, <3>1, Zenon
        <3>6. balances'[g] = IF g = h THEN balances[g] + d ELSE balances[g]
            BY <1>1, <1>10, <3>1, Zenon
        <3>7. CASE c.outside
            <4>1. /\ outside'[g] = IF g = h THEN outside[g] + d ELSE outside[g]
                  /\ deposits' = deposits /\ withdrawals' = withdrawals
                BY <1>2, <1>10, <3>1, <3>7, Zenon
            <4> QED
                BY <1>5, <3>2, <3>3, <3>4, <3>5, <3>6, <4>1 DEF g
        <3>8. CASE ~c.outside
            <4>1. /\ deposits'[g] = IF g = h THEN dep ELSE deposits[g]
                  /\ withdrawals'[g] = IF g = h THEN wd ELSE withdrawals[g]
                  /\ outside' = outside
                BY <1>2, <1>9, <1>10, <3>1, <3>8, Zenon
            <4> QED
                BY <1>5, <1>9, <3>2, <3>3, <3>4, <3>5, <3>6, <4>1 DEF g
        <3> QED
            BY <3>7, <3>8, Zenon
    <2>2. ASSUME NEW t \in Tokens
          PROVE  TotalsExplained(t)'
        <3>1. TotalsExplained(t) /\ before' = before
            BY <1>1, <1>3, Zenon DEF BooksInv
        <3>2. Total(before, t) \in Int
            BY <1>10, TotalType, Zenon
        <3> QED
            BY <1>5, <1>14, <3>1, <3>2 DEF TotalsExplained
    <2> QED
        BY <2>1, <2>2, Zenon DEF BooksInv, TransfersExplainBalances
<1>15. ClosureInv'
    <2>1. ASSUME NEW t \in Tokens
          PROVE  net'[t] = Total(deposits, t)' - Total(withdrawals, t)' + (Owing(1, t)' + Owing(2, t)')
        <3>1. net[t] = Total(deposits, t) - Total(withdrawals, t) + (Owing(1, t) + Owing(2, t))
            BY <1>1, <1>3, Zenon DEF ClosureInv
        <3>2. Owing(1, t) = IF ~c.outside /\ t = u THEN d ELSE 0
            BY <1>4, <1>6 DEF Owing, d, h
        <3>3. Owing(1, t)' = Owing(2, t) /\ Owing(2, t) \in Int
            <4>1. CASE Len(todo) = 2
                BY <1>4, <4>1 DEF Owing, Changes
            <4>2. CASE Len(todo) = 1
                BY <1>4, <4>2 DEF Owing
            <4> QED
                BY <1>4, <4>1, <4>2
        <3>4. Owing(2, t)' = 0
            BY <1>4 DEF Owing
        <3>5. net' = net
            BY <1>1, Zenon
        <3> QED
            BY <1>5, <1>14, <3>1, <3>2, <3>3, <3>4, <3>5
    <2> QED
        BY <1>1, <1>3, <2>1, Zenon DEF ClosureInv
<1> QED
    BY <1>11, <1>12, <1>13, <1>15, Zenon DEF IInv

---------------------------------------------------------------------------
(* The matcher, and how a batch ends. *)

\* A receipt that panics leaves the balances as they were.
LEMMA RolledBackKeepsIInv ==
    ASSUME IInv, NEW result \in {"failed", "overflow", "unmatched"}, RolledBack(result)
    PROVE  IInv'
<1>1. /\ phase' = result /\ balances' = before /\ todo' = <<>>
      /\ UNCHANGED <<deposits, withdrawals, sender, receiver, transfers>>
      /\ UNCHANGED <<before, outside, net, closed, intents>>
    BY Zenon DEF RolledBack, matching, history
<1>2. TypeInv'
    BY <1>1 DEF IInv, TypeInv
<1>3. MatcherInv'
    BY <1>1, Zenon DEF IInv, MatcherInv, PartyOK
<1>4. BooksInv'
    BY <1>1, Zenon DEF BooksInv, TransfersExplainBalances
<1>5. ClosureInv'
    BY <1>1, Zenon DEF IInv, ClosureInv
<1> QED
    BY <1>2, <1>3, <1>4, <1>5, Zenon DEF IInv

\* A largest entry has something left, and there is none when nobody has.
LEMMA LargestFacts ==
    ASSUME NEW f \in [Holdings -> Nat], NEW t \in Tokens, NEW p \in Largest(f, t)
    PROVE  /\ p \in Accounts \cup {None}
           /\ p # None => f[<<p, t>>] > 0
           /\ p = None => \A a \in Accounts : f[<<a, t>>] = 0
<1> DEFINE left == {a \in Accounts : f[<<a, t>>] > 0}
<1>1. \A a \in Accounts : f[<<a, t>>] \in Nat
    BY Zenon DEF Holdings
<1>2. CASE left = {}
    <2>1. p = None
        BY <1>2, Zenon DEF Largest
    <2>2. \A a \in Accounts : ~(f[<<a, t>>] > 0)
        BY <1>2, Zenon
    <2> QED
        BY <1>1, <2>1, <2>2
<1>3. CASE left # {}
    <2>1. p \in left
        BY <1>3, Zenon DEF Largest
    <2> QED
        BY <2>1, SettlementAssumption, Zenon
<1> QED
    BY <1>2, <1>3, Zenon

\* Turning the deltas over to the matcher keeps the invariant.
LEMMA FinalizeKeepsIInv ==
    ASSUME IInv, Finalize
    PROVE  IInv'
<1>1. /\ phase = "executing" /\ phase' = "matching"
      /\ sender' \in [Tokens -> Accounts \cup {None}]
      /\ receiver' \in [Tokens -> Accounts \cup {None}]
      /\ \A t \in Tokens : /\ sender'[t] \in Largest(withdrawals, t)
                            /\ receiver'[t] \in Largest(deposits, t)
      /\ UNCHANGED <<balances, deposits, withdrawals, todo, transfers>>
      /\ UNCHANGED <<before, outside, net, closed, intents>>
    BY Zenon DEF Finalize, history
<1>2. TypeInv'
    BY <1>1, Zenon DEF IInv, TypeInv
<1>3. MatcherInv'
    <2>1. deposits \in [Holdings -> Nat] /\ withdrawals \in [Holdings -> Nat]
        BY AmountTypes, Zenon DEF IInv
    <2>2. ASSUME NEW t \in Tokens
          PROVE  PartyOK(sender, withdrawals, t)' /\ PartyOK(receiver, deposits, t)'
        <3>1. /\ sender'[t] # None => withdrawals[<<sender'[t], t>>] > 0
              /\ sender'[t] = None => \A a \in Accounts : withdrawals[<<a, t>>] = 0
            BY <1>1, <2>1, LargestFacts, Zenon
        <3>2. /\ receiver'[t] # None => deposits[<<receiver'[t], t>>] > 0
              /\ receiver'[t] = None => \A a \in Accounts : deposits[<<a, t>>] = 0
            BY <1>1, <2>1, LargestFacts, Zenon
        <3> QED
            BY <1>1, <3>1, <3>2, Zenon DEF PartyOK
    <2> QED
        BY <1>1, <2>2, Zenon DEF IInv, MatcherInv
<1>4. BooksInv'
    <2>1. TransfersExplainBalances'
        BY <1>1, Zenon DEF IInv, BooksInv, TransfersExplainBalances, Received, Sent
    <2> QED
        BY <1>1, <2>1, Zenon DEF IInv, BooksInv, TotalsExplained, Total, Column
<1>5. ClosureInv'
    BY <1>1, Zenon DEF IInv, ClosureInv
<1> QED
    BY <1>2, <1>3, <1>4, <1>5, Zenon DEF IInv

\* Settling a matched batch keeps the invariant.
LEMMA SettleKeepsIInv ==
    ASSUME IInv, Settle
    PROVE  IInv'
<1>1. /\ phase = "matching" /\ phase' = "settled"
      /\ UNCHANGED <<balances, deposits, withdrawals, todo, sender, receiver, transfers>>
      /\ UNCHANGED <<before, outside, net, closed, intents>>
    BY Zenon DEF Settle, matching, history
<1>2. TypeInv'
    BY <1>1, Zenon DEF IInv, TypeInv
<1>3. MatcherInv'
    BY <1>1, Zenon DEF IInv, MatcherInv, PartyOK
<1>4. BooksInv'
    BY <1>1, Zenon DEF IInv, BooksInv, TransfersExplainBalances, Received, Sent
<1>5. ClosureInv'
    BY <1>1, Zenon DEF IInv, ClosureInv
<1> QED
    BY <1>2, <1>3, <1>4, <1>5, Zenon DEF IInv

\* A round of the matcher: the sender and the receiver differ, there has been no
\* transfer between them, and one of the two has nothing left.
LEMMA MatchFacts ==
    ASSUME IInv, NEW u \in Tokens, Match(u)
    PROVE  \E s, r \in Accounts, amount \in 1 .. MaxAmount :
              /\ s = sender[u] /\ r = receiver[u] /\ s # r
              /\ transfers[<<s, r, u>>] = 0
              /\ amount <= withdrawals[<<s, u>>] /\ amount <= deposits[<<r, u>>]
              /\ amount = withdrawals[<<s, u>>] \/ amount = deposits[<<r, u>>]
              /\ transfers' = [transfers EXCEPT ![<<s, r, u>>] = @ + amount]
              /\ withdrawals' = [withdrawals EXCEPT ![<<s, u>>] = @ - amount]
              /\ deposits' = [deposits EXCEPT ![<<r, u>>] = @ - amount]
<1> DEFINE s == sender[u]
           r == receiver[u]
           amount == Lesser(withdrawals[<<s, u>>], deposits[<<r, u>>])
<1>1. s \in Accounts /\ r \in Accounts
    BY Zenon DEF Match, IInv, TypeInv
<1>2. withdrawals[<<s, u>>] > 0 /\ deposits[<<r, u>>] > 0
    BY Zenon DEF Match, IInv, MatcherInv, PartyOK
<1>3. <<s, u>> \in Holdings /\ <<r, u>> \in Holdings
    BY <1>1, Zenon DEF Holdings
<1>4. withdrawals[<<s, u>>] \in 1 .. MaxAmount /\ deposits[<<r, u>>] \in 1 .. MaxAmount
    BY <1>2, <1>3, SettlementAssumption DEF IInv, TypeInv
<1>5. s # r
    BY <1>3, <1>4 DEF IInv, MatcherInv
<1>6. transfers[<<s, r, u>>] = 0
    <2>1. ~(transfers[<<s, r, u>>] > 0)
        BY <1>1, <1>4 DEF IInv, MatcherInv
    <2>2. transfers[<<s, r, u>>] \in Nat
        BY <1>1, SettlementAssumption DEF IInv, TypeInv
    <2> QED
        BY <2>1, <2>2
<1>7. /\ amount \in 1 .. MaxAmount
      /\ amount <= withdrawals[<<s, u>>] /\ amount <= deposits[<<r, u>>]
      /\ amount = withdrawals[<<s, u>>] \/ amount = deposits[<<r, u>>]
    BY <1>4 DEF Lesser
<1>8. /\ transfers' = [transfers EXCEPT ![<<s, r, u>>] = @ + amount]
      /\ withdrawals' = [withdrawals EXCEPT ![<<s, u>>] = @ - amount]
      /\ deposits' = [deposits EXCEPT ![<<r, u>>] = @ - amount]
    BY Zenon DEF Match
<1> HIDE DEF amount, s, r
<1>9. s = sender[u] /\ r = receiver[u]
    BY Zenon DEF s, r
<1> QED
    BY <1>1, <1>5, <1>6, <1>7, <1>8, <1>9, Zenon

\* One round of the matcher keeps the invariant.
LEMMA MatchKeepsIInv ==
    ASSUME IInv, NEW u \in Tokens, Match(u)
    PROVE  IInv'
<1>1. PICK s, r \in Accounts, amount \in 1 .. MaxAmount :
              /\ s = sender[u] /\ r = receiver[u] /\ s # r
              /\ transfers[<<s, r, u>>] = 0
              /\ amount <= withdrawals[<<s, u>>] /\ amount <= deposits[<<r, u>>]
              /\ amount = withdrawals[<<s, u>>] \/ amount = deposits[<<r, u>>]
              /\ transfers' = [transfers EXCEPT ![<<s, r, u>>] = @ + amount]
              /\ withdrawals' = [withdrawals EXCEPT ![<<s, u>>] = @ - amount]
              /\ deposits' = [deposits EXCEPT ![<<r, u>>] = @ - amount]
    BY MatchFacts, Zenon
<1>2. /\ phase = "matching" /\ phase' = phase /\ balances' = balances /\ todo' = todo
      /\ UNCHANGED <<before, outside, net, closed, intents>>
    BY Zenon DEF Match, history
<1>3. /\ TypeInv /\ MatcherInv /\ BooksInv /\ ClosureInv
    BY Zenon DEF IInv
<1>4. /\ balances \in [Holdings -> Int] /\ before \in [Holdings -> Int]
      /\ deposits \in [Holdings -> Nat] /\ withdrawals \in [Holdings -> Nat]
      /\ deposits \in [Holdings -> Int] /\ withdrawals \in [Holdings -> Int]
      /\ outside \in [Holdings -> Int]
      /\ transfers \in [Accounts \X Accounts \X Tokens -> Nat]
    BY <1>3, AmountTypes, Zenon
<1>5. <<s, u>> \in Holdings /\ <<r, u>> \in Holdings /\ amount \in Nat /\ amount > 0
    BY SettlementAssumption DEF Holdings
<1>6. /\ deposits' \in [Holdings -> 0 .. MaxAmount]
      /\ withdrawals' \in [Holdings -> 0 .. MaxAmount]
    <2>1. /\ deposits \in [Holdings -> 0 .. MaxAmount]
          /\ withdrawals \in [Holdings -> 0 .. MaxAmount]
        BY <1>3, Zenon DEF TypeInv
    <2>2. /\ deposits[<<r, u>>] - amount \in 0 .. MaxAmount
          /\ withdrawals[<<s, u>>] - amount \in 0 .. MaxAmount
        <3>1. deposits[<<r, u>>] \in 0 .. MaxAmount /\ withdrawals[<<s, u>>] \in 0 .. MaxAmount
            BY <1>5, <2>1, Zenon
        <3> QED
            BY <1>1, <1>5, <3>1, SettlementAssumption
    <2>3. deposits' = [deposits EXCEPT ![<<r, u>>] = deposits[<<r, u>>] - amount]
        BY <1>1, <1>5, <2>1, Zenon
    <2>4. withdrawals' = [withdrawals EXCEPT ![<<s, u>>] = withdrawals[<<s, u>>] - amount]
        BY <1>1, <1>5, <2>1, Zenon
    <2> QED
        BY <2>1, <2>2, <2>3, <2>4, Zenon
<1>7. transfers' \in [Accounts \X Accounts \X Tokens -> 0 .. MaxAmount]
    <2>1. transfers \in [Accounts \X Accounts \X Tokens -> 0 .. MaxAmount]
        BY <1>3, Zenon DEF TypeInv
    <2>2. transfers[<<s, r, u>>] + amount \in 0 .. MaxAmount
        BY <1>1, <1>5, SettlementAssumption
    <2> QED
        BY <1>1, <2>1, <2>2, Zenon
<1>8. /\ sender \in [Tokens -> Accounts \cup {None}]
      /\ receiver \in [Tokens -> Accounts \cup {None}]
    BY <1>3, Zenon DEF TypeInv
<1>10. deposits' \in [Holdings -> Nat] /\ withdrawals' \in [Holdings -> Nat]
    BY <1>6, SettlementAssumption
<1>11. /\ sender' \in [Tokens -> Accounts \cup {None}]
       /\ \A t \in Tokens : t # u => sender'[t] = sender[t]
       /\ sender'[u] # None => withdrawals'[<<sender'[u], u>>] > 0
       /\ sender'[u] = None => \A a \in Accounts : withdrawals'[<<a, u>>] = 0
    <2>1. PICK p \in IF withdrawals'[<<s, u>>] = 0 THEN Largest(withdrawals', u) ELSE {s} :
              sender' = [sender EXCEPT ![u] = p]
        BY <1>1, Zenon DEF Match
    <2>2. /\ p \in Accounts \cup {None}
          /\ p # None => withdrawals'[<<p, u>>] > 0
          /\ p = None => \A a \in Accounts : withdrawals'[<<a, u>>] = 0
        <3>1. CASE withdrawals'[<<s, u>>] = 0
            <4>1. p \in Largest(withdrawals', u)
                BY <2>1, <3>1, Zenon
            <4> QED
                BY <1>10, <4>1, LargestFacts, Zenon
        <3>2. CASE withdrawals'[<<s, u>>] # 0
            <4>1. p = s
                BY <2>1, <3>2, Zenon
            <4>2. withdrawals'[<<s, u>>] \in Nat
                BY <1>5, <1>10, Zenon
            <4> QED
                BY <3>2, <4>1, <4>2, SettlementAssumption
        <3> QED
            BY <3>1, <3>2, Zenon
    <2>3. /\ sender' \in [Tokens -> Accounts \cup {None}] /\ sender'[u] = p
          /\ \A t \in Tokens : t # u => sender'[t] = sender[t]
        BY <1>8, <2>1, <2>2, Zenon
    <2> QED
        BY <2>2, <2>3, Zenon
<1>12. /\ receiver' \in [Tokens -> Accounts \cup {None}]
       /\ \A t \in Tokens : t # u => receiver'[t] = receiver[t]
       /\ receiver'[u] # None => deposits'[<<receiver'[u], u>>] > 0
       /\ receiver'[u] = None => \A a \in Accounts : deposits'[<<a, u>>] = 0
    <2>1. PICK p \in IF deposits'[<<r, u>>] = 0 THEN Largest(deposits', u) ELSE {r} :
              receiver' = [receiver EXCEPT ![u] = p]
        BY <1>1, Zenon DEF Match
    <2>2. /\ p \in Accounts \cup {None}
          /\ p # None => deposits'[<<p, u>>] > 0
          /\ p = None => \A a \in Accounts : deposits'[<<a, u>>] = 0
        <3>1. CASE deposits'[<<r, u>>] = 0
            <4>1. p \in Largest(deposits', u)
                BY <2>1, <3>1, Zenon
            <4> QED
                BY <1>10, <4>1, LargestFacts, Zenon
        <3>2. CASE deposits'[<<r, u>>] # 0
            <4>1. p = r
                BY <2>1, <3>2, Zenon
            <4>2. deposits'[<<r, u>>] \in Nat
                BY <1>5, <1>10, Zenon
            <4> QED
                BY <3>2, <4>1, <4>2, SettlementAssumption
        <3> QED
            BY <3>1, <3>2, Zenon
    <2>3. /\ receiver' \in [Tokens -> Accounts \cup {None}] /\ receiver'[u] = p
          /\ \A t \in Tokens : t # u => receiver'[t] = receiver[t]
        BY <1>8, <2>1, <2>2, Zenon
    <2> QED
        BY <2>2, <2>3, Zenon
<1>13. TypeInv'
    BY <1>2, <1>3, <1>6, <1>7, <1>11, <1>12, Zenon DEF TypeInv
<1>14. MatcherInv'
    <2>0. ASSUME NEW h \in Holdings
          PROVE  /\ deposits[h] = 0 => deposits'[h] = 0
                 /\ withdrawals[h] = 0 => withdrawals'[h] = 0
        BY <1>1, <1>4, <1>5
    <2>1. \A h \in Holdings : deposits'[h] = 0 \/ withdrawals'[h] = 0
        BY <1>3, <2>0, Zenon DEF MatcherInv
    <2>2. ASSUME NEW t \in Tokens
          PROVE  PartyOK(sender, withdrawals, t)' /\ PartyOK(receiver, deposits, t)'
        <3>1. CASE t = u
            BY <1>11, <1>12, <3>1, Zenon DEF PartyOK
        <3>2. CASE t # u
            <4>1. \A a : <<a, t>> # <<s, u>> /\ <<a, t>> # <<r, u>>
                BY <3>2, Zenon
            <4>2. \A a \in Accounts : /\ withdrawals'[<<a, t>>] = withdrawals[<<a, t>>]
                                      /\ deposits'[<<a, t>>] = deposits[<<a, t>>]
                BY <1>1, <1>4, <4>1, Zenon DEF Holdings
            <4>3. sender'[t] = sender[t] /\ receiver'[t] = receiver[t]
                BY <1>11, <1>12, <3>2, Zenon
            <4>4. PartyOK(sender, withdrawals, t) /\ PartyOK(receiver, deposits, t)
                BY <1>3, Zenon DEF MatcherInv
            <4>5. sender[t] \in Accounts \cup {None} /\ receiver[t] \in Accounts \cup {None}
                BY <1>3, Zenon DEF TypeInv
            <4> QED
                BY <1>2, <4>2, <4>3, <4>4, <4>5, Zenon DEF PartyOK
        <3> QED
            BY <3>1, <3>2, Zenon
    <2>3. ASSUME NEW a \in Accounts, NEW b \in Accounts, NEW t \in Tokens,
                 transfers'[<<a, b, t>>] > 0
          PROVE  withdrawals'[<<a, t>>] = 0 \/ deposits'[<<b, t>>] = 0
        <3>1. CASE a = s /\ b = r /\ t = u
            <4>1. /\ withdrawals'[<<s, u>>] = withdrawals[<<s, u>>] - amount
                  /\ deposits'[<<r, u>>] = deposits[<<r, u>>] - amount
                BY <1>1, <1>4, <1>5, Zenon
            <4> QED
                BY <1>1, <1>5, <3>1, <4>1
        <3>2. CASE ~(a = s /\ b = r /\ t = u)
            <4>1. transfers[<<a, b, t>>] > 0
                <5>1. <<a, b, t>> # <<s, r, u>>
                    BY <3>2, Zenon
                <5>2. transfers'[<<a, b, t>>] = transfers[<<a, b, t>>]
                    BY <1>1, <1>4, <5>1, Zenon
                <5> QED
                    BY <2>3, <5>2, Zenon
            <4>2. withdrawals[<<a, t>>] = 0 \/ deposits[<<b, t>>] = 0
                BY <1>3, <4>1, Zenon DEF MatcherInv
            <4>3. <<a, t>> \in Holdings /\ <<b, t>> \in Holdings
                BY Zenon DEF Holdings
            <4>4. \A h \in Holdings : /\ deposits[h] = 0 => deposits'[h] = 0
                                      /\ withdrawals[h] = 0 => withdrawals'[h] = 0
                BY <2>0, Zenon
            <4> QED
                BY <4>2, <4>3, <4>4, Zenon
        <3> QED
            BY <3>1, <3>2, Zenon
    <2> QED
        BY <1>2, <2>1, <2>2, <2>3, Zenon DEF MatcherInv
<1>15. BooksInv'
    <2>1. ASSUME NEW a \in Accounts, NEW t \in Tokens
          PROVE  balances'[<<a, t>>] = before'[<<a, t>>] + outside'[<<a, t>>]
                                        + deposits'[<<a, t>>] - withdrawals'[<<a, t>>]
                                        + Received(a, t)' - Sent(a, t)'
        <3> DEFINE g == <<a, t>>
        <3>1. g \in Holdings /\ (g = <<s, u>> <=> a = s /\ t = u)
              /\ (g = <<r, u>> <=> a = r /\ t = u)
            BY Zenon DEF Holdings
        <3>2. balances[g] = before[g] + outside[g] + deposits[g] - withdrawals[g]
                             + Received(a, t) - Sent(a, t)
            BY <1>2, <1>3, Zenon DEF BooksInv, TransfersExplainBalances
        <3>3. /\ Received(a, t) \in Int /\ Sent(a, t) \in Int
              /\ Received(a, t)' = Received(a, t) + (IF a = r /\ t = u THEN amount ELSE 0)
              /\ Sent(a, t)' = Sent(a, t) + (IF a = s /\ t = u THEN amount ELSE 0)
            <4>1. Transferred(s, r, u, amount)
                BY <1>1, Zenon DEF Transferred
            <4> QED
                BY <1>3, <1>5, <4>1, TransferCounted
        <3> HIDE DEF g
        <3>4. /\ balances[g] \in Int /\ before[g] \in Int /\ outside[g] \in Int
              /\ deposits[g] \in Int /\ withdrawals[g] \in Int
            BY <1>4, <3>1, Zenon
        <3>5. /\ deposits'[g] = IF g = <<r, u>> THEN deposits[g] - amount ELSE deposits[g]
              /\ withdrawals'[g] = IF g = <<s, u>> THEN withdrawals[g] - amount
                                                   ELSE withdrawals[g]
            BY <1>1, <1>4, <3>1, Zenon
        <3>6. /\ deposits'[g] = deposits[g] - (IF a = r /\ t = u THEN amount ELSE 0)
              /\ withdrawals'[g] = withdrawals[g] - (IF a = s /\ t = u THEN amount ELSE 0)
            <4>1. deposits[g] = deposits[g] - 0 /\ withdrawals[g] = withdrawals[g] - 0
                BY <3>4, MinusNothing, Zenon
            <4> QED
                BY <3>1, <3>5, <4>1, Zenon
        <3>7. balances'[g] = before'[g] + outside'[g] + deposits'[g] - withdrawals'[g]
                              + Received(a, t)' - Sent(a, t)'
            BY <1>2, <1>5, <3>2, <3>3, <3>4, <3>6
        <3> QED
            BY <3>7, Zenon DEF g
    <2>2. ASSUME NEW t \in Tokens
          PROVE  TotalsExplained(t)'
        <3>1. TotalsExplained(t)
            BY <1>2, <1>3, Zenon DEF BooksInv
        <3>2. /\ Total(before, t) \in Int /\ Total(outside, t) \in Int
              /\ Total(deposits, t) \in Int /\ Total(withdrawals, t) \in Int
            BY <1>4, TotalType, Zenon
        <3>3. Total(deposits, t)' = Total(deposits, t) - (IF t = u THEN amount ELSE 0)
            <4>1. /\ deposits' \in [Holdings -> Int]
                  /\ Elsewhere(deposits, deposits', <<r, u>>)
                  /\ deposits'[<<r, u>>] = deposits[<<r, u>>] - amount
                  /\ deposits[<<r, u>>] \in Int
                BY <1>1, <1>4, <1>5 DEF Elsewhere
            <4>2. Total(deposits, t)' = Total(deposits, t)
                     + (IF t = u THEN deposits'[<<r, u>>] - deposits[<<r, u>>] ELSE 0)
                BY <1>4, <4>1, TotalUpdate
            <4> QED
                BY <1>5, <3>2, <4>1, <4>2
        <3>4. Total(withdrawals, t)' = Total(withdrawals, t) - (IF t = u THEN amount ELSE 0)
            <4>1. /\ withdrawals' \in [Holdings -> Int]
                  /\ Elsewhere(withdrawals, withdrawals', <<s, u>>)
                  /\ withdrawals'[<<s, u>>] = withdrawals[<<s, u>>] - amount
                  /\ withdrawals[<<s, u>>] \in Int
                BY <1>1, <1>4, <1>5 DEF Elsewhere
            <4>2. Total(withdrawals, t)' = Total(withdrawals, t)
                     + (IF t = u THEN withdrawals'[<<s, u>>] - withdrawals[<<s, u>>] ELSE 0)
                BY <1>4, <4>1, TotalUpdate
            <4> QED
                BY <1>5, <3>2, <4>1, <4>2
        <3>5. /\ Total(balances, t)' = Total(balances, t) /\ Total(before, t)' = Total(before, t)
              /\ Total(outside, t)' = Total(outside, t)
            BY <1>2, Zenon
        <3> QED
            BY <1>5, <3>1, <3>2, <3>3, <3>4, <3>5 DEF TotalsExplained
    <2> QED
        BY <2>1, <2>2, Zenon DEF BooksInv, TransfersExplainBalances
<1>16. ClosureInv'
    BY <1>2, <1>3, Zenon DEF ClosureInv
<1> QED
    BY <1>13, <1>14, <1>15, <1>16, Zenon DEF IInv

---------------------------------------------------------------------------
(* The theorems. *)

\* Every step of a batch keeps the invariant.
LEMMA NextKeepsIInv == IInv /\ [Next]_vars => IInv'
<1> SUFFICES ASSUME IInv, [Next]_vars PROVE IInv'
    BY Zenon
<1>1. CASE \E a, b \in Accounts, t \in Tokens, amount \in Moves : Transfer(a, b, t, amount)
    BY <1>1, IntentsKeepIInv, Zenon
<1>2. CASE \E a \in Accounts, t \in Tokens, delta \in Deltas : TokenDiff(a, t, delta)
    BY <1>2, IntentsKeepIInv, Zenon
<1>3. CASE \E a \in Accounts, t \in Tokens : Close(a, t)
    BY <1>3, IntentsKeepIInv, Zenon
<1>4. CASE \E a \in Accounts, t \in Tokens, amount \in Moves :
              Withdraw(a, t, amount) \/ Mint(a, t, amount)
    BY <1>4, IntentsKeepIInv, Zenon
<1>5. CASE Step
    BY <1>5, StepKeepsIInv, Zenon
<1>6. CASE StepFails
    BY <1>6, RolledBackKeepsIInv, Zenon DEF StepFails
<1>7. CASE Finalize
    BY <1>7, FinalizeKeepsIInv, Zenon
<1>8. CASE \E t \in Tokens : Match(t)
    BY <1>8, MatchKeepsIInv, Zenon
<1>9. CASE Settle
    BY <1>9, SettleKeepsIInv, Zenon
<1>10. CASE SettleFails
    BY <1>10, RolledBackKeepsIInv, Zenon DEF SettleFails
<1>11. CASE UNCHANGED vars
    <2>1. /\ UNCHANGED <<phase, balances, deposits, withdrawals, todo, sender, receiver>>
          /\ UNCHANGED <<transfers, before, outside, net, closed, intents>>
        BY <1>11, Zenon DEF vars
    <2>2. TypeInv'
        BY <2>1, Zenon DEF IInv, TypeInv
    <2>3. MatcherInv'
        BY <2>1, Zenon DEF IInv, MatcherInv, PartyOK
    <2>4. BooksInv'
        BY <2>1, Zenon DEF IInv, BooksInv, TransfersExplainBalances, Received, Sent,
                           TotalsExplained, Total, Column
    <2>5. ClosureInv'
        BY <2>1 DEF IInv, ClosureInv, Owing, Total, Column
    <2> QED
        BY <2>2, <2>3, <2>4, <2>5, Zenon DEF IInv
<1> QED
    BY <1>1, <1>2, <1>3, <1>4, <1>5, <1>6, <1>7, <1>8, <1>9, <1>10, <1>11, Zenon DEF Next

\* The inductive invariant holds of every batch.
THEOREM Invariance == Spec => []IInv
BY InitIInv, NextKeepsIInv, PTL DEF Spec

\* Balances, deltas and transfers fit in their widths, and the party that the matcher
\* is at has something left to send or to receive.
THEOREM TypeCorrect == Spec => []TypeOK
<1>1. IInv => TypeOK
    BY Zenon DEF IInv, TypeInv, MatcherInv, PartyOK, TypeOK
<1> QED
    BY <1>1, Invariance, PTL

\* Each balance is the one before the batch, with what was minted and withdrawn, what
\* the deltas still hold, and the transfers that the event log reports: for any number
\* of accounts, tokens and intents.
THEOREM TransfersExplain == Spec => []TransfersExplainBalances
<1>1. IInv => TransfersExplainBalances
    BY Zenon DEF IInv, BooksInv
<1> QED
    BY <1>1, Invariance, PTL

\* The matcher is done: what is left is left on one side.
LEMMA MatchedTotals ==
    ASSUME IInv, phase = "matching", NEW t \in Tokens, sender[t] = None \/ receiver[t] = None
    PROVE  Total(deposits, t) = Total(withdrawals, t) <=> sender[t] = None /\ receiver[t] = None
<1>1. deposits \in [Holdings -> Nat] /\ withdrawals \in [Holdings -> Nat]
    BY AmountTypes, Zenon DEF IInv
<1>2. PartyOK(sender, withdrawals, t) /\ PartyOK(receiver, deposits, t)
    BY Zenon DEF IInv, MatcherInv
<1>3. sender[t] = None => Total(withdrawals, t) = 0
    BY <1>1, <1>2, TotalOfAmounts, Zenon DEF PartyOK
<1>4. receiver[t] = None => Total(deposits, t) = 0
    BY <1>1, <1>2, TotalOfAmounts, Zenon DEF PartyOK
<1>5. Total(deposits, t) \in Int /\ Total(withdrawals, t) \in Int
    BY TotalType, AmountTypes, Zenon DEF IInv
<1>6. ASSUME sender[t] # None PROVE Total(withdrawals, t) > 0
    <2>1. sender[t] \in Accounts /\ withdrawals[<<sender[t], t>>] > 0
        BY <1>2, <1>6, Zenon DEF PartyOK, IInv, TypeInv
    <2>2. withdrawals[<<sender[t], t>>] <= Total(withdrawals, t)
        BY <1>1, <2>1, TotalOfAmounts, Zenon
    <2>3. withdrawals[<<sender[t], t>>] \in Nat
        BY <1>1, <2>1, Zenon DEF Holdings
    <2> QED
        BY <1>5, <2>1, <2>2, <2>3
<1>7. ASSUME receiver[t] # None PROVE Total(deposits, t) > 0
    <2>1. receiver[t] \in Accounts /\ deposits[<<receiver[t], t>>] > 0
        BY <1>2, <1>7, Zenon DEF PartyOK, IInv, TypeInv
    <2>2. deposits[<<receiver[t], t>>] <= Total(deposits, t)
        BY <1>1, <2>1, TotalOfAmounts, Zenon
    <2>3. deposits[<<receiver[t], t>>] \in Nat
        BY <1>1, <2>1, Zenon DEF Holdings
    <2> QED
        BY <1>5, <2>1, <2>2, <2>3
<1> QED
    BY <1>3, <1>4, <1>5, <1>6, <1>7

\* The same, of the balances.
LEMMA BalancedTotals ==
    ASSUME IInv, phase = "matching", Matched
    PROVE  (\A t \in Tokens : sender[t] = None /\ receiver[t] = None) <=>
           (\A t \in Tokens : Total(balances, t) = Total(before, t) + Total(outside, t))
<1>1. ASSUME NEW t \in Tokens
      PROVE  Total(balances, t) = Total(before, t) + Total(outside, t) <=>
             sender[t] = None /\ receiver[t] = None
    <2>1. TotalsExplained(t)
        BY Zenon DEF IInv, BooksInv
    <2>2. /\ Total(before, t) \in Int /\ Total(outside, t) \in Int
          /\ Total(deposits, t) \in Int /\ Total(withdrawals, t) \in Int
        BY TotalType, AmountTypes, Zenon DEF IInv
    <2>3. Total(deposits, t) = Total(withdrawals, t) <=> sender[t] = None /\ receiver[t] = None
        BY MatchedTotals, Zenon DEF Matched
    <2> QED
        BY <2>1, <2>2, <2>3 DEF TotalsExplained
<1> QED
    BY <1>1, Zenon

\* Which steps end the matching, and how.
LEMMA MatchingEnds ==
    ASSUME IInv, [Next]_vars, phase = "matching", phase' # "matching"
    PROVE  /\ Matched
           /\ phase' = "settled" <=> \A t \in Tokens : sender[t] = None /\ receiver[t] = None
<1>1. Settle \/ SettleFails
    <2>1. ASSUME NEW changes, Execute(changes) PROVE FALSE
        BY <2>1, Zenon DEF Execute
    <2> QED
        BY <2>1, Zenon
           DEF Next, Transfer, TokenDiff, Close, Withdraw, Mint, Step, StepFails, Finalize,
                    Match, vars
<1>2. CASE Settle
    BY <1>2, Zenon DEF Settle
<1>3. CASE SettleFails
    <2>1. phase' \in {"overflow", "unmatched"}
        BY <1>3, Zenon DEF SettleFails, RolledBack
    <2> QED
        BY <1>3, <2>1, Zenon DEF SettleFails
<1> QED
    BY <1>1, <1>2, <1>3, Zenon

\* A batch settles exactly when it creates and loses no token, whatever the order in
\* which the matcher took the accounts; every round of the matcher is the only one of
\* its sender, receiver and token; and the closure of a set of diffs balances it.
THEOREM BatchesDoSettle == Spec => BatchesSettle
<1>1. IInv /\ [Next]_vars =>
         [phase = "matching" /\ phase' # "matching" =>
            (phase' = "settled" <=>
                \A t \in Tokens : Total(balances, t) = Total(before, t) + Total(outside, t))]_vars
    <2> SUFFICES ASSUME IInv, [Next]_vars, phase = "matching", phase' # "matching"
                 PROVE  phase' = "settled" <=>
                          \A t \in Tokens :
                             Total(balances, t) = Total(before, t) + Total(outside, t)
        BY Zenon
    <2> QED
        BY MatchingEnds, BalancedTotals, Zenon
<1>2. IInv /\ [Next]_vars =>
         [\A t \in Tokens :
             Match(t) =>
                sender[t] # receiver[t] /\ transfers[<<sender[t], receiver[t], t>>] = 0]_vars
    <2> SUFFICES ASSUME IInv, NEW t \in Tokens, Match(t)
                 PROVE  sender[t] # receiver[t] /\ transfers[<<sender[t], receiver[t], t>>] = 0
        BY Zenon
    <2> QED
        BY MatchFacts, Zenon
<1>3. IInv => ClosureSettles
    <2> SUFFICES ASSUME IInv, phase = "executing", todo = <<>>, NEW t \in closed
                 PROVE  Total(deposits, t) = Total(withdrawals, t)
        BY Zenon DEF ClosureSettles
    <2>1. t \in Tokens /\ net[t] = 0
        BY Zenon DEF IInv, TypeInv, ClosureInv
    <2>2. Total(deposits, t) \in Int /\ Total(withdrawals, t) \in Int
        BY <2>1, TotalType, AmountTypes, Zenon DEF IInv
    <2>3. Owing(1, t) = 0 /\ Owing(2, t) = 0
        BY DEF Owing
    <2> QED
        BY <2>1, <2>2, <2>3 DEF IInv, ClosureInv
<1> QED
    BY <1>1, <1>2, <1>3, Invariance, PTL
    DEF Spec, BatchesSettle, SettledIffBalanced, OneTransferEach

=============================================================================
