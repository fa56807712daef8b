--------------------------- MODULE PoaTokenProofs ---------------------------
(***************************************************************************)
(* The tokens of the PoA bridge are backed and its deposits do not mix,    *)
(* for any number of tokens, accounts and calls under way; and the name of *)
(* a token whose deployment failed is never used again.                    *)
(*                                                                         *)
(* That deposits do not mix is inductive only together with what the calls *)
(* under way look like: who is credited, who pays, and that nobody sends   *)
(* to itself.                                                              *)
(***************************************************************************)
EXTENDS PoaToken, Sums

(* The smaller of two numbers.                                             *)
LEMMA MinOfTwo ==
    ASSUME NEW a \in Nat, NEW b \in Nat
    PROVE  Min({a, b}) \in Nat /\ Min({a, b}) <= a /\ Min({a, b}) <= b
<1>1. \E x \in {a, b} : \A y \in {a, b} : x <= y
    OBVIOUS
<1>2. Min({a, b}) \in {a, b} /\ \A y \in {a, b} : Min({a, b}) <= y
    BY <1>1, Zenon DEF Min
<1> QED
    BY <1>2, Zenon

(* The PoA factory and its tokens: the types of what is under way.         *)
PoaCalls == [step : {"create", "set_metadata"}, name : Names, metadata : Metadata]
PoaDeposits ==
    [step : {"deposit"}, name : Names, to : Holders, amount : Nat, deliver : SUBSET Users]
PoaTransfers ==
    [step : {"transfer_call", "on_transfer", "resolve"}, name : Names,
     from : Holders, to : Holders, amount : Nat]
PoaJobs == {NoJob} \cup PoaCalls \cup PoaDeposits \cup PoaTransfers

(* A deposit is credited to the factory exactly if it is to be sent on, to *)
(* a user; nobody transfers to itself.                                     *)
PoaJobOK(job) ==
    /\ job.step = "deposit" => (job.to = factory <=> job.deliver # {})
    /\ job.step = "transfer_call" => job.from = factory
    /\ job.step \in {"transfer_call", "on_transfer", "resolve"} => job.from # job.to

PoaTypeInv ==
    /\ registered \in [Names -> SUBSET Holders]
    /\ balances \in [Names -> [Holders -> Nat]]
    /\ supply \in [Names -> Nat]
    /\ bridged \in [Names -> Nat]
    /\ dropped \in [Names -> Nat]
    /\ mint_failed \in [Names -> BOOLEAN]
    /\ jobs \in [Jobs -> PoaJobs]
    /\ \A j \in Jobs : PoaJobOK(jobs[j])

PoaInv == PoaTypeInv /\ SupplyIsBacked /\ DepositsDoNotMix

(* The jobs that are not none have the fields that their step says.        *)
LEMMA PoaJobFields ==
    ASSUME NEW job \in PoaJobs
    PROVE  /\ job = NoJob <=> job.step = "none"
           /\ job.step \in {"create", "set_metadata"} => job \in PoaCalls
           /\ job.step = "deposit" => job \in PoaDeposits
           /\ job.step \in {"transfer_call", "on_transfer", "resolve"} => job \in PoaTransfers
BY DEF PoaJobs, NoJob, PoaCalls, PoaDeposits, PoaTransfers

(* What a job has drawn on the factory for the name n is an amount.        *)
LEMMA PoaPaidType ==
    ASSUME NEW job \in PoaJobs, NEW n
    PROVE  PaidByFactory(job, n) \in Nat
<1>1. job.step \in {"transfer_call", "on_transfer", "resolve"} => job.amount \in Nat
    BY PoaJobFields, Zenon DEF PoaTransfers
<1> QED
    BY <1>1, Zenon DEF PaidByFactory

(* One job changes what has to be paid by what it pays itself.             *)
LEMMA PoaPaidChange ==
    ASSUME PoaTypeInv, NEW j \in Jobs, NEW job \in PoaJobs, Goto(j, job), NEW n \in Names
    PROVE  /\ SumOf(PaidByJobs(n), Jobs) \in Int
           /\ SumOf(PaidByJobs(n), Jobs)'
                = SumOf(PaidByJobs(n), Jobs) - PaidByFactory(jobs[j], n) + PaidByFactory(job, n)
<1> DEFINE f == PaidByJobs(n)
           g == PaidByJobs(n)'
<1>1. jobs \in [Jobs -> PoaJobs] /\ jobs' = [jobs EXCEPT ![j] = job]
    BY Zenon DEF PoaTypeInv, Goto
<1>2. jobs' \in [Jobs -> PoaJobs] /\ jobs'[j] = job /\ \A k \in Jobs \ {j} : jobs'[k] = jobs[k]
    BY <1>1, Zenon
<1>3. /\ f = [k \in Jobs |-> PaidByFactory(jobs[k], n)]
      /\ g = [k \in Jobs |-> PaidByFactory(jobs'[k], n)]
    BY Zenon DEF PaidByJobs, PaidByFactory
<1>4. /\ f \in [Jobs -> Int] /\ f[j] = PaidByFactory(jobs[j], n)
      /\ g \in [Jobs -> Int] /\ g[j] = PaidByFactory(job, n)
      /\ \A k \in Jobs \ {j} : g[k] = f[k]
    <2> HIDE DEF f, g
    <2>1. \A k \in Jobs : PaidByFactory(jobs[k], n) \in Int /\ PaidByFactory(jobs'[k], n) \in Int
        BY <1>1, <1>2, PoaPaidType
    <2> QED
        BY <1>2, <1>3, <2>1, Zenon
<1> HIDE DEF f, g
<1>5. SumOf(f, Jobs) \in Int /\ SumOf(g, Jobs) = SumOf(f, Jobs) - f[j] + g[j]
    BY <1>4, SumChange, PoaAssumption
<1> QED
    BY <1>4, <1>5, Zenon DEF f, g

(* The sum of what the jobs have drawn is defined, and changes only when a *)
(* job does.                                                               *)
LEMMA PoaPaidSame ==
    ASSUME PoaTypeInv, NEW n \in Names
    PROVE  /\ SumOf(PaidByJobs(n), Jobs) \in Int
           /\ jobs' = jobs => SumOf(PaidByJobs(n), Jobs)' = SumOf(PaidByJobs(n), Jobs)
<1> DEFINE f == PaidByJobs(n)
<1>1. f = [k \in Jobs |-> PaidByFactory(jobs[k], n)]
    BY Zenon DEF PaidByJobs
<1>2. f \in [Jobs -> Int]
    <2> HIDE DEF f
    <2>1. \A k \in Jobs : PaidByFactory(jobs[k], n) \in Int
        BY PoaPaidType DEF PoaTypeInv
    <2> QED
        BY <1>1, <2>1, Zenon
<1>3. SumOf(f, Jobs) \in Int
    <2> HIDE DEF f
    <2>1. CASE Jobs = {}
        <3>1. f \in [Jobs -> Nat] /\ \A k \in Jobs : f[k] = 0
            BY <1>2, <2>1, Zenon
        <3> QED
            BY <3>1, SumOfZeros, PoaAssumption DEF SumsTo
    <2>2. CASE Jobs # {}
        BY <1>2, <2>2, SumChange, PoaAssumption, Zenon
    <2> QED
        BY <2>1, <2>2, Zenon
<1>4. jobs' = jobs => PaidByJobs(n)' = PaidByJobs(n)
    BY Zenon DEF PaidByJobs, PaidByFactory
<1> QED
    BY <1>3, <1>4, Zenon

(* Changing one balance changes the sum by that.                           *)
LEMMA PoaSumOfOne ==
    ASSUME NEW f \in [Holders -> Nat], NEW g \in [Holders -> Nat], NEW x \in Holders,
           \A y \in Holders \ {x} : g[y] = f[y]
    PROVE  /\ SumOf(f, Holders) \in Nat /\ f[x] <= SumOf(f, Holders)
           /\ SumOf(g, Holders) = SumOf(f, Holders) - f[x] + g[x]
<1>1. f \in [Holders -> Int] /\ g \in [Holders -> Int]
    OBVIOUS
<1>2. SumOf(f, Holders) \in Int /\ SumOf(g, Holders) = SumOf(f, Holders) - f[x] + g[x]
    BY <1>1, SumChange, PoaAssumption
<1>3. f[x] <= SumOf(f, Holders) /\ f[x] \in Nat
    BY TermAtMostSum, PoaAssumption, Zenon
<1> QED
    BY <1>2, <1>3

(* A transfer between two holders keeps the total of every token, and      *)
(* changes the factory's balance only when the factory is one of the two.  *)
LEMMA PoaMove ==
    ASSUME PoaTypeInv, NEW n \in Names, NEW from \in Holders, NEW to \in Holders, from # to,
           NEW amount \in Nat, amount <= balances[n][from],
           balances' = Move(balances, n, from, to, amount)
    PROVE  /\ balances' \in [Names -> [Holders -> Nat]]
           /\ \A m \in Names : SumOf(balances'[m], Holders) = SumOf(balances[m], Holders)
           /\ \A m \in Names :
                balances'[m][factory] =
                   balances[m][factory] + (IF m # n THEN 0
                                           ELSE IF factory = from THEN -amount
                                           ELSE IF factory = to THEN amount ELSE 0)
<1> DEFINE f == balances[n]
           g == [f EXCEPT ![from] = @ - amount]
           h == [f EXCEPT ![from] = @ - amount, ![to] = @ + amount]
<1>1. f \in [Holders -> Nat] /\ f[from] - amount \in Nat
    BY DEF PoaTypeInv
<1>2. balances' = [balances EXCEPT ![n] = h]
    BY Zenon DEF Move, PoaTypeInv
<1>3. /\ g \in [Holders -> Nat] /\ h \in [Holders -> Nat]
      /\ g[from] = f[from] - amount /\ g[to] = f[to]
      /\ h[to] = f[to] + amount
      /\ f[from] \in Nat /\ f[to] \in Nat
      /\ \A y \in Holders \ {from} : g[y] = f[y]
      /\ \A y \in Holders \ {to} : h[y] = g[y]
    BY <1>1
<1>7. SumOf(h, Holders) = SumOf(f, Holders)
    <2> HIDE DEF f, g, h
    <2>1. SumOf(f, Holders) \in Nat /\ SumOf(g, Holders) = SumOf(f, Holders) - f[from] + g[from]
        BY <1>1, <1>3, PoaSumOfOne, Zenon
    <2>2. SumOf(h, Holders) = SumOf(g, Holders) - g[to] + h[to]
        BY <1>3, PoaSumOfOne, Zenon
    <2> QED
        BY <1>3, <2>1, <2>2
<1>8. h[factory] = f[factory] + (IF factory = from THEN -amount
                                 ELSE IF factory = to THEN amount ELSE 0)
    BY <1>1, PoaAssumption
<1>9. balances \in [Names -> [Holders -> Nat]]
    BY Zenon DEF PoaTypeInv
<1>10. \A m \in Names : balances[m][factory] \in Nat
    BY <1>9, PoaAssumption, Zenon
<1> HIDE DEF h
<1> QED
    BY <1>2, <1>3, <1>7, <1>8, <1>9, <1>10

(* A job that goes on to a legal one leaves all jobs legal.                *)
LEMMA PoaJobsType ==
    ASSUME PoaTypeInv, NEW j \in Jobs, NEW job \in PoaJobs, PoaJobOK(job), Goto(j, job)
    PROVE  jobs' \in [Jobs -> PoaJobs] /\ \A k \in Jobs : PoaJobOK(jobs'[k])
<1>1. /\ jobs' \in [Jobs -> PoaJobs]
      /\ \A k \in Jobs : jobs'[k] = IF k = j THEN job ELSE jobs[k]
    BY Zenon DEF PoaTypeInv, Goto
<1>2. \A k \in Jobs : PoaJobOK(jobs[k])
    BY Zenon DEF PoaTypeInv
<1> QED
    BY <1>1, <1>2, Zenon

(* The invariant holds before any token is deployed.                       *)
LEMMA PoaInitInv == PoaInit => PoaInv
<1> SUFFICES ASSUME PoaInit PROVE PoaInv
    BY Zenon
<1>1. PoaTypeInv
    <2>1. NoJob \in PoaJobs /\ PoaJobOK(NoJob)
        BY Zenon DEF PoaJobs, PoaJobOK, NoJob
    <2> QED
        BY <2>1, Zenon DEF PoaInit, PoaTypeInv
<1>2. ASSUME NEW n \in Names PROVE SumOf(balances[n], Holders) = 0
    <2>1. balances[n] \in [Holders -> Nat] /\ \A a \in Holders : balances[n][a] = 0
        BY Zenon DEF PoaInit
    <2> QED
        BY <2>1, SumOfZeros, PoaAssumption, Zenon DEF SumsTo
<1>3. ASSUME NEW n \in Names PROVE SumOf(PaidByJobs(n), Jobs) = 0
    <2> DEFINE f == PaidByJobs(n)
    <2>1. \A j \in Jobs : PaidByFactory(jobs[j], n) = 0
        BY Zenon DEF PoaInit, PaidByFactory
    <2>2. f \in [Jobs -> Nat] /\ \A j \in Jobs : f[j] = 0
        BY <2>1 DEF PaidByJobs
    <2> HIDE DEF f
    <2>3. SumOf(f, Jobs) = 0
        BY <2>2, SumOfZeros, PoaAssumption, Zenon DEF SumsTo
    <2> QED
        BY <2>3, Zenon DEF f
<1>4. SupplyIsBacked
    BY <1>2 DEF SupplyIsBacked, PoaInit
<1>5. DepositsDoNotMix
    BY <1>3, PoaAssumption DEF DepositsDoNotMix, PoaInit
<1> QED
    BY <1>1, <1>4, <1>5, Zenon DEF PoaInv

(* A step of a job that moves no tokens, and has less to pay afterwards    *)
(* unless a deposit failed.                                                *)
LEMMA PoaQuietStep ==
    ASSUME PoaInv, NEW j \in Jobs, NEW job \in PoaJobs, PoaJobOK(job), Goto(j, job),
           UNCHANGED <<balances, supply, bridged, dropped, registered>>,
           mint_failed' \in [Names -> BOOLEAN],
           \A n \in Names : ~ mint_failed'[n] =>
               ~ mint_failed[n] /\ PaidByFactory(job, n) <= PaidByFactory(jobs[j], n)
    PROVE  PoaInv'
<1>1. PoaTypeInv'
    <2>1. jobs' \in [Jobs -> PoaJobs] /\ \A k \in Jobs : PoaJobOK(jobs'[k])
        BY PoaJobsType, Zenon DEF PoaInv
    <2>2. \A k \in Jobs : PoaJobOK(jobs[k])'
        BY <2>1, Zenon DEF PoaJobOK
    <2> QED
        BY <2>1, <2>2, Zenon DEF PoaInv, PoaTypeInv
<1>2. SupplyIsBacked'
    BY Zenon DEF PoaInv, SupplyIsBacked
<1>3. ASSUME NEW n \in Names, ~ mint_failed'[n]
      PROVE  balances'[n][factory] >= SumOf(PaidByJobs(n), Jobs)'
    <2>1. /\ SumOf(PaidByJobs(n), Jobs) \in Int
          /\ SumOf(PaidByJobs(n), Jobs)'
                = SumOf(PaidByJobs(n), Jobs) - PaidByFactory(jobs[j], n) + PaidByFactory(job, n)
        BY PoaPaidChange, Zenon DEF PoaInv
    <2>2. balances[n][factory] >= SumOf(PaidByJobs(n), Jobs)
        BY <1>3, Zenon DEF PoaInv, DepositsDoNotMix
    <2>3. PaidByFactory(job, n) \in Nat /\ PaidByFactory(jobs[j], n) \in Nat
        BY PoaPaidType, Zenon DEF PoaInv, PoaTypeInv
    <2>4. balances[n][factory] \in Nat
        BY PoaAssumption, Zenon DEF PoaInv, PoaTypeInv
    <2> QED
        BY <1>3, <2>1, <2>2, <2>3, <2>4
<1>4. DepositsDoNotMix'
    BY <1>3, Zenon DEF DepositsDoNotMix
<1> QED
    BY <1>1, <1>2, <1>4, Zenon DEF PoaInv

(* A job that pays nothing.                                                *)
LEMMA PoaPaysNothing ==
    ASSUME NEW job \in PoaJobs, NEW n,
           job.step \in {"none", "create", "set_metadata", "deposit"}
    PROVE  PaidByFactory(job, n) = 0
BY Zenon DEF PaidByFactory

(* A factory call that is accepted, and has not reached a token yet, keeps *)
(* the invariant.                                                          *)
LEMMA PoaStarts ==
    ASSUME PoaInv, NEW job \in PoaJobs, PoaJobOK(job), Start(job),
           job.step \in {"create", "set_metadata", "deposit"},
           UNCHANGED <<balances, supply, bridged, dropped, registered, mint_failed>>
    PROVE  PoaInv'
<1>1. PICK j \in Jobs : jobs[j] = NoJob /\ Goto(j, job)
    BY Zenon DEF Start
<1>2. NoJob \in PoaJobs /\ NoJob.step = "none"
    BY Zenon DEF PoaJobs, NoJob
<1>3. \A n \in Names : PaidByFactory(job, n) = 0 /\ PaidByFactory(jobs[j], n) = 0
    BY <1>1, <1>2, PoaPaysNothing
<1>4. mint_failed' \in [Names -> BOOLEAN] /\ mint_failed' = mint_failed
    BY Zenon DEF PoaInv, PoaTypeInv
<1>5. \A n \in Names : PaidByFactory(job, n) <= PaidByFactory(jobs[j], n)
    BY <1>3
<1> QED
    BY <1>1, <1>4, <1>5, PoaQuietStep, Zenon

(* What comes after a deposit, done or failed.                             *)
LEMMA PoaAfterDeposit ==
    ASSUME NEW job \in PoaDeposits, PoaJobOK(job)
    PROVE  /\ AfterDeposit(job) \in PoaJobs /\ PoaJobOK(AfterDeposit(job))
           /\ \A n \in Names : PaidByFactory(AfterDeposit(job), n) =
                 IF n = job.name /\ job.to = factory THEN job.amount ELSE 0
<1>1. /\ job.step = "deposit" /\ job.name \in Names /\ job.amount \in Nat
      /\ job.deliver \subseteq Users /\ (job.to = factory <=> job.deliver # {})
    BY Zenon DEF PoaDeposits, PoaJobOK
<1>2. CASE job.deliver = {}
    <2>1. AfterDeposit(job) = NoJob
        BY <1>2, Zenon DEF AfterDeposit
    <2>2. NoJob \in PoaJobs /\ PoaJobOK(NoJob) /\ \A n : PaidByFactory(NoJob, n) = 0
        BY Zenon DEF PoaJobs, PoaJobOK, NoJob, PaidByFactory
    <2> QED
        BY <1>1, <1>2, <2>1, <2>2, Zenon
<1>3. CASE job.deliver # {}
    <2> DEFINE owner == CHOOSE o \in job.deliver : TRUE
    <2>1. owner \in Users
        BY <1>1, <1>3, Zenon
    <2> HIDE DEF owner
    <2>2. AfterDeposit(job) = Transfer("transfer_call", job.name, factory, owner, job.amount)
        BY <1>3, Zenon DEF AfterDeposit, owner
    <2> DEFINE next == Transfer("transfer_call", job.name, factory, owner, job.amount)
    <2>3. /\ next \in PoaTransfers /\ next.step = "transfer_call" /\ next.from = factory
          /\ next.to # factory /\ next.name = job.name /\ next.amount = job.amount
        BY <1>1, <2>1, PoaAssumption, Zenon DEF Transfer, PoaTransfers, Users
    <2>4. next # NoJob
        BY <2>3 DEF NoJob
    <2> HIDE DEF next
    <2> QED
        BY <1>1, <1>3, <2>2, <2>3, <2>4, Zenon DEF next, PoaJobs, PoaJobOK, PaidByFactory
<1> QED
    BY <1>2, <1>3, Zenon

(* Whatever moves tokens: supply and events count it, and the factory's    *)
(* balance changes at least as much as what has to be paid out of it.      *)
LEMMA PoaTokensMove ==
    ASSUME PoaInv, PoaTypeInv', mint_failed' = mint_failed,
           \A n \in Names :
               /\ supply'[n] = SumOf(balances'[n], Holders)
               /\ supply'[n] + dropped'[n] = bridged'[n],
           \A n \in Names :
               balances'[n][factory] - balances[n][factory] >=
                   SumOf(PaidByJobs(n), Jobs)' - SumOf(PaidByJobs(n), Jobs),
           \A n \in Names : SumOf(PaidByJobs(n), Jobs)' \in Int
    PROVE  PoaInv'
<1>1. SupplyIsBacked'
    BY Zenon DEF SupplyIsBacked
<1>2. ASSUME NEW n \in Names, ~ mint_failed'[n]
      PROVE  balances'[n][factory] >= SumOf(PaidByJobs(n), Jobs)'
    <2>1. balances[n][factory] >= SumOf(PaidByJobs(n), Jobs)
        BY <1>2, Zenon DEF PoaInv, DepositsDoNotMix
    <2>2. /\ balances[n][factory] \in Nat /\ balances'[n][factory] \in Nat
          /\ SumOf(PaidByJobs(n), Jobs) \in Int
        BY PoaPaidSame, PoaAssumption DEF PoaInv, PoaTypeInv
    <2>3. /\ balances'[n][factory] - balances[n][factory] >=
                   SumOf(PaidByJobs(n), Jobs)' - SumOf(PaidByJobs(n), Jobs)
          /\ SumOf(PaidByJobs(n), Jobs)' \in Int
        BY Zenon
    <2> QED
        BY <2>1, <2>2, <2>3
<1>3. DepositsDoNotMix'
    BY <1>2, Zenon DEF DepositsDoNotMix
<1> QED
    BY <1>1, <1>3, Zenon DEF PoaInv

(* What every change of one balance leaves of the invariant.               *)
PoaCounted(n, a, v) ==
    /\ balances' \in [Names -> [Holders -> Nat]]
    /\ supply' \in [Names -> Nat] /\ bridged' \in [Names -> Nat]
    /\ dropped' \in [Names -> Nat]
    /\ \A m \in Names : /\ supply'[m] = SumOf(balances'[m], Holders)
                        /\ supply'[m] + dropped'[m] = bridged'[m]
    /\ \A m \in Names : balances'[m][factory] - balances[m][factory] =
                            IF m = n /\ a = factory THEN v - balances[n][a] ELSE 0

(* One balance of a token changes; the supply and the events, or the       *)
(* record of what was given up, with it.                                   *)
LEMMA PoaOneBalance ==
    ASSUME PoaTypeInv, SupplyIsBacked, NEW n \in Names, NEW a \in Holders, NEW v \in Nat,
           balances' = [balances EXCEPT ![n][a] = v],
           supply' = [supply EXCEPT ![n] = @ + (v - balances[n][a])],
           \/ /\ bridged' = [bridged EXCEPT ![n] = @ + (v - balances[n][a])]
              /\ dropped' = dropped
           \/ /\ bridged' = bridged
              /\ dropped' = [dropped EXCEPT ![n] = @ - (v - balances[n][a])]
              /\ v = 0
    PROVE  PoaCounted(n, a, v)
<1> DEFINE f == balances[n]
           g == [f EXCEPT ![a] = v]
           d == v - balances[n][a]
<1>1. /\ balances \in [Names -> [Holders -> Nat]]
      /\ supply \in [Names -> Nat] /\ bridged \in [Names -> Nat] /\ dropped \in [Names -> Nat]
    BY Zenon DEF PoaTypeInv
<1>2. /\ balances' = [balances EXCEPT ![n] = g]
      /\ f \in [Holders -> Nat] /\ g \in [Holders -> Nat] /\ g[a] = v
      /\ \A y \in Holders \ {a} : g[y] = f[y]
    BY <1>1, Zenon
<1>3. /\ SumOf(f, Holders) \in Nat /\ f[a] <= SumOf(f, Holders)
      /\ SumOf(g, Holders) = SumOf(f, Holders) - f[a] + g[a]
    <2> HIDE DEF f, g
    <2> QED
        BY <1>2, PoaSumOfOne
<1>4. d \in Int /\ f[a] \in Nat /\ d = v - f[a]
    BY <1>1, <1>2
<1>5. /\ supply[n] = SumOf(f, Holders) /\ supply[n] + dropped[n] = bridged[n]
      /\ supply[n] \in Nat /\ dropped[n] \in Nat /\ bridged[n] \in Nat
    BY <1>1, Zenon DEF SupplyIsBacked
<1>6. /\ balances' \in [Names -> [Holders -> Nat]]
      /\ \A m \in Names : balances'[m][factory] - balances[m][factory] =
                              IF m = n /\ a = factory THEN v - balances[n][a] ELSE 0
    <2>1. /\ balances' \in [Names -> [Holders -> Nat]]
          /\ \A m \in Names, b \in Holders :
                balances'[m][b] = IF m = n /\ b = a THEN v ELSE balances[m][b]
        BY <1>1, <1>2
    <2>2. \A m \in Names : balances[m][factory] \in Nat
        BY <1>1, PoaAssumption
    <2> QED
        BY <2>1, <2>2, PoaAssumption
<1>7. /\ \A m \in Names \ {n} : balances'[m] = balances[m]
      /\ balances'[n] = g
    BY <1>1, <1>2, Zenon
<1>8. /\ supply' = [supply EXCEPT ![n] = @ + d]
      /\ \/ bridged' = [bridged EXCEPT ![n] = @ + d] /\ dropped' = dropped
         \/ bridged' = bridged /\ dropped' = [dropped EXCEPT ![n] = @ - d] /\ v = 0
    BY Zenon
<1> HIDE DEF f, g, d
<1>9. supply[n] + d = SumOf(g, Holders) /\ supply[n] + d \in Nat
    BY <1>2, <1>3, <1>4, <1>5
<1>10. /\ supply' \in [Names -> Nat] /\ supply'[n] = supply[n] + d
       /\ \A m \in Names \ {n} : supply'[m] = supply[m]
    BY <1>1, <1>8, <1>9
<1>11. /\ bridged' \in [Names -> Nat] /\ dropped' \in [Names -> Nat]
       /\ bridged'[n] - dropped'[n] = bridged[n] - dropped[n] + d
       /\ \A m \in Names \ {n} : bridged'[m] = bridged[m] /\ dropped'[m] = dropped[m]
    <2>1. CASE bridged' = [bridged EXCEPT ![n] = @ + d] /\ dropped' = dropped
        <3>1. bridged[n] + d \in Nat
            BY <1>4, <1>5, <1>9
        <3> QED
            BY <1>1, <1>4, <1>5, <2>1, <3>1
    <2>2. CASE bridged' = bridged /\ dropped' = [dropped EXCEPT ![n] = @ - d] /\ v = 0
        <3>1. dropped[n] - d \in Nat
            BY <1>4, <1>5, <2>2
        <3> QED
            BY <1>1, <1>4, <1>5, <2>2, <3>1
    <2> QED
        BY <1>8, <2>1, <2>2, Zenon
<1>12. \A m \in Names : /\ supply'[m] = SumOf(balances'[m], Holders)
                        /\ supply'[m] + dropped'[m] = bridged'[m]
    <2>1. ASSUME NEW m \in Names, m # n
          PROVE  /\ supply'[m] = SumOf(balances'[m], Holders)
                 /\ supply'[m] + dropped'[m] = bridged'[m]
        BY <1>7, <1>10, <1>11, <2>1 DEF SupplyIsBacked
    <2>2. supply'[n] = SumOf(balances'[n], Holders)
        BY <1>7, <1>9, <1>10, Zenon
    <2>3. supply'[n] + dropped'[n] = bridged'[n]
        <3>1. bridged'[n] \in Nat /\ dropped'[n] \in Nat
            BY <1>11, Zenon
        <3> QED
            BY <1>4, <1>5, <1>10, <1>11, <3>1
    <2> QED
        BY <2>1, <2>2, <2>3, Zenon
<1> QED
    BY <1>6, <1>10, <1>11, <1>12, Zenon DEF PoaCounted

(* A withdrawal burns the same amount from the holder, the supply and what *)
(* is bridged.                                                             *)
LEMMA PoaWithdrawn ==
    ASSUME PoaTypeInv, SupplyIsBacked, NEW n \in Names, NEW a \in Holders, NEW amount \in Nat,
           amount <= balances[n][a], Withdrawn(n, a, amount), dropped' = dropped
    PROVE  PoaCounted(n, a, balances[n][a] - amount)
<1> DEFINE b == balances[n][a]
           v == b - amount
<1>1. b \in Nat /\ v \in Nat /\ v - b = -amount
    BY DEF PoaTypeInv
<1>2. /\ balances \in [Names -> [Holders -> Nat]]
      /\ supply \in [Names -> Nat] /\ bridged \in [Names -> Nat]
    BY Zenon DEF PoaTypeInv
<1>3. balances' = [balances EXCEPT ![n][a] = v]
    BY <1>2, Zenon DEF Withdrawn
<1>4. supply' = [supply EXCEPT ![n] = @ + (v - b)]
    <2>1. supply[n] - amount = supply[n] + (v - b)
        BY <1>1, <1>2, Zenon
    <2> QED
        BY <1>2, <2>1, Zenon DEF Withdrawn
<1>5. bridged' = [bridged EXCEPT ![n] = @ + (v - b)]
    <2>1. bridged[n] - amount = bridged[n] + (v - b)
        BY <1>1, <1>2, Zenon
    <2> QED
        BY <1>2, <2>1, Zenon DEF Withdrawn
<1> QED
    BY <1>1, <1>3, <1>4, <1>5, PoaOneBalance, Zenon

(* The balance of a user changes.                                          *)
LEMMA PoaUserBalance ==
    ASSUME PoaInv, NEW n \in Names, NEW from \in Users, NEW v, PoaCounted(n, from, v),
           jobs' = jobs, mint_failed' = mint_failed, registered' \in [Names -> SUBSET Holders]
    PROVE  PoaInv'
<1>1. PoaTypeInv /\ from # factory
    BY Zenon DEF PoaInv, Users
<1>2. PoaTypeInv'
    BY <1>1, Zenon DEF PoaCounted, PoaTypeInv, PoaJobOK
<1>3. \A m \in Names : SumOf(PaidByJobs(m), Jobs)' = SumOf(PaidByJobs(m), Jobs)
                       /\ SumOf(PaidByJobs(m), Jobs) \in Int
    BY <1>1, PoaPaidSame, Zenon
<1>4. \A m \in Names : balances'[m][factory] - balances[m][factory] = 0
    BY <1>1, Zenon DEF PoaCounted
<1>5. \A m \in Names : balances'[m][factory] - balances[m][factory] >=
                           SumOf(PaidByJobs(m), Jobs)' - SumOf(PaidByJobs(m), Jobs)
    BY <1>3, <1>4
<1>6. \A m \in Names : /\ supply'[m] = SumOf(balances'[m], Holders)
                       /\ supply'[m] + dropped'[m] = bridged'[m]
    BY Zenon DEF PoaCounted
<1>7. \A m \in Names : SumOf(PaidByJobs(m), Jobs)' \in Int
    BY <1>3, Zenon
<1> QED
    BY <1>2, <1>5, <1>6, <1>7, PoaTokensMove, Zenon

(* Registering with a token, and leaving it with or without a balance,     *)
(* keep the invariant.                                                     *)
LEMMA PoaStorageKeepsInv ==
    ASSUME PoaInv, NEW n \in Names, NEW from \in Users
    PROVE  /\ storage_deposit(n, from) => PoaInv'
           /\ \A force \in BOOLEAN : storage_unregister(n, from, force) => PoaInv'
<1>1. /\ PoaTypeInv /\ SupplyIsBacked /\ from \in Holders /\ from # factory
      /\ balances \in [Names -> [Holders -> Nat]] /\ registered \in [Names -> SUBSET Holders]
      /\ balances[n][from] \in Nat
    BY PoaAssumption DEF PoaInv, PoaTypeInv, Users
<1>5. ASSUME storage_deposit(n, from) PROVE PoaInv'
    <2>1. /\ registered' = [registered EXCEPT ![n] = @ \cup {from}]
          /\ UNCHANGED <<jobs, mint_failed, balances, supply, bridged, dropped>>
        BY <1>5, Zenon DEF storage_deposit
    <2>2. PoaTypeInv'
        BY <1>1, <2>1, Zenon DEF PoaTypeInv, PoaJobOK
    <2>3. SupplyIsBacked' /\ DepositsDoNotMix'
        BY <2>1 DEF PoaInv, SupplyIsBacked, DepositsDoNotMix, PaidByJobs, PaidByFactory
    <2> QED
        BY <2>2, <2>3, Zenon DEF PoaInv
<1>6. ASSUME NEW force \in BOOLEAN, storage_unregister(n, from, force) PROVE PoaInv'
    <2> DEFINE b == balances[n][from]
    <2>1. /\ registered' = [registered EXCEPT ![n] = @ \ {from}]
          /\ balances' = [balances EXCEPT ![n][from] = 0]
          /\ supply' = [supply EXCEPT ![n] = @ - b]
          /\ dropped' = [dropped EXCEPT ![n] = @ + b]
          /\ UNCHANGED <<jobs, mint_failed, bridged>>
        BY <1>6, Zenon DEF storage_unregister
    <2>2. supply[n] - b = supply[n] + (0 - b) /\ dropped[n] + b = dropped[n] - (0 - b)
        BY <1>1 DEF PoaTypeInv
    <2>3. /\ supply' = [supply EXCEPT ![n] = @ + (0 - b)]
          /\ dropped' = [dropped EXCEPT ![n] = @ - (0 - b)]
        BY <1>1, <2>1, <2>2, Zenon DEF PoaTypeInv
    <2>4. PoaCounted(n, from, 0)
        BY <1>1, <2>1, <2>3, PoaOneBalance, Zenon
    <2>5. registered' \in [Names -> SUBSET Holders]
        BY <1>1, <2>1, Zenon
    <2> QED
        BY <1>1, <2>1, <2>4, <2>5, PoaUserBalance, Zenon
<1> QED
    BY <1>5, <1>6, Zenon

(* The actions of the token's users.                                       *)
LEMMA PoaUserKeepsInv ==
    ASSUME PoaInv, NEW n \in Names, NEW from \in Users, NEW amount \in MintAmounts
    PROVE  /\ ft_withdraw(n, from, amount) => PoaInv'
           /\ \A to \in Holders : ft_transfer(n, from, to, amount) => PoaInv'
<1>1. /\ PoaTypeInv /\ SupplyIsBacked /\ from \in Holders /\ from # factory /\ amount \in Nat
      /\ balances \in [Names -> [Holders -> Nat]] /\ registered \in [Names -> SUBSET Holders]
      /\ balances[n][from] \in Nat
    BY PoaAssumption DEF PoaInv, PoaTypeInv, Users
<1>3. ASSUME ft_withdraw(n, from, amount) PROVE PoaInv'
    <2>1. amount <= balances[n][from] /\ Withdrawn(n, from, amount)
          /\ dropped' = dropped /\ jobs' = jobs /\ mint_failed' = mint_failed
          /\ registered' = registered
        BY <1>1, <1>3, Zenon DEF ft_withdraw
    <2>2. PoaCounted(n, from, balances[n][from] - amount)
        BY <1>1, <2>1, PoaWithdrawn, Zenon
    <2> QED
        BY <1>1, <2>1, <2>2, PoaUserBalance, Zenon
<1>4. ASSUME NEW to \in Holders, ft_transfer(n, from, to, amount) PROVE PoaInv'
    <2>1. /\ from # to /\ amount <= balances[n][from]
          /\ balances' = Move(balances, n, from, to, amount)
          /\ UNCHANGED <<jobs, mint_failed, registered, supply, bridged, dropped>>
        BY <1>1, <1>4, Zenon DEF ft_transfer, CanTransfer
    <2>2. /\ balances' \in [Names -> [Holders -> Nat]]
          /\ \A m \in Names : SumOf(balances'[m], Holders) = SumOf(balances[m], Holders)
          /\ \A m \in Names :
                balances'[m][factory] =
                   balances[m][factory] + (IF m # n THEN 0
                                           ELSE IF factory = from THEN -amount
                                           ELSE IF factory = to THEN amount ELSE 0)
        BY <1>1, <2>1, PoaMove
    <2>3. PoaTypeInv'
        BY <1>1, <2>1, <2>2, Zenon DEF PoaTypeInv, PoaJobOK
    <2>4. \A m \in Names : SumOf(PaidByJobs(m), Jobs)' = SumOf(PaidByJobs(m), Jobs)
                           /\ SumOf(PaidByJobs(m), Jobs) \in Int
        BY <1>1, <2>1, PoaPaidSame, Zenon
    <2>5. \A m \in Names : balances'[m][factory] - balances[m][factory] >=
                               SumOf(PaidByJobs(m), Jobs)' - SumOf(PaidByJobs(m), Jobs)
        <3>1. \A m \in Names : balances[m][factory] \in Nat
            BY <1>1, PoaAssumption, Zenon
        <3>2. \A m \in Names : balances'[m][factory] - balances[m][factory] >= 0
            BY <1>1, <2>2, <3>1
        <3> QED
            BY <2>4, <3>2
    <2>6. \A m \in Names : /\ supply'[m] = SumOf(balances'[m], Holders)
                           /\ supply'[m] + dropped'[m] = bridged'[m]
        BY <1>1, <2>1, <2>2, Zenon DEF SupplyIsBacked
    <2>7. \A m \in Names : SumOf(PaidByJobs(m), Jobs)' \in Int
        BY <2>4, Zenon
    <2> QED
        BY <2>1, <2>3, <2>5, <2>6, <2>7, PoaTokensMove, Zenon
<1> QED
    BY <1>3, <1>4, Zenon

(* The factory's calls start, and the ones that move no tokens run or      *)
(* fail.                                                                   *)
LEMMA PoaFactoryKeepsInv ==
    ASSUME PoaInv
    PROVE  /\ Pause => PoaInv'
           /\ \A n \in Names, md \in Metadata :
                 deploy_token(n, md) \/ set_metadata(n, md) => PoaInv'
           /\ \A n \in Names, owner \in Users, amount \in MintAmounts, has_msg \in BOOLEAN :
                 ft_deposit(n, owner, amount, has_msg) => PoaInv'
           /\ \A j \in Jobs : new(j) \/ TokenSetMetadata(j) \/ CallFails(j) => PoaInv'
           /\ \A j \in Jobs : \A unused \in 0 .. MaxSupply : OnTransfer(j, unused) => PoaInv'
<1>0. PoaTypeInv /\ jobs \in [Jobs -> PoaJobs] /\ mint_failed \in [Names -> BOOLEAN]
      /\ \A j \in Jobs : PoaJobOK(jobs[j])
    BY Zenon DEF PoaInv, PoaTypeInv
<1>1. ASSUME Pause PROVE PoaInv'
    <2>1. UNCHANGED <<jobs, mint_failed, registered, balances, supply, bridged, dropped>>
        BY <1>1, Zenon DEF Pause, tokenVars
    <2> QED
        BY <2>1 DEF PoaInv, PoaTypeInv, PoaJobOK, SupplyIsBacked, DepositsDoNotMix, PaidByJobs,
                    PaidByFactory
<1>2. ASSUME NEW n \in Names, NEW md \in Metadata, deploy_token(n, md) \/ set_metadata(n, md)
      PROVE  PoaInv'
    <2>1. PICK step \in {"create", "set_metadata"} :
              Start([step |-> step, name |-> n, metadata |-> md])
        BY <1>2, Zenon DEF deploy_token, set_metadata
    <2> DEFINE job == [step |-> step, name |-> n, metadata |-> md]
    <2>2. job \in PoaJobs /\ PoaJobOK(job) /\ job.step \in {"create", "set_metadata", "deposit"}
        BY Zenon DEF PoaJobs, PoaCalls, PoaJobOK
    <2>3. UNCHANGED <<balances, supply, bridged, dropped, registered, mint_failed>>
        BY <1>2, Zenon DEF deploy_token, set_metadata, tokenVars
    <2>4. Start(job)
        BY <2>1, Zenon
    <2> HIDE DEF job
    <2> QED
        BY <2>2, <2>3, <2>4, PoaStarts, Zenon
<1>3. ASSUME NEW n \in Names, NEW owner \in Users, NEW amount \in MintAmounts,
             NEW has_msg \in BOOLEAN, ft_deposit(n, owner, amount, has_msg)
      PROVE  PoaInv'
    <2> DEFINE deliver == IF has_msg THEN {owner} ELSE {}
               job == Deposit(n, DepositTo(owner, has_msg), amount, deliver)
    <2>1. Start(job)
          /\ UNCHANGED <<balances, supply, bridged, dropped, registered, mint_failed>>
        BY <1>3, Zenon DEF ft_deposit, tokenVars
    <2>2. DepositTo(owner, has_msg) \in Holders /\ amount \in Nat /\ deliver \in SUBSET Users
          /\ (DepositTo(owner, has_msg) = factory <=> deliver # {})
        BY PoaAssumption, Zenon DEF DepositTo, Users
    <2> HIDE DEF deliver
    <2>3. job \in PoaDeposits /\ job.step = "deposit" /\ job.deliver = deliver
          /\ job.to = DepositTo(owner, has_msg)
        BY <2>2, Zenon DEF Deposit, PoaDeposits
    <2> HIDE DEF job
    <2>4. job \in PoaJobs /\ PoaJobOK(job)
        BY <2>2, <2>3, Zenon DEF PoaJobs, PoaJobOK
    <2> QED
        BY <2>1, <2>3, <2>4, PoaStarts, Zenon
<1>4. NoJob \in PoaJobs /\ PoaJobOK(NoJob) /\ NoJob.step = "none"
      /\ \A n : PaidByFactory(NoJob, n) = 0
    BY Zenon DEF PoaJobs, PoaJobOK, NoJob, PaidByFactory
<1>5. \A j \in Jobs, n \in Names : PaidByFactory(jobs[j], n) \in Nat
    BY <1>0, PoaPaidType, Zenon
<1>6. ASSUME NEW j \in Jobs, new(j) \/ TokenSetMetadata(j) PROVE PoaInv'
    <2>1. Goto(j, NoJob)
          /\ UNCHANGED <<balances, supply, bridged, dropped, registered, mint_failed>>
        BY <1>6, Zenon DEF new, TokenSetMetadata
    <2>2. \A n \in Names : PaidByFactory(NoJob, n) <= PaidByFactory(jobs[j], n)
        BY <1>4, <1>5
    <2> QED
        BY <1>0, <1>4, <2>1, <2>2, PoaQuietStep, Zenon
<1>7. ASSUME NEW j \in Jobs, CallFails(j) PROVE PoaInv'
    <2>0. UNCHANGED <<balances, supply, bridged, dropped, registered>>
        BY <1>7, Zenon DEF CallFails, tokenVars
    <2>1. CASE At(j, "deposit")
        <3>1. jobs[j] \in PoaDeposits /\ PoaJobOK(jobs[j]) /\ jobs[j].name \in Names
            BY <1>0, <2>1, PoaJobFields, Zenon DEF At, PoaDeposits
        <3>2. Goto(j, AfterDeposit(jobs[j]))
              /\ mint_failed' = [mint_failed EXCEPT ![jobs[j].name] = TRUE]
            BY <1>7, <2>1, Zenon DEF CallFails
        <3>3. /\ AfterDeposit(jobs[j]) \in PoaJobs /\ PoaJobOK(AfterDeposit(jobs[j]))
              /\ \A n \in Names : PaidByFactory(AfterDeposit(jobs[j]), n) =
                    IF n = jobs[j].name /\ jobs[j].to = factory THEN jobs[j].amount ELSE 0
            BY <3>1, PoaAfterDeposit, Zenon
        <3>4. mint_failed' \in [Names -> BOOLEAN]
            BY <1>0, <3>1, <3>2, Zenon
        <3>5. ASSUME NEW n \in Names, ~ mint_failed'[n]
              PROVE  ~ mint_failed[n]
                     /\ PaidByFactory(AfterDeposit(jobs[j]), n) <= PaidByFactory(jobs[j], n)
            <4>1. n # jobs[j].name /\ ~ mint_failed[n]
                BY <1>0, <3>1, <3>2, <3>5, Zenon
            <4> QED
                BY <1>5, <3>3, <4>1
        <3> QED
            BY <2>0, <3>2, <3>3, <3>4, <3>5, PoaQuietStep, Zenon
    <2>2. CASE ~ At(j, "deposit")
        <3>1. Goto(j, NoJob) /\ mint_failed' = mint_failed
            BY <1>7, <2>2, Zenon DEF CallFails
        <3>2. \A n \in Names : PaidByFactory(NoJob, n) <= PaidByFactory(jobs[j], n)
            BY <1>4, <1>5
        <3> QED
            BY <1>0, <1>4, <2>0, <3>1, <3>2, PoaQuietStep, Zenon
    <2> QED
        BY <2>1, <2>2, Zenon
<1>8. ASSUME NEW j \in Jobs, NEW unused \in 0 .. MaxSupply, OnTransfer(j, unused) PROVE PoaInv'
    <2> DEFINE before == jobs[j]
               job == [before EXCEPT !.step = "resolve", !.amount = unused]
    <2>1. /\ before.step = "on_transfer" /\ unused \in 0 .. before.amount /\ Goto(j, job)
          /\ UNCHANGED <<balances, supply, bridged, dropped, registered, mint_failed>>
        BY <1>8, Zenon DEF OnTransfer, At, tokenVars
    <2>2. before \in PoaTransfers /\ before.from # before.to
        BY <1>0, <2>1, PoaJobFields, Zenon DEF PoaJobOK
    <2>3. unused \in Nat /\ before.amount \in Nat /\ unused <= before.amount
        BY <2>1, <2>2, PoaAssumption DEF PoaTransfers
    <2>4. /\ job \in PoaTransfers /\ job.step = "resolve" /\ job.amount = unused
          /\ job.name = before.name /\ job.from = before.from /\ job.to = before.to
        BY <2>2, <2>3, Zenon DEF PoaTransfers
    <2> HIDE DEF job, before
    <2>5. job \in PoaJobs /\ PoaJobOK(job) /\ job # NoJob /\ before # NoJob
        BY <2>1, <2>2, <2>4 DEF PoaJobs, PoaJobOK, NoJob
    <2>6. \A n \in Names : PaidByFactory(job, n) <= PaidByFactory(before, n)
        BY <2>1, <2>3, <2>4, <2>5 DEF PaidByFactory
    <2> QED
        BY <1>0, <2>1, <2>5, <2>6, PoaQuietStep, Zenon DEF before
<1> QED
    BY <1>1, <1>2, <1>3, <1>6, <1>7, <1>8, Zenon

(* A job that moves tokens goes on.                                        *)
LEMMA PoaJobMoves ==
    ASSUME PoaInv, NEW j \in Jobs, NEW job \in PoaJobs, PoaJobOK(job), Goto(j, job),
           mint_failed' = mint_failed,
           registered' \in [Names -> SUBSET Holders],
           balances' \in [Names -> [Holders -> Nat]],
           supply' \in [Names -> Nat], bridged' \in [Names -> Nat], dropped' \in [Names -> Nat],
           \A n \in Names :
               /\ supply'[n] = SumOf(balances'[n], Holders)
               /\ supply'[n] + dropped'[n] = bridged'[n],
           \A n \in Names :
               balances'[n][factory] - balances[n][factory] >=
                   PaidByFactory(job, n) - PaidByFactory(jobs[j], n)
    PROVE  PoaInv'
<1>1. jobs' \in [Jobs -> PoaJobs] /\ \A k \in Jobs : PoaJobOK(jobs'[k])
    BY PoaJobsType, Zenon DEF PoaInv
<1>2. PoaTypeInv'
    <2>1. \A k \in Jobs : PoaJobOK(jobs[k])'
        BY <1>1, Zenon DEF PoaJobOK
    <2> QED
        BY <1>1, <2>1, Zenon DEF PoaInv, PoaTypeInv
<1>3. ASSUME NEW n \in Names
      PROVE  /\ SumOf(PaidByJobs(n), Jobs)' \in Int
             /\ balances'[n][factory] - balances[n][factory] >=
                    SumOf(PaidByJobs(n), Jobs)' - SumOf(PaidByJobs(n), Jobs)
    <2>1. /\ SumOf(PaidByJobs(n), Jobs) \in Int
          /\ SumOf(PaidByJobs(n), Jobs)'
                = SumOf(PaidByJobs(n), Jobs) - PaidByFactory(jobs[j], n) + PaidByFactory(job, n)
        BY PoaPaidChange, Zenon DEF PoaInv
    <2>2. PaidByFactory(job, n) \in Nat /\ PaidByFactory(jobs[j], n) \in Nat
        BY PoaPaidType, Zenon DEF PoaInv, PoaTypeInv
    <2>3. balances'[n][factory] - balances[n][factory] >=
              PaidByFactory(job, n) - PaidByFactory(jobs[j], n)
        BY Zenon
    <2>4. balances[n][factory] \in Nat /\ balances'[n][factory] \in Nat
        BY PoaAssumption DEF PoaInv, PoaTypeInv
    <2> QED
        BY <2>1, <2>2, <2>3, <2>4
<1> QED
    BY <1>2, <1>3, PoaTokensMove, Zenon

(* The mint a factory deposit makes in the token keeps the invariant.      *)
LEMMA PoaDepositKeepsInv ==
    ASSUME PoaInv, NEW j \in Jobs, TokenDeposit(j)
    PROVE  PoaInv'
<1> DEFINE job == jobs[j]
           n == job.name
           b == balances[n][job.to]
           v == b + job.amount
<1>1. /\ job.step = "deposit"
      /\ registered' = [registered EXCEPT ![n] = @ \cup {job.to}]
      /\ balances' = [balances EXCEPT ![n][job.to] = @ + job.amount]
      /\ supply' = [supply EXCEPT ![n] = @ + job.amount]
      /\ bridged' = [bridged EXCEPT ![n] = @ + job.amount]
      /\ Goto(j, AfterDeposit(job))
      /\ UNCHANGED <<mint_failed, dropped>>
    BY Zenon DEF TokenDeposit, At
<1>2. PoaTypeInv /\ SupplyIsBacked /\ job \in PoaJobs /\ PoaJobOK(job)
    BY Zenon DEF PoaInv, PoaTypeInv
<1>3. job \in PoaDeposits /\ n \in Names /\ job.to \in Holders /\ job.amount \in Nat
    BY <1>1, <1>2, PoaJobFields, Zenon DEF PoaDeposits
<1>4. /\ balances \in [Names -> [Holders -> Nat]] /\ supply \in [Names -> Nat]
      /\ bridged \in [Names -> Nat] /\ registered \in [Names -> SUBSET Holders]
    BY <1>2, Zenon DEF PoaTypeInv
<1>5. /\ AfterDeposit(job) \in PoaJobs /\ PoaJobOK(AfterDeposit(job))
      /\ \A m \in Names : PaidByFactory(AfterDeposit(job), m) =
            IF m = n /\ job.to = factory THEN job.amount ELSE 0
    BY <1>2, <1>3, PoaAfterDeposit, Zenon
<1>6. \A m \in Names : PaidByFactory(job, m) = 0
    BY <1>1, <1>2, PoaPaysNothing
<1>7. b \in Nat /\ v \in Nat /\ v - b = job.amount
    BY <1>3, <1>4
<1>8. registered' \in [Names -> SUBSET Holders]
    BY <1>1, <1>3, <1>4, Zenon
<1> HIDE DEF job, n
<1>9. PoaCounted(n, job.to, v)
    <2>1. balances' = [balances EXCEPT ![n][job.to] = v]
        BY <1>1, <1>3, <1>4, Zenon
    <2>2. /\ supply' = [supply EXCEPT ![n] = @ + (v - b)]
          /\ bridged' = [bridged EXCEPT ![n] = @ + (v - b)]
        BY <1>1, <1>7, Zenon
    <2> HIDE DEF v
    <2> QED
        BY <1>1, <1>2, <1>3, <1>7, <2>1, <2>2, PoaOneBalance, Zenon
<1>10. \A m \in Names : balances'[m][factory] - balances[m][factory] >=
                            PaidByFactory(AfterDeposit(job), m) - PaidByFactory(job, m)
    <2>1. \A m \in Names : balances'[m][factory] - balances[m][factory] =
                               IF m = n /\ job.to = factory THEN job.amount ELSE 0
        BY <1>7, <1>9, Zenon DEF PoaCounted
    <2> QED
        BY <1>3, <1>5, <1>6, <2>1
<1>11. /\ balances' \in [Names -> [Holders -> Nat]]
       /\ supply' \in [Names -> Nat] /\ bridged' \in [Names -> Nat]
       /\ dropped' \in [Names -> Nat]
       /\ \A m \in Names : /\ supply'[m] = SumOf(balances'[m], Holders)
                           /\ supply'[m] + dropped'[m] = bridged'[m]
    BY <1>9, Zenon DEF PoaCounted
<1> QED
    BY <1>1, <1>5, <1>8, <1>10, <1>11, PoaJobMoves, Zenon DEF job

(* A transfer between two balances, with a job that goes on.               *)
LEMMA PoaTransferMoves ==
    ASSUME PoaInv, NEW j \in Jobs, NEW job \in PoaJobs, PoaJobOK(job), Goto(j, job),
           NEW n \in Names, NEW from \in Holders, NEW to \in Holders, from # to,
           NEW amount \in Nat, amount <= balances[n][from],
           balances' = Move(balances, n, from, to, amount),
           UNCHANGED <<mint_failed, registered, supply, bridged, dropped>>,
           \A m \in Names :
               PaidByFactory(job, m) - PaidByFactory(jobs[j], m) <=
                   (IF m # n THEN 0 ELSE IF factory = from THEN -amount
                                    ELSE IF factory = to THEN amount ELSE 0)
    PROVE  PoaInv'
<1>1. PoaTypeInv /\ SupplyIsBacked
    BY Zenon DEF PoaInv
<1>2. /\ balances' \in [Names -> [Holders -> Nat]]
      /\ \A m \in Names : SumOf(balances'[m], Holders) = SumOf(balances[m], Holders)
      /\ \A m \in Names :
            balances'[m][factory] =
               balances[m][factory] + (IF m # n THEN 0
                                       ELSE IF factory = from THEN -amount
                                       ELSE IF factory = to THEN amount ELSE 0)
    BY <1>1, PoaMove
<1>3. /\ supply' \in [Names -> Nat] /\ bridged' \in [Names -> Nat]
      /\ dropped' \in [Names -> Nat] /\ registered' \in [Names -> SUBSET Holders]
    BY <1>1, Zenon DEF PoaTypeInv
<1>4. \A m \in Names : /\ supply'[m] = SumOf(balances'[m], Holders)
                       /\ supply'[m] + dropped'[m] = bridged'[m]
    BY <1>1, <1>2, Zenon DEF SupplyIsBacked
<1>5. ASSUME NEW m \in Names
      PROVE  balances'[m][factory] - balances[m][factory] >=
                 PaidByFactory(job, m) - PaidByFactory(jobs[j], m)
    <2>1. balances[m][factory] \in Nat
        BY <1>1, PoaAssumption, Zenon DEF PoaTypeInv
    <2>2. PaidByFactory(job, m) \in Nat /\ PaidByFactory(jobs[j], m) \in Nat
        BY <1>1, PoaPaidType, Zenon DEF PoaTypeInv
    <2> QED
        BY <1>2, <2>1, <2>2
<1> QED
    BY <1>2, <1>3, <1>4, <1>5, PoaJobMoves, Zenon

(* The first receipt of ft_transfer_call keeps the invariant.              *)
LEMMA PoaTransferCallKeepsInv ==
    ASSUME PoaInv, NEW n \in Names, NEW from \in Users, NEW to \in Holders,
           NEW amount \in MintAmounts, ft_transfer_call(n, from, to, amount)
    PROVE  PoaInv'
<1> DEFINE job == Transfer("on_transfer", n, from, to, amount)
<1>1. /\ from # to /\ amount <= balances[n][from]
      /\ balances' = Move(balances, n, from, to, amount)
      /\ Start(job)
      /\ UNCHANGED <<mint_failed, registered, supply, bridged, dropped>>
    <2>1. balances[n][from] \in Nat /\ amount \in Nat
        BY PoaAssumption DEF PoaInv, PoaTypeInv, Users
    <2> QED
        BY <2>1, Zenon DEF ft_transfer_call, CanTransfer
<1>2. from \in Holders /\ from # factory /\ amount \in Nat
    BY PoaAssumption, Zenon DEF Users
<1>3. /\ job \in PoaTransfers /\ job.step = "on_transfer" /\ job.name = n
      /\ job.from = from /\ job.to = to /\ job.amount = amount
    BY <1>2, Zenon DEF Transfer, PoaTransfers
<1>4. PICK j \in Jobs : jobs[j] = NoJob /\ Goto(j, job)
    BY <1>1, Zenon DEF Start
<1> HIDE DEF job
<1>5. job \in PoaJobs /\ PoaJobOK(job) /\ job # NoJob
    BY <1>1, <1>3 DEF PoaJobs, PoaJobOK, NoJob
<1>6. \A m \in Names : /\ PaidByFactory(jobs[j], m) = 0
                       /\ PaidByFactory(job, m) = IF m = n /\ to = factory THEN amount ELSE 0
    BY <1>3, <1>4, <1>5, Zenon DEF PaidByFactory
<1>7. \A m \in Names :
          PaidByFactory(job, m) - PaidByFactory(jobs[j], m) <=
              (IF m # n THEN 0 ELSE IF factory = from THEN -amount
                               ELSE IF factory = to THEN amount ELSE 0)
    BY <1>2, <1>6
<1> QED
    BY <1>1, <1>2, <1>4, <1>5, <1>7, PoaTransferMoves

(* The receiver's answer to ft_on_transfer keeps the invariant.            *)
LEMMA PoaDeliverKeepsInv ==
    ASSUME PoaInv, NEW j \in Jobs, Deliver(j)
    PROVE  PoaInv'
<1> DEFINE before == jobs[j]
           n == before.name
           job == [before EXCEPT !.step = "on_transfer"]
<1>1. before.step = "transfer_call"
      /\ UNCHANGED <<mint_failed, registered, supply, bridged, dropped>>
    BY Zenon DEF Deliver, At
<1>2. before \in PoaJobs /\ PoaJobOK(before)
    BY Zenon DEF PoaInv, PoaTypeInv
<1>3. /\ before \in PoaTransfers /\ n \in Names /\ before.from = factory /\ before.from # before.to
      /\ before.from \in Holders /\ before.to \in Holders /\ before.amount \in Nat
    BY <1>1, <1>2, PoaJobFields, Zenon DEF PoaTransfers, PoaJobOK
<1>4. CASE CanTransfer(n, before.from, before.to, before.amount)
    <2>1. balances' = Move(balances, n, before.from, before.to, before.amount) /\ Goto(j, job)
        BY <1>4, Zenon DEF Deliver
    <2>2. /\ job \in PoaTransfers /\ job.step = "on_transfer" /\ job.name = n
          /\ job.from = before.from /\ job.to = before.to /\ job.amount = before.amount
        BY <1>3, Zenon DEF PoaTransfers
    <2> HIDE DEF job, before
    <2>3. job \in PoaJobs /\ PoaJobOK(job) /\ before # NoJob
        BY <1>1, <1>3, <2>2 DEF PoaJobs, PoaJobOK, NoJob
    <2>4. \A m \in Names : /\ PaidByFactory(before, m) = IF m = n THEN before.amount ELSE 0
                           /\ PaidByFactory(job, m) = 0
        BY <1>1, <1>3, <2>2, <2>3, Zenon DEF PaidByFactory
    <2>5. \A m \in Names :
              PaidByFactory(job, m) - PaidByFactory(before, m) <=
                  (IF m # n THEN 0 ELSE IF factory = before.from THEN -before.amount
                                   ELSE IF factory = before.to THEN before.amount ELSE 0)
        BY <1>3, <2>4
    <2>6. before.amount <= balances[n][before.from]
        <3>1. balances[n][before.from] \in Nat
            BY <1>3, Zenon DEF PoaInv, PoaTypeInv
        <3> QED
            BY <1>3, <1>4, <3>1, Zenon DEF CanTransfer
    <2> QED
        BY <1>1, <1>3, <2>1, <2>3, <2>5, <2>6, PoaTransferMoves DEF before
<1>5. CASE ~ CanTransfer(n, before.from, before.to, before.amount)
    <2>1. Goto(j, NoJob) /\ balances' = balances
        BY <1>5, Zenon DEF Deliver
    <2>2. NoJob \in PoaJobs /\ PoaJobOK(NoJob) /\ \A m : PaidByFactory(NoJob, m) = 0
        BY Zenon DEF PoaJobs, PoaJobOK, NoJob, PaidByFactory
    <2>3. \A m \in Names : PaidByFactory(before, m) \in Nat
        BY <1>2, PoaPaidType, Zenon
    <2>4. \A m \in Names : PaidByFactory(NoJob, m) <= PaidByFactory(jobs[j], m)
        BY <2>2, <2>3
    <2>5. mint_failed' \in [Names -> BOOLEAN] /\ mint_failed' = mint_failed
        BY <1>1, Zenon DEF PoaInv, PoaTypeInv
    <2> QED
        BY <1>1, <2>1, <2>2, <2>4, <2>5, PoaQuietStep, Zenon
<1> QED
    BY <1>4, <1>5, Zenon

(* The refund of ft_resolve_transfer keeps the invariant.                  *)
LEMMA PoaResolveKeepsInv ==
    ASSUME PoaInv, NEW j \in Jobs, ft_resolve_transfer(j)
    PROVE  PoaInv'
<1> DEFINE job == jobs[j]
           n == job.name
           refund == UnusedRefund(n, job.to, job.amount)
<1>1. /\ job.step = "resolve" /\ Goto(j, NoJob)
      /\ IF job.from \in registered[n]
         THEN /\ balances' = Move(balances, n, job.to, job.from, refund)
              /\ UNCHANGED <<supply, bridged, dropped>>
         ELSE Withdrawn(n, job.to, refund)
      /\ UNCHANGED <<mint_failed, registered, dropped>>
    BY Zenon DEF ft_resolve_transfer, At
<1>2. PoaTypeInv /\ SupplyIsBacked /\ job \in PoaJobs /\ PoaJobOK(job)
    BY Zenon DEF PoaInv, PoaTypeInv
<1>3. /\ job \in PoaTransfers /\ n \in Names /\ job.from # job.to
      /\ job.from \in Holders /\ job.to \in Holders /\ job.amount \in Nat
    BY <1>1, <1>2, PoaJobFields, Zenon DEF PoaTransfers, PoaJobOK
<1>4. balances[n][job.to] \in Nat
    BY <1>2, <1>3, Zenon DEF PoaTypeInv
<1>5. refund \in Nat /\ refund <= balances[n][job.to] /\ refund <= job.amount
    BY <1>3, <1>4, MinOfTwo, Zenon DEF UnusedRefund
<1>6. NoJob \in PoaJobs /\ PoaJobOK(NoJob) /\ \A m : PaidByFactory(NoJob, m) = 0
    BY Zenon DEF PoaJobs, PoaJobOK, NoJob, PaidByFactory
<1> HIDE DEF job, n, refund
<1>7. \A m \in Names :
          PaidByFactory(job, m) = IF m = n /\ job.to = factory THEN job.amount ELSE 0
    <2>1. job # NoJob
        BY <1>1 DEF NoJob
    <2> QED
        BY <1>1, <2>1, Zenon DEF PaidByFactory, n
<1>8. CASE job.from \in registered[n]
    <2>1. balances' = Move(balances, n, job.to, job.from, refund)
          /\ UNCHANGED <<supply, bridged, dropped>>
        BY <1>1, <1>8, Zenon
    <2>2. \A m \in Names :
              PaidByFactory(NoJob, m) - PaidByFactory(job, m) <=
                  (IF m # n THEN 0 ELSE IF factory = job.to THEN -refund
                                   ELSE IF factory = job.from THEN refund ELSE 0)
        BY <1>3, <1>5, <1>6, <1>7
    <2> QED
        BY <1>1, <1>3, <1>5, <1>6, <2>1, <2>2, PoaTransferMoves DEF job
<1>9. CASE job.from \notin registered[n]
    <2>1. Withdrawn(n, job.to, refund) /\ dropped' = dropped
        BY <1>1, <1>9, Zenon
    <2>2. PoaCounted(n, job.to, balances[n][job.to] - refund)
        BY <1>2, <1>3, <1>5, <2>1, PoaWithdrawn, Zenon
    <2>3. \A m \in Names : balances'[m][factory] - balances[m][factory] >=
                               PaidByFactory(NoJob, m) - PaidByFactory(job, m)
        <3>1. \A m \in Names : balances'[m][factory] - balances[m][factory] =
                                   IF m = n /\ job.to = factory THEN -refund ELSE 0
            BY <1>4, <1>5, <2>2 DEF PoaCounted
        <3> QED
            BY <1>3, <1>5, <1>6, <1>7, <3>1
    <2>4. /\ balances' \in [Names -> [Holders -> Nat]]
          /\ supply' \in [Names -> Nat] /\ bridged' \in [Names -> Nat]
          /\ dropped' \in [Names -> Nat]
          /\ \A m \in Names : /\ supply'[m] = SumOf(balances'[m], Holders)
                              /\ supply'[m] + dropped'[m] = bridged'[m]
        BY <2>2, Zenon DEF PoaCounted
    <2>5. registered' \in [Names -> SUBSET Holders] /\ mint_failed' = mint_failed
        BY <1>1, <1>2, Zenon DEF PoaTypeInv
    <2> QED
        BY <1>1, <1>6, <2>3, <2>4, <2>5, PoaJobMoves, Zenon DEF job
<1> QED
    BY <1>8, <1>9, Zenon

(* The invariant holds, for any number of accounts, of tokens and of calls *)
(* under way.                                                              *)
THEOREM PoaInvariance == PoaSpec => []PoaInv
<1>1. PoaInv /\ [PoaNext]_poaVars => PoaInv'
    <2> SUFFICES ASSUME PoaInv, [PoaNext]_poaVars PROVE PoaInv'
        BY Zenon
    <2>1. CASE UNCHANGED poaVars
        <3>1. UNCHANGED <<jobs, mint_failed, registered, balances, supply, bridged, dropped>>
            BY <2>1, Zenon DEF poaVars, tokenVars
        <3> QED
            BY <3>1 DEF PoaInv, PoaTypeInv, PoaJobOK, SupplyIsBacked, DepositsDoNotMix,
                        PaidByJobs, PaidByFactory
    <2>2. CASE PoaNext
        BY <2>2, PoaFactoryKeepsInv, PoaUserKeepsInv, PoaStorageKeepsInv,
           PoaTransferCallKeepsInv, PoaDepositKeepsInv, PoaDeliverKeepsInv,
           PoaResolveKeepsInv, Zenon DEF PoaNext
    <2> QED
        BY <2>1, <2>2, Zenon
<1> QED
    BY <1>1, PoaInitInv, PTL DEF PoaSpec

(* Every token is backed: its supply is what its accounts hold, and what   *)
(* the events say is in circulation but for what unregistered accounts     *)
(* gave up (ft_deposit, ft_withdraw, ft_resolve_transfer).                 *)
THEOREM PoaSupply == PoaSpec => []SupplyIsBacked
BY PoaInvariance, PTL DEF PoaInv

(* While no deposit to a token failed, the factory holds what all deposits *)
(* with a msg will send on, and what it will give back of transfers to     *)
(* itself (ft_deposit).                                                    *)
THEOREM PoaDepositsApart == PoaSpec => []DepositsDoNotMix
BY PoaInvariance, PTL DEF PoaInv

(* A call that moves to something other than the creation of the token n,  *)
(* where no creation of n was under way.                                   *)
LEMMA PoaStaysDead ==
    ASSUME NEW n, NEW j \in Jobs, NEW job, jobs \in [Jobs -> PoaJobs], Goto(j, job),
           job = NoJob \/ job.name # n \/ job.step # "create",
           \A i \in Jobs : jobs[i] = NoJob \/ jobs[i].name # n \/ jobs[i].step # "create"
    PROVE  \A i \in Jobs : jobs'[i] = NoJob \/ jobs'[i].name # n \/ jobs'[i].step # "create"
<1>1. \A i \in Jobs : jobs'[i] = IF i = j THEN job ELSE jobs[i]
    BY Zenon DEF Goto
<1> QED
    BY <1>1, Zenon

(* No step after a failed deployment brings the name back: only            *)
(* deploy_token() starts a creation, and it refuses the names that the     *)
(* factory has registered, whatever became of their tokens.                *)
THEOREM PoaNamesStayDead == PoaSpec => FailedNamesStayDead
<1> DEFINE NoCreation(n) == \A j \in Jobs : jobs[j] = NoJob \/ jobs[j].name # n
                                            \/ jobs[j].step # "create"
<1>1. ASSUME PoaInv, [PoaNext]_poaVars, NEW n \in tokens, ~ Exists(n), NoCreation(n)
      PROVE  ~ Exists(n)' /\ NoCreation(n)'
    <2>0. jobs \in [Jobs -> PoaJobs]
        BY <1>1, Zenon DEF PoaInv, PoaTypeInv
    <2>1. ASSUME UNCHANGED <<metadata, jobs>> PROVE ~ Exists(n)' /\ NoCreation(n)'
        BY <1>1, <2>1, Zenon DEF Exists
    <2>2. ASSUME NEW j \in Jobs, NEW job, Goto(j, job), DOMAIN metadata' = DOMAIN metadata,
                 job = NoJob \/ job.name # n \/ job.step # "create"
          PROVE  ~ Exists(n)' /\ NoCreation(n)'
        <3>1. NoCreation(n)'
            BY <1>1, <2>0, <2>2, PoaStaysDead, Zenon
        <3> QED
            BY <1>1, <2>2, <3>1, Zenon DEF Exists
    <2>3. ASSUME NEW job, Start(job), metadata' = metadata,
                 job.name # n \/ job.step # "create"
          PROVE  ~ Exists(n)' /\ NoCreation(n)'
        BY <2>2, <2>3, Zenon DEF Start
    <2>4. CASE UNCHANGED poaVars
        BY <2>1, <2>4, Zenon DEF poaVars, tokenVars
    <2>5. CASE Pause
        BY <2>1, <2>5, Zenon DEF Pause, tokenVars
    <2>6. ASSUME NEW m \in Names, NEW md \in Metadata, deploy_token(m, md)
          PROVE  ~ Exists(n)' /\ NoCreation(n)'
        <3>1. m # n
            BY <2>6, Zenon DEF deploy_token, IsNewToken
        <3> QED
            BY <2>3, <2>6, <3>1, Zenon DEF deploy_token, tokenVars
    <2>7. ASSUME NEW m \in Names, NEW md \in Metadata, set_metadata(m, md)
          PROVE  ~ Exists(n)' /\ NoCreation(n)'
        BY <2>3, <2>7, Zenon DEF set_metadata, tokenVars
    <2>8. ASSUME NEW m \in Names, NEW owner \in Users, NEW amount \in MintAmounts,
                 NEW has_msg \in BOOLEAN, ft_deposit(m, owner, amount, has_msg)
          PROVE  ~ Exists(n)' /\ NoCreation(n)'
        BY <2>3, <2>8, Zenon DEF ft_deposit, Deposit, tokenVars
    <2>9. ASSUME NEW j \in Jobs, new(j) PROVE ~ Exists(n)' /\ NoCreation(n)'
        <3>1. jobs[j].step = "create" /\ Goto(j, NoJob)
            BY <2>9, Zenon DEF new, At
        <3>2. jobs[j].name # n
            BY <1>1, <3>1 DEF NoJob
        <3>3. DOMAIN metadata' = DOMAIN metadata \cup {jobs[j].name}
            BY <2>9, Zenon DEF new
        <3>4. NoCreation(n)'
            BY <1>1, <2>0, <3>1, PoaStaysDead, Zenon
        <3> QED
            BY <1>1, <3>2, <3>3, <3>4, Zenon DEF Exists
    <2>10. ASSUME NEW j \in Jobs, TokenSetMetadata(j)
           PROVE  ~ Exists(n)' /\ NoCreation(n)'
        <3>1. Goto(j, NoJob) /\ DOMAIN metadata' = DOMAIN metadata
            BY <2>10, Zenon DEF TokenSetMetadata
        <3> QED
            BY <2>2, <3>1, Zenon
    <2>11. ASSUME NEW j \in Jobs
           PROVE  AfterDeposit(jobs[j]) = NoJob \/ AfterDeposit(jobs[j]).step # "create"
        BY Zenon DEF AfterDeposit, Transfer
    <2>12. ASSUME NEW j \in Jobs, TokenDeposit(j)
           PROVE  ~ Exists(n)' /\ NoCreation(n)'
        <3>1. Goto(j, AfterDeposit(jobs[j])) /\ DOMAIN metadata' = DOMAIN metadata
            BY <2>12, Zenon DEF TokenDeposit
        <3> QED
            BY <2>2, <2>11, <3>1, Zenon
    <2>13. ASSUME NEW j \in Jobs, CallFails(j) PROVE ~ Exists(n)' /\ NoCreation(n)'
        <3>1. /\ Goto(j, AfterDeposit(jobs[j])) \/ Goto(j, NoJob)
              /\ DOMAIN metadata' = DOMAIN metadata
            BY <2>13, Zenon DEF CallFails, tokenVars
        <3> QED
            BY <2>2, <2>11, <3>1
    <2>14. ASSUME NEW j \in Jobs, Deliver(j) PROVE ~ Exists(n)' /\ NoCreation(n)'
        <3> DEFINE job == [jobs[j] EXCEPT !.step = "on_transfer"]
        <3>1. /\ Goto(j, job) \/ Goto(j, NoJob)
              /\ DOMAIN metadata' = DOMAIN metadata /\ jobs[j].step = "transfer_call"
            BY <2>14, Zenon DEF Deliver, At
        <3>2. jobs[j] \in PoaTransfers
            BY <2>0, <3>1, PoaJobFields, Zenon
        <3>3. job.step # "create"
            BY <3>2, Zenon DEF PoaTransfers
        <3> HIDE DEF job
        <3> QED
            BY <2>2, <3>1, <3>3
    <2>15. ASSUME NEW j \in Jobs, NEW unused \in 0 .. MaxSupply, OnTransfer(j, unused)
           PROVE  ~ Exists(n)' /\ NoCreation(n)'
        <3> DEFINE job == [jobs[j] EXCEPT !.step = "resolve", !.amount = unused]
        <3>1. /\ Goto(j, job)
              /\ DOMAIN metadata' = DOMAIN metadata /\ jobs[j].step = "on_transfer"
            BY <2>15, Zenon DEF OnTransfer, At, tokenVars
        <3>2. jobs[j] \in PoaTransfers
            BY <2>0, <3>1, PoaJobFields, Zenon
        <3>3. job.step # "create"
            BY <3>2, Zenon DEF PoaTransfers
        <3> HIDE DEF job
        <3> QED
            BY <2>2, <3>1, <3>3, Zenon
    <2>16. ASSUME NEW j \in Jobs, ft_resolve_transfer(j)
           PROVE  ~ Exists(n)' /\ NoCreation(n)'
        BY <2>2, <2>16, Zenon DEF ft_resolve_transfer
    <2>17. ASSUME NEW m \in Names, NEW from \in Users, NEW amount \in MintAmounts,
                  \/ ft_withdraw(m, from, amount)
                  \/ \E to \in Holders : ft_transfer(m, from, to, amount)
           PROVE  ~ Exists(n)' /\ NoCreation(n)'
        BY <2>1, <2>17, Zenon DEF ft_withdraw, ft_transfer
    <2>18. ASSUME NEW m \in Names, NEW from \in Users, NEW to \in Holders,
                  NEW amount \in MintAmounts, ft_transfer_call(m, from, to, amount)
           PROVE  ~ Exists(n)' /\ NoCreation(n)'
        BY <2>3, <2>18, Zenon DEF ft_transfer_call, Transfer
    <2>19. ASSUME NEW m \in Names, NEW account \in Users,
                  \/ storage_deposit(m, account)
                  \/ \E force \in BOOLEAN : storage_unregister(m, account, force)
           PROVE  ~ Exists(n)' /\ NoCreation(n)'
        BY <2>1, <2>19, Zenon DEF storage_deposit, storage_unregister
    <2> HIDE DEF NoCreation
    <2> QED
        BY <1>1, <2>4, <2>5, <2>6, <2>7, <2>8, <2>9, <2>10, <2>12, <2>13, <2>14, <2>15,
           <2>16, <2>17, <2>18, <2>19 DEF PoaNext
<1>2. PoaInv /\ [PoaNext]_poaVars
      => [\A n \in tokens :
             ~ Exists(n) /\ (\A j \in Jobs : jobs[j] = NoJob \/ jobs[j].name # n
                                             \/ ~ At(j, "create"))
             => ~ Exists(n)' /\ \A j \in Jobs : jobs'[j] = NoJob \/ jobs'[j].name # n
                                                \/ jobs'[j].step # "create"]_poaVars
    BY <1>1, Zenon DEF At
<1> QED
    BY <1>2, PoaInvariance, PTL DEF PoaSpec, FailedNamesStayDead
=============================================================================
