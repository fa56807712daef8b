-------------------------------- MODULE Sums --------------------------------
(***************************************************************************)
(* Sums of numbers over a finite set, and what changing a term does to     *)
(* them.  The library's fold is a recursion over the subsets of the set,   *)
(* each without the element it chooses, so its facts are proved by         *)
(* induction over those subsets: a set of subsets that holds a set         *)
(* whenever it holds what is left of it, holds them all.                   *)
(***************************************************************************)
EXTENDS Totals, Folds, FiniteSetTheorems, WellFoundedInduction, TLAPS

SumsTo(f, S, tot) == IsFiniteSet(S) /\ SumOf(f, S) = tot

(* The element the fold takes next.                                        *)
Taken(T) == CHOOSE x \in T : TRUE

(* it is the fold over the subsets in D of a set.                          *)
IsFold(it, f, D) ==
    it = [T \in D |-> IF T = {} THEN 0 ELSE f[Taken(T)] + it[T \ {Taken(T)}]]

(* it is the fold over the subsets of S, and its value at S the sum.       *)
FoldsTo(it, f, S) ==
    /\ SumOf(f, S) = it[S]
    /\ it[{}] = 0
    /\ \A T \in SUBSET S :
          T # {} => it[T] = f[Taken(T)] + it[T \ {Taken(T)}]
-----------------------------------------------------------------------------
(* A set of numbers that is not empty has a least one.                     *)
LEMMA LeastElement ==
    ASSUME NEW T \in SUBSET Nat, T # {}
    PROVE  \E n \in T : \A m \in T : n <= m
<1> DEFINE R == OpToRel(<, Nat)
<1>1. IsWellFoundedOn(R, Nat)
    BY NatLessThanWellFounded, Zenon
<1>2. \A m, n \in Nat : m < n => <<m, n>> \in R
    BY DEF OpToRel
<1> HIDE DEF R
<1>3. PICK n \in T : \A m \in T : ~ (<<m, n>> \in R)
    BY <1>1, WFMin, Zenon
<1>4. ASSUME NEW m \in T
      PROVE  n <= m
    <2>1. m \in Nat /\ n \in Nat /\ ~ (m < n)
        BY <1>2, <1>3, Zenon
    <2> QED
        BY <2>1
<1> QED
    BY <1>4

(* Taking an element out of a finite set leaves one element fewer.         *)
LEMMA OneFewer ==
    ASSUME NEW S, IsFiniteSet(S), NEW T \in SUBSET S, T # {}
    PROVE  /\ Taken(T) \in T
           /\ T \ {Taken(T)} \in SUBSET S
           /\ Cardinality(T) \in Nat
           /\ Cardinality(T \ {Taken(T)}) \in Nat
           /\ Cardinality(T \ {Taken(T)}) = Cardinality(T) - 1
<1>1. Taken(T) \in T
    BY DEF Taken
<1>2. IsFiniteSet(T)
    BY FS_Subset
<1>3. /\ IsFiniteSet(T \ {Taken(T)})
      /\ Cardinality(T \ {Taken(T)}) = Cardinality(T) - 1
    BY <1>1, <1>2, FS_RemoveElement
<1>4. Cardinality(T) \in Nat /\ Cardinality(T \ {Taken(T)}) \in Nat
    BY <1>2, <1>3, FS_CardinalityType
<1> QED
    BY <1>1, <1>3, <1>4

(* What holds of the empty set, and of a set whenever it holds of what is  *)
(* left when its next element is taken, holds of all subsets of a finite   *)
(* set.                                                                    *)
LEMMA SubsetInduction ==
    ASSUME NEW S, IsFiniteSet(S), NEW G, {} \in G,
           \A T \in SUBSET S : T # {} /\ T \ {Taken(T)} \in G => T \in G
    PROVE  \A T \in SUBSET S : T \in G
<1> DEFINE B == {k \in Nat : \E T \in SUBSET S : Cardinality(T) = k /\ T \notin G}
<1>1. SUFFICES B = {}
    <2> SUFFICES ASSUME NEW T \in SUBSET S
                 PROVE  T \in G
        OBVIOUS
    <2>1. Cardinality(T) \in Nat
        BY FS_Subset, FS_CardinalityType
    <2> QED
        BY <1>1, <2>1
<1>2. SUFFICES ASSUME B # {}
               PROVE  FALSE
    OBVIOUS
<1>3. PICK k \in B : \A m \in B : k <= m
    BY <1>2, LeastElement, Zenon
<1>4. PICK T \in SUBSET S : Cardinality(T) = k /\ T \notin G
    OBVIOUS
<1>5. T # {} /\ T \ {Taken(T)} \notin G
    BY <1>4, Zenon
<1>6. Cardinality(T \ {Taken(T)}) \in B /\ ~ (k <= Cardinality(T \ {Taken(T)}))
    BY <1>4, <1>5, OneFewer
<1> QED
    BY <1>3, <1>6, Zenon

(* The fold is well defined on a finite set.                               *)
LEMMA FoldExists ==
    ASSUME NEW S, IsFiniteSet(S), NEW f
    PROVE  \E it : IsFold(it, f, SUBSET S)
<1> DEFINE UpTo(n) == {T \in SUBSET S : Cardinality(T) <= n}
           B == {n \in Nat : ~ \E it : IsFold(it, f, UpTo(n))}
<1>1. B = {}
    <2>1. SUFFICES ASSUME B # {}
                   PROVE  FALSE
        OBVIOUS
    <2>2. PICK n \in B : \A m \in B : n <= m
        BY <2>1, LeastElement, Zenon
    <2>3. CASE n = 0
        <3>1. \A T \in UpTo(0) : T = {}
            <4> SUFFICES ASSUME NEW T \in UpTo(0), T # {}
                         PROVE  FALSE
                OBVIOUS
            <4>1. T \in SUBSET S /\ T # {} /\ Cardinality(T) <= 0
                OBVIOUS
            <4> HIDE DEF UpTo
            <4>2. /\ Cardinality(T) \in Nat
                  /\ Cardinality(T \ {Taken(T)}) \in Nat
                  /\ Cardinality(T \ {Taken(T)}) = Cardinality(T) - 1
                BY <4>1, OneFewer
            <4> QED
                BY <4>1, <4>2
        <3>2. IsFold([T \in UpTo(0) |-> 0], f, UpTo(0))
            BY <3>1 DEF IsFold
        <3> QED
            BY <2>3, <3>2, Zenon
    <2>4. CASE n # 0
        <3>1. n - 1 \in Nat /\ n - 1 \notin B
            <4>1. n \in Nat /\ n - 1 \in Nat /\ ~ (n <= n - 1)
                BY <2>4
            <4> HIDE DEF B
            <4> QED
                BY <2>2, <4>1
        <3>2. PICK g : IsFold(g, f, UpTo(n - 1))
            BY <3>1
        <3> DEFINE h == [T \in UpTo(n) |->
                            IF T = {} THEN 0 ELSE f[Taken(T)] + g[T \ {Taken(T)}]]
        <3>3. ASSUME NEW T \in UpTo(n - 1)
              PROVE  T \in UpTo(n) /\ g[T] = h[T]
            <4>1. T \in UpTo(n)
                BY <3>1, FS_Subset, FS_CardinalityType
            <4>2. g[T] = IF T = {} THEN 0 ELSE f[Taken(T)] + g[T \ {Taken(T)}]
                BY <3>2, Zenon DEF IsFold
            <4> QED
                BY <4>1, <4>2
        <3>4. ASSUME NEW T \in UpTo(n), T # {}
              PROVE  T \ {Taken(T)} \in UpTo(n - 1)
            BY <3>1, <3>4, OneFewer
        <3>5. \A T \in UpTo(n) :
                  h[T] = IF T = {} THEN 0 ELSE f[Taken(T)] + h[T \ {Taken(T)}]
            <4> SUFFICES ASSUME NEW T \in UpTo(n)
                         PROVE  h[T] = IF T = {} THEN 0
                                       ELSE f[Taken(T)] + h[T \ {Taken(T)}]
                BY Zenon
            <4>1. h[T] = IF T = {} THEN 0 ELSE f[Taken(T)] + g[T \ {Taken(T)}]
                OBVIOUS
            <4>2. T # {} => g[T \ {Taken(T)}] = h[T \ {Taken(T)}]
                BY <3>3, <3>4, Zenon
            <4> HIDE DEF h
            <4> QED
                BY <4>1, <4>2
        <3>6. h = [T \in UpTo(n) |-> h[T]]
            OBVIOUS
        <3>7. IsFold(h, f, UpTo(n))
            <4> HIDE DEF h, UpTo
            <4> QED
                BY <3>5, <3>6, Zenon DEF IsFold
        <3> QED
            BY <3>7, Zenon
    <2> QED
        BY <2>3, <2>4
<1>2. Cardinality(S) \in Nat
    BY FS_CardinalityType
<1>3. UpTo(Cardinality(S)) = SUBSET S
    BY FS_Subset
<1> QED
    BY <1>1, <1>2, <1>3

(* The sum over a finite set is the fold at that set.                      *)
LEMMA SumIsFold ==
    ASSUME NEW S, IsFiniteSet(S), NEW f
    PROVE  \E it : FoldsTo(it, f, S)
<1> DEFINE it == CHOOSE it : IsFold(it, f, SUBSET S)
<1>1. SumOf(f, S) = it[S]
    BY DEF SumOf, MapThenSumSet, MapThenFoldSet, IsFold, Taken
<1>2. IsFold(it, f, SUBSET S)
    BY FoldExists, Zenon
<1> HIDE DEF it
<1>3. \A T \in SUBSET S :
          it[T] = IF T = {} THEN 0 ELSE f[Taken(T)] + it[T \ {Taken(T)}]
    BY <1>2, Zenon DEF IsFold
<1> QED
    BY <1>1, <1>3, Zenon DEF FoldsTo

(* The sum of zeros is zero.                                               *)
LEMMA SumOfZeros ==
    ASSUME NEW S, IsFiniteSet(S), NEW f \in [S -> Nat],
           \A x \in S : f[x] = 0
    PROVE  SumsTo(f, S, 0)
<1>1. PICK it : FoldsTo(it, f, S)
    BY SumIsFold
<1> DEFINE G == {T \in SUBSET S : it[T] = 0}
<1>2. {} \in G
    BY <1>1 DEF FoldsTo
<1>3. ASSUME NEW T \in SUBSET S, T # {}, T \ {Taken(T)} \in G
      PROVE  T \in G
    <2>1. f[Taken(T)] = 0
        BY <1>3, OneFewer
    <2> QED
        BY <1>1, <1>3, <2>1 DEF FoldsTo
<1>4. S \in G
    <2> HIDE DEF G
    <2> QED
        BY <1>2, <1>3, SubsetInduction
<1> QED
    BY <1>1, <1>4 DEF SumsTo, FoldsTo

(* A sum of natural numbers is one.                                        *)
LEMMA SumType ==
    ASSUME NEW S, IsFiniteSet(S), NEW f \in [S -> Nat]
    PROVE  SumOf(f, S) \in Nat
<1>1. PICK it : FoldsTo(it, f, S)
    BY SumIsFold
<1> DEFINE G == {T \in SUBSET S : it[T] \in Nat}
<1>2. {} \in G
    BY <1>1 DEF FoldsTo
<1>3. ASSUME NEW T \in SUBSET S, T # {}, T \ {Taken(T)} \in G
      PROVE  T \in G
    <2>1. f[Taken(T)] \in Nat
        BY <1>3, OneFewer
    <2>2. it[T] = f[Taken(T)] + it[T \ {Taken(T)}]
        BY <1>1, <1>3 DEF FoldsTo
    <2>3. it[T \ {Taken(T)}] \in Nat
        BY <1>3
    <2>4. it[T] \in Nat
        BY <2>1, <2>2, <2>3
    <2> QED
        BY <2>4
<1>4. S \in G
    <2> HIDE DEF G
    <2> QED
        BY <1>2, <1>3, SubsetInduction
<1> QED
    BY <1>1, <1>4 DEF FoldsTo

(* Changing one term of a sum of integers changes the sum by as much.      *)
LEMMA SumChange ==
    ASSUME NEW S, IsFiniteSet(S), NEW f \in [S -> Int], NEW h \in [S -> Int],
           NEW x \in S, \A y \in S \ {x} : h[y] = f[y]
    PROVE  SumOf(f, S) \in Int /\ SumOf(h, S) = SumOf(f, S) - f[x] + h[x]
<1>1. PICK a : FoldsTo(a, f, S)
    BY SumIsFold
<1>2. PICK b : FoldsTo(b, h, S)
    BY SumIsFold
<1> DEFINE Changed(T) == /\ a[T] \in Int
                         /\ x \in T => b[T] = a[T] - f[x] + h[x]
                         /\ x \notin T => b[T] = a[T]
           G == {T \in SUBSET S : Changed(T)}
<1>3. {} \in G
    BY <1>1, <1>2 DEF FoldsTo
<1>4. ASSUME NEW T \in SUBSET S, T # {}, T \ {Taken(T)} \in G
      PROVE  T \in G
    <2> DEFINE y == Taken(T)
               R == T \ {y}
    <2>1. a[T] = f[y] + a[R] /\ b[T] = h[y] + b[R]
        BY <1>1, <1>2, <1>4 DEF FoldsTo
    <2>2. Changed(R)
        BY <1>4
    <2>3. y \in T /\ R = T \ {y}
        BY <1>4, OneFewer, Zenon
    <2>4. f[y] \in Int /\ f[x] \in Int /\ h[x] \in Int
        BY <2>3
    <2> HIDE DEF y, R
    <2>5. CASE y = x
        BY <2>1, <2>2, <2>3, <2>4, <2>5
    <2>6. CASE y # x
        <3>1. h[y] = f[y] /\ (x \in R <=> x \in T)
            BY <2>3, <2>6
        <3> QED
            BY <2>1, <2>2, <2>3, <2>4, <3>1
    <2> QED
        BY <2>5, <2>6
<1>5. S \in G
    <2> HIDE DEF G
    <2> QED
        BY <1>3, <1>4, SubsetInduction
<1> QED
    BY <1>1, <1>2, <1>5 DEF FoldsTo

(* A term of a sum of natural numbers is at most the sum.                  *)
LEMMA TermAtMostSum ==
    ASSUME NEW S, IsFiniteSet(S), NEW f \in [S -> Nat], NEW x \in S
    PROVE  f[x] <= SumOf(f, S)
<1> DEFINE g == [y \in S |-> IF y = x THEN 0 ELSE f[y]]
<1>1. g \in [S -> Nat] /\ g[x] = 0 /\ \A y \in S \ {x} : g[y] = f[y]
    OBVIOUS
<1> HIDE DEF g
<1>2. f \in [S -> Int] /\ g \in [S -> Int]
    BY <1>1
<1>3. SumOf(g, S) = SumOf(f, S) - f[x] + g[x]
    BY <1>1, <1>2, SumChange
<1>4. SumOf(g, S) \in Nat /\ SumOf(f, S) \in Nat /\ f[x] \in Nat
    BY <1>1, SumType
<1> QED
    BY <1>1, <1>3, <1>4

(* One term of a sum is at most the sum, and changing it changes the sum   *)
(* by as much.                                                             *)
LEMMA SumUpdate ==
    ASSUME NEW S, NEW f \in [S -> Nat], NEW tot \in Nat, SumsTo(f, S, tot),
           NEW x \in S, NEW v \in Nat, NEW h \in [S -> Nat],
           h[x] = v, \A y \in S \ {x} : h[y] = f[y]
    PROVE  f[x] <= tot /\ SumsTo(h, S, tot - f[x] + v)
<1>1. IsFiniteSet(S) /\ SumOf(f, S) = tot
    BY DEF SumsTo
<1>2. f \in [S -> Int] /\ h \in [S -> Int]
    OBVIOUS
<1>3. SumOf(h, S) = SumOf(f, S) - f[x] + h[x]
    BY <1>1, <1>2, SumChange
<1>4. f[x] <= SumOf(f, S)
    BY <1>1, TermAtMostSum
<1> QED
    BY <1>1, <1>3, <1>4 DEF SumsTo

(* Moving n from one element to another, or to itself, keeps the sum.      *)
LEMMA SumMove ==
    ASSUME NEW S, NEW f \in [S -> Nat], NEW tot \in Nat, SumsTo(f, S, tot),
           NEW p \in S, NEW q \in S, NEW n \in Nat, n <= f[p],
           NEW h \in [S -> Nat],
           p = q => h[p] = f[p],
           p # q => h[p] = f[p] - n /\ h[q] = f[q] + n,
           \A x \in S \ {p, q} : h[x] = f[x]
    PROVE  SumsTo(h, S, tot) /\ h[q] <= tot
<1> DEFINE g == [x \in S |-> IF x = p THEN f[p] - n ELSE f[x]]
<1>1. f[p] \in Nat /\ f[p] - n \in Nat
    OBVIOUS
<1>2. g \in [S -> Nat] /\ g[p] = f[p] - n /\ \A x \in S \ {p} : g[x] = f[x]
    BY <1>1
<1> HIDE DEF g
<1>3. f[p] <= tot /\ SumsTo(g, S, tot - f[p] + (f[p] - n))
    BY <1>1, <1>2, SumUpdate
<1>4. tot - n \in Nat /\ tot - f[p] + (f[p] - n) = tot - n
    BY <1>1, <1>3
<1>5. g[q] \in Nat /\ g[q] + n \in Nat
    BY <1>2
<1>6. h[q] = g[q] + n /\ \A x \in S \ {q} : h[x] = g[x]
    BY <1>1, <1>2
<1>7. g[q] <= tot - n /\ SumsTo(h, S, tot - n - g[q] + (g[q] + n))
    BY <1>2, <1>3, <1>4, <1>5, <1>6, SumUpdate, Zenon
<1>8. tot - n - g[q] + (g[q] + n) = tot
    BY <1>4, <1>5
<1> QED
    BY <1>4, <1>5, <1>6, <1>7, <1>8
=============================================================================
