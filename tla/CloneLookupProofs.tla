-------------------------- MODULE CloneLookupProofs --------------------------
(***************************************************************************)
(* Facts about the searches of CloneLookup, for every finite set of clone  *)
(* times, and the ones they rest on: a finite set of times has an earliest *)
(* and a latest one, counting up to n reaches n, times that keep apart are *)
(* few in a window, and the fold that models a loop over a list ends in    *)
(* the last of the states the loop goes through.                           *)
(***************************************************************************)
EXTENDS CloneLookup, FiniteSetTheorems, WellFoundedInduction, TLAPS

-----------------------------------------------------------------------------
(* The earliest and the latest time of a finite set *)

\* A finite, nonempty set of integers has a least element: the one with the fewest
\* elements up to itself, which exists because strict inclusion is well founded.
LEMMA LeastOfFinite ==
    ASSUME NEW S \in SUBSET Int, IsFiniteSet(S), S # {}
    PROVE  \E x \in S : \A y \in S : x <= y
<1> DEFINE upTo(x) == {y \in S : y <= x}
           T == {upTo(x) : x \in S}
<1>1. IsWellFoundedOn(StrictSubsetOrdering(S), SUBSET S)
  BY FS_StrictSubsetOrderingWellFounded, FS_FiniteSubsetsOfFinite
<1>2. T \subseteq SUBSET S /\ T # {}
  OBVIOUS
<1>3. PICK B \in T : \A A \in T : ~(<<A, B>> \in StrictSubsetOrdering(S))
  <2> HIDE DEF T
  <2> QED BY <1>1, <1>2, WFMin
<1>4. PICK x \in S : B = upTo(x)
  OBVIOUS
<1>5. ASSUME NEW y \in S PROVE x <= y
  <2> SUFFICES ASSUME y < x PROVE FALSE
    OBVIOUS
  <2>1. upTo(y) \subseteq upTo(x) /\ upTo(y) # upTo(x)
    <3>1. x \in upTo(x) /\ x \notin upTo(y)
      OBVIOUS
    <3>2. \A z \in S : z <= y => z <= x
      OBVIOUS
    <3> QED BY <3>1, <3>2
  <2>2. upTo(y) \in T /\ upTo(y) \in SUBSET S /\ upTo(x) \in SUBSET S
    OBVIOUS
  <2>3. <<upTo(y), upTo(x)>> \in StrictSubsetOrdering(S)
    <3> HIDE DEF upTo
    <3> QED BY <2>1, <2>2 DEF StrictSubsetOrdering
  <2> QED BY <1>3, <1>4, <2>2, <2>3
<1> QED BY <1>5

\* What Min returns.
LEMMA MinOfFinite ==
    ASSUME NEW S \in SUBSET Int, IsFiniteSet(S), S # {}
    PROVE  Min(S) \in S /\ \A y \in S : Min(S) <= y
BY LeastOfFinite DEF Min

\* What Max returns: the least element of the negated set, negated.
LEMMA MaxOfFinite ==
    ASSUME NEW S \in SUBSET Int, IsFiniteSet(S), S # {}
    PROVE  Max(S) \in S /\ \A y \in S : y <= Max(S)
<1> DEFINE N == {-y : y \in S}
           f == [y \in S |-> -y]
<1>1. f \in Surjection(S, N)
  BY DEF Surjection
<1>2. IsFiniteSet(N)
  <2> HIDE DEF f, N
  <2> QED BY <1>1, FS_Surjection
<1>3. N \in SUBSET Int /\ N # {}
  OBVIOUS
<1>4. PICK n \in N : \A k \in N : n <= k
  <2> HIDE DEF N
  <2> QED BY <1>2, <1>3, LeastOfFinite
<1>5. PICK x \in S : n = -x
  OBVIOUS
<1>6. \A y \in S : x >= y
  <2> TAKE y \in S
  <2>1. n <= -y /\ x \in Int /\ y \in Int
    BY <1>4
  <2> QED BY <1>5, <2>1
<1>7. Max(S) \in S /\ \A y \in S : Max(S) >= y
  BY <1>6 DEF Max
<1>8. \A y \in S : y \in Int
  OBVIOUS
<1> QED BY <1>7, <1>8

\* What Max returns of a single time.
LEMMA MaxOfOne == ASSUME NEW t \in Int PROVE Max({t}) = t
BY DEF Max

-----------------------------------------------------------------------------
(* Counting and folding *)

\* What Max returns of the first times there are.
LEMMA MaxOfFirst == ASSUME NEW n \in Nat \ {0} PROVE Max(1 .. n) = n
BY DEF Max

\* Counting up from zero, a set that has 0, and i whenever it has i - 1, has all of 0 .. n:
\* a number it misses would have a least one.
LEMMA CountUp ==
    ASSUME NEW n \in Nat, NEW Q, 0 \in Q, \A i \in 1 .. n : i - 1 \in Q => i \in Q
    PROVE  \A i \in 0 .. n : i \in Q
<1> DEFINE missed == (0 .. n) \ Q
<1> SUFFICES ASSUME missed # {} PROVE FALSE
  OBVIOUS
<1>1. IsFiniteSet(missed) /\ missed \in SUBSET Int
  <2>1. IsFiniteSet(0 .. n)
    BY FS_Interval
  <2> QED BY <2>1, FS_Subset
<1>2. PICK i \in missed : \A j \in missed : i <= j
  <2> HIDE DEF missed
  <2> QED BY <1>1, LeastOfFinite
<1>3. i \in 1 .. n /\ i - 1 \in 0 .. n
  OBVIOUS
<1>4. i - 1 \notin missed
  BY <1>2, <1>3
<1> QED BY <1>3, <1>4

\* g is the recursive function of MapThenFoldSet that takes the greatest index away at each
\* turn, over states of T: step[i] is the i-th turn of the loop.
IsFold(g, n, T, base, step) ==
    /\ g \in [SUBSET (1 .. n) -> T]
    /\ g[{}] = base
    /\ \A S \in SUBSET (1 .. n) :
          S # {} => Max(S) \in S /\ g[S] = step[Max(S)][g[S \ {Max(S)}]]

\* h satisfies the equation of such a function wherever its value before the turn is a state.
Unfolds(h, n, T, base, step) ==
    /\ h[{}] = base
    /\ \A S \in SUBSET (1 .. n) :
          S # {} /\ h[S \ {Max(S)}] \in T => h[S] = step[Max(S)][h[S \ {Max(S)}]]

\* The states the loop goes through.
IsRun(run, n, T, base, step) ==
    /\ run \in [0 .. n -> T]
    /\ run[0] = base
    /\ \A i \in 1 .. n : run[i] = step[i][run[i - 1]]

\* The recursive function behind MapThenFoldSet, which takes the greatest index away at
\* each turn, exists on the subsets of 1 .. n, so that its equation holds of it.
LEMMA FoldExists ==
    ASSUME NEW n \in Nat, NEW T, NEW base \in T, NEW step \in [1 .. n -> [T -> T]]
    PROVE  \E g : IsFold(g, n, T, base, step)
<1> DEFINE Small(k) == {S \in SUBSET (1 .. n) : Cardinality(S) <= k}
           Runs(k, g) == \A S \in Small(k) :
                            g[S] = IF S = {} THEN base ELSE step[Max(S)][g[S \ {Max(S)}]]
           Q == {k \in 0 .. n : \E g \in [Small(k) -> T] : Runs(k, g)}
<1>1. ASSUME NEW S \in SUBSET (1 .. n)
      PROVE  /\ IsFiniteSet(S) /\ Cardinality(S) \in 0 .. n
             /\ (S = {}) <=> (Cardinality(S) = 0)
             /\ S # {} => Max(S) \in S /\ Cardinality(S \ {Max(S)}) = Cardinality(S) - 1
  <2>1. IsFiniteSet(1 .. n) /\ Cardinality(1 .. n) = n
    <3>1. /\ IsFiniteSet(1 .. n)
          /\ Cardinality(1 .. n) = IF 1 > n THEN 0 ELSE n - 1 + 1
      BY FS_Interval
    <3> QED BY <3>1
  <2>2. IsFiniteSet(S) /\ Cardinality(S) <= n
    <3>1. IsFiniteSet(S) /\ Cardinality(S) <= Cardinality(1 .. n)
      BY <2>1, FS_Subset
    <3> QED BY <2>1, <3>1
  <2>3. Cardinality(S) \in Nat /\ ((S = {}) <=> (Cardinality(S) = 0))
    BY <2>2, FS_CardinalityType, FS_EmptySet
  <2>4. S # {} => Max(S) \in S
    BY <2>2, MaxOfFinite
  <2>5. S # {} => Cardinality(S \ {Max(S)}) = Cardinality(S) - 1
    BY <2>2, <2>4, FS_RemoveElement
  <2> QED BY <2>2, <2>3, <2>4, <2>5
<1>2. 0 \in Q
  <2>1. \A S \in SUBSET (1 .. n) : S \in Small(0) <=> S = {}
    <3> SUFFICES ASSUME NEW S \in SUBSET (1 .. n) PROVE S \in Small(0) <=> S = {}
      OBVIOUS
    <3>1. Cardinality(S) \in 0 .. n /\ ((S = {}) <=> (Cardinality(S) = 0))
      BY <1>1
    <3> QED BY <3>1
  <2> DEFINE g == [S \in Small(0) |-> base]
  <2>2. g \in [Small(0) -> T] /\ Runs(0, g)
    BY <2>1
  <2>3. 0 \in 0 .. n
    OBVIOUS
  <2> HIDE DEF g, Small, Runs
  <2> QED BY <2>2, <2>3
<1>3. ASSUME NEW k \in 1 .. n, k - 1 \in Q PROVE k \in Q
  <2>1. PICK g \in [Small(k - 1) -> T] : Runs(k - 1, g)
    BY <1>3
  <2> DEFINE h == [S \in Small(k) |-> IF S = {} THEN base ELSE step[Max(S)][g[S \ {Max(S)}]]]
  <2>2. ASSUME NEW S \in Small(k), S # {} PROVE S \ {Max(S)} \in Small(k - 1) /\ Max(S) \in 1 .. n
    <3>1. S \in SUBSET (1 .. n) /\ Cardinality(S) <= k
      OBVIOUS
    <3>2. Max(S) \in S /\ Cardinality(S \ {Max(S)}) = Cardinality(S) - 1 /\ Cardinality(S) \in 0 .. n
      <4> HIDE DEF Small
      <4> QED BY <2>2, <3>1, <1>1
    <3>3. Cardinality(S \ {Max(S)}) <= k - 1
      BY <3>1, <3>2
    <3> QED BY <3>1, <3>2, <3>3
  <2>3. ASSUME NEW S \in Small(k - 1) PROVE S \in Small(k)
    <3>1. S \in SUBSET (1 .. n) /\ Cardinality(S) <= k - 1
      OBVIOUS
    <3>2. Cardinality(S) \in 0 .. n
      BY <1>1, <3>1
    <3> QED BY <3>1, <3>2
  <2>4. \A S \in Small(k - 1) : h[S] = g[S]
    BY <2>1, <2>3
  <2>5. h \in [Small(k) -> T]
    <3> HIDE DEF Small
    <3> QED BY <2>2
  <2>6. Runs(k, h)
    <3> HIDE DEF Small
    <3> SUFFICES ASSUME NEW S \in Small(k), S # {}
                 PROVE  h[S] = step[Max(S)][h[S \ {Max(S)}]]
      OBVIOUS
    <3>1. h[S \ {Max(S)}] = g[S \ {Max(S)}]
      <4> HIDE DEF h
      <4> QED BY <2>2, <2>4
    <3> QED BY <3>1
  <2>7. k \in 0 .. n
    OBVIOUS
  <2> HIDE DEF h, Small, Runs
  <2> QED BY <2>5, <2>6, <2>7
<1>4. n \in Q
  <2> HIDE DEF Q
  <2>1. \A i \in 0 .. n : i \in Q
    BY <1>2, <1>3, CountUp
  <2> QED BY <2>1
<1>5. PICK g \in [Small(n) -> T] : Runs(n, g)
  BY <1>4
<1>6. \A S \in SUBSET (1 .. n) : S \in Small(n)
  <2> TAKE S \in SUBSET (1 .. n)
  <2>1. Cardinality(S) \in 0 .. n
    BY <1>1
  <2> QED BY <2>1
<1>7. Small(n) = SUBSET (1 .. n)
  BY <1>6
<1>8. g[{}] = base /\ \A S \in SUBSET (1 .. n) : S # {} => g[S] = step[Max(S)][g[S \ {Max(S)}]]
  BY <1>5, <1>6
<1>9. \A S \in SUBSET (1 .. n) : S # {} => Max(S) \in S
  BY <1>1
<1> HIDE DEF Small
<1> QED BY <1>5, <1>7, <1>8, <1>9 DEF IsFold

\* The states a loop over 1 .. n goes through, and its last one, from the function h that
\* MapThenFoldSet defines: h of the first i indices is the state after i turns.
LEMMA FoldSteps ==
    ASSUME NEW n \in Nat, NEW T, NEW base \in T, NEW step \in [1 .. n -> [T -> T]],
           NEW h, Unfolds(h, n, T, base, step)
    PROVE  \E run : IsRun(run, n, T, base, step) /\ run[n] = h[1 .. n]
<1> DEFINE run == [i \in 0 .. n |-> h[1 .. i]]
           Q == {i \in 0 .. n : run[i] \in T}
<1>1. run[0] = base
  <2>1. 1 .. 0 = {} /\ 0 \in 0 .. n
    OBVIOUS
  <2> QED BY <2>1 DEF Unfolds
<1>2. ASSUME NEW i \in 1 .. n, run[i - 1] \in T PROVE run[i] = step[i][run[i - 1]]
  <2>1. Max(1 .. i) = i /\ (1 .. i) \ {i} = 1 .. (i - 1) /\ 1 .. i # {} /\ (1 .. i) \in SUBSET (1 .. n)
    BY MaxOfFirst
  <2>2. run[i] = h[1 .. i] /\ run[i - 1] = h[1 .. (i - 1)]
    OBVIOUS
  <2>3. h[(1 .. i) \ {Max(1 .. i)}] = run[i - 1]
    <3> HIDE DEF run
    <3> QED BY <2>1, <2>2
  <2>4. h[1 .. i] = step[Max(1 .. i)][h[(1 .. i) \ {Max(1 .. i)}]]
    <3> HIDE DEF run
    <3> QED BY <1>2, <2>1, <2>3 DEF Unfolds
  <2> HIDE DEF run
  <2> QED BY <2>1, <2>2, <2>3, <2>4
<1>3. ASSUME NEW i \in 1 .. n, i - 1 \in Q PROVE i \in Q
  <2>1. run[i - 1] \in T
    BY <1>3
  <2>2. run[i] = step[i][run[i - 1]]
    BY <1>2, <2>1
  <2> HIDE DEF run
  <2> QED BY <2>1, <2>2
<1>4. \A i \in 0 .. n : run[i] \in T
  <2>1. 0 \in Q
    <3> HIDE DEF run
    <3> QED BY <1>1
  <2> HIDE DEF Q
  <2>2. \A i \in 0 .. n : i \in Q
    BY <1>3, <2>1, CountUp
  <2> QED BY <2>2 DEF Q
<1>5. run \in [0 .. n -> T]
  BY <1>4
<1>6. \A i \in 1 .. n : run[i] = step[i][run[i - 1]]
  <2> TAKE i \in 1 .. n
  <2>1. i - 1 \in 0 .. n
    OBVIOUS
  <2> HIDE DEF run
  <2>2. run[i - 1] \in T
    BY <1>4, <2>1
  <2> QED BY <1>2, <2>2
<1>7. run[n] = h[1 .. n]
  OBVIOUS
<1> HIDE DEF run
<1> QED BY <1>1, <1>5, <1>6, <1>7 DEF IsRun

-----------------------------------------------------------------------------
(* The clones in their order *)

\* How many of S are older than c.
Rank(S, c) == Cardinality({d \in S : d < c})

\* Older clones have smaller ranks, and there are as many ranks as clones.
LEMMA RankOrders ==
    ASSUME NEW S \in SUBSET Int, IsFiniteSet(S)
    PROVE  /\ \A c \in S : Rank(S, c) \in 0 .. Cardinality(S) - 1
           /\ \A c, d \in S : c < d <=> Rank(S, c) < Rank(S, d)
<1>1. ASSUME NEW c \in S, NEW d \in S, c < d PROVE Rank(S, c) < Rank(S, d)
  <2> DEFINE C == {e \in S : e < c}
             D == {e \in S : e < d}
  <2>1. IsFiniteSet(D) /\ C \in SUBSET D /\ c \in D /\ c \notin C
    <3>1. D \in SUBSET S
      OBVIOUS
    <3>2. IsFiniteSet(D)
      <4> HIDE DEF D
      <4> QED BY <3>1, FS_Subset
    <3>3. \A e \in S : e < c => e < d
      BY <1>1
    <3>4. C \in SUBSET D
      BY <3>3
    <3> QED BY <1>1, <3>2, <3>4
  <2>2. Cardinality(C) <= Cardinality(D) /\ Cardinality(C) # Cardinality(D) /\ IsFiniteSet(C)
    <3> HIDE DEF C, D
    <3> QED BY <2>1, FS_Subset
  <2>3. Cardinality(C) \in Nat /\ Cardinality(D) \in Nat
    <3> HIDE DEF C, D
    <3> QED BY <2>1, <2>2, FS_CardinalityType
  <2> QED BY <2>2, <2>3 DEF Rank
<1>2. ASSUME NEW c \in S PROVE Rank(S, c) \in 0 .. Cardinality(S) - 1
  <2> DEFINE C == {e \in S : e < c}
  <2>1. C \in SUBSET S /\ c \in S /\ c \notin C
    OBVIOUS
  <2>2. IsFiniteSet(C) /\ Cardinality(C) <= Cardinality(S) /\ Cardinality(C) # Cardinality(S)
    <3> HIDE DEF C
    <3> QED BY <2>1, FS_Subset
  <2>3. Cardinality(C) \in Nat /\ Cardinality(S) \in Nat
    <3> HIDE DEF C
    <3> QED BY <2>2, FS_CardinalityType
  <2> QED BY <2>2, <2>3 DEF Rank
<1>3. ASSUME NEW c \in S, NEW d \in S, Rank(S, c) < Rank(S, d) PROVE c < d
  <2>1. c < d \/ c = d \/ d < c
    OBVIOUS
  <2>2. Rank(S, c) \in Int /\ Rank(S, d) \in Int
    BY <1>2
  <2> QED BY <1>1, <1>3, <2>1, <2>2
<1> QED BY <1>1, <1>2, <1>3

\* Every rank belongs to a clone.
LEMMA RankTaken ==
    ASSUME NEW S \in SUBSET Int, IsFiniteSet(S), NEW r \in 0 .. Cardinality(S) - 1
    PROVE  \E c \in S : Rank(S, c) = r
<1> DEFINE n == Cardinality(S)
           T == 0 .. n - 1
           rank == [c \in S |-> Rank(S, c)]
<1>1. n \in Nat
  BY FS_CardinalityType
<1>2. IsFiniteSet(T) /\ Cardinality(T) = n
  <2> HIDE DEF n
  <2>1. IsFiniteSet(0 .. n - 1) /\ Cardinality(0 .. n - 1) = IF 0 > n - 1 THEN 0 ELSE n - 1 - 0 + 1
    <3>1. n - 1 \in Int
      BY <1>1
    <3> QED BY <3>1, FS_Interval
  <2> QED BY <1>1, <2>1
<1>3. rank \in Injection(S, T)
  <2>1. rank \in [S -> T]
    BY RankOrders
  <2>2. ASSUME NEW c \in S, NEW d \in S, rank[c] = rank[d] PROVE c = d
    <3>1. Rank(S, c) = Rank(S, d)
      BY <2>2
    <3>2. ~(c < d) /\ ~(d < c)
      <4>1. Rank(S, c) \in Int
        BY RankOrders
      <4> QED BY <3>1, <4>1, RankOrders
    <3> QED BY <3>2
  <2> HIDE DEF rank
  <2> QED BY <2>1, <2>2 DEF Injection, IsInjective
<1>4. rank \in Surjection(S, T)
  <2> HIDE DEF rank, T
  <2> QED BY <1>2, <1>3, FS_Injection
<1>5. PICK c \in S : rank[c] = r
  <2> HIDE DEF rank
  <2> QED BY <1>4 DEF Surjection
<1> QED BY <1>5

\* The list of the clones in the map's order.
LEMMA AscendingLists ==
    ASSUME NEW S \in SUBSET Int, IsFiniteSet(S)
    PROVE  /\ Cardinality(S) \in Nat
           /\ Ascending(S) \in [1 .. Cardinality(S) -> S]
           /\ Len(Ascending(S)) = Cardinality(S)
           /\ \A i \in 1 .. Cardinality(S) : Rank(S, Ascending(S)[i]) = i - 1
           /\ \A c \in S : Ascending(S)[Rank(S, c) + 1] = c
           /\ \A i, j \in 1 .. Cardinality(S) : i < j <=> Ascending(S)[i] < Ascending(S)[j]
<1> DEFINE n == Cardinality(S)
           seq == Ascending(S)
<1>1. n \in Nat
  BY FS_CardinalityType
<1>2. seq = [i \in 1 .. n |-> CHOOSE c \in S : Rank(S, c) = i - 1]
  BY DEF Ascending, Rank
<1> HIDE DEF seq
<1>3. ASSUME NEW i \in 1 .. n PROVE seq[i] \in S /\ Rank(S, seq[i]) = i - 1
  <2>1. \E c \in S : Rank(S, c) = i - 1
    <3>1. i - 1 \in 0 .. n - 1
      BY <1>1
    <3> QED BY <3>1, RankTaken
  <2> QED BY <1>2, <2>1
<1>4. seq \in [1 .. n -> S]
  BY <1>2, <1>3
<1>5. Len(seq) = n
  <2> HIDE DEF n
  <2> QED BY <1>1, <1>4
<1>6. ASSUME NEW c \in S PROVE seq[Rank(S, c) + 1] = c
  <2>1. Rank(S, c) + 1 \in 1 .. n
    <3>1. Rank(S, c) \in 0 .. n - 1
      BY RankOrders
    <3> QED BY <1>1, <3>1
  <2> DEFINE d == seq[Rank(S, c) + 1]
  <2>2. d \in S /\ Rank(S, d) = Rank(S, c)
    <3>1. Rank(S, c) \in 0 .. n - 1
      BY RankOrders
    <3> QED BY <1>3, <2>1, <3>1
  <2> HIDE DEF d
  <2>3. ~(c < d) /\ ~(d < c)
    <3>1. Rank(S, c) \in Int
      BY RankOrders
    <3> QED BY <2>2, <3>1, RankOrders
  <2>4. d = c
    BY <2>2, <2>3
  <2> QED BY <2>4 DEF d
<1>7. \A i, j \in 1 .. n : i < j <=> seq[i] < seq[j]
  <2> TAKE i, j \in 1 .. n
  <2>1. seq[i] < seq[j] <=> Rank(S, seq[i]) < Rank(S, seq[j])
    BY <1>3, RankOrders
  <2> QED BY <1>3, <2>1
<1> QED BY <1>1, <1>3, <1>4, <1>5, <1>6, <1>7 DEF seq

\* The closest clone the scan ends with is one of the clones, whatever the uninitialized
\* distance it starts from.
LEMMA ScanFinds ==
    ASSUME NEW S \in SUBSET Int, IsFiniteSet(S), NEW t \in Int, NEW garbage \in Int
    PROVE  Scan(S, t, garbage) \subseteq S
<1> DEFINE n == Cardinality(S)
           seq == Ascending(S)
           T == [at : SUBSET S, diff : Int]
           base == [at |-> {}, diff |-> 0]
           turn(best, c) ==
              IF best.at = {} THEN [at |-> {c}, diff |-> Gap(garbage, c)]
              ELSE IF Gap(t, c) < best.diff
              THEN [at |-> {c}, diff |-> Gap(CHOOSE b \in best.at : TRUE, c)]
              ELSE best
           step == [i \in 1 .. n |-> [best \in T |-> turn(best, seq[i])]]
<1>1. n \in Nat /\ DOMAIN seq = 1 .. n /\ \A i \in 1 .. n : seq[i] \in S
  BY AscendingLists
<1>2. base \in T
  OBVIOUS
<1>3. ASSUME NEW best \in T, NEW c \in S PROVE turn(best, c) \in T
  <2>1. \A a, b \in Int : Gap(a, b) \in Int
    BY DEF Gap
  <2>2. CASE best.at = {}
    BY <2>1, <2>2
  <2>3. CASE best.at # {}
    <3>1. (CHOOSE b \in best.at : TRUE) \in Int
      BY <2>3
    <3> QED BY <2>1, <2>3, <3>1
  <2> QED BY <2>2, <2>3
<1> HIDE DEF turn, T, base, seq, n
<1>4. step \in [1 .. n -> [T -> T]]
  BY <1>1, <1>3
<1>5. PICK g : IsFold(g, n, T, base, step)
  <2> HIDE DEF step
  <2> QED BY <1>1, <1>2, <1>4, FoldExists
<1>6. g = [R \in SUBSET (1 .. n) |-> IF R = {} THEN base ELSE turn(g[R \ {Max(R)}], seq[Max(R)])]
  <2>1. \A R \in SUBSET (1 .. n) : R # {} => g[R] = turn(g[R \ {Max(R)}], seq[Max(R)])
    BY <1>5 DEF IsFold
  <2> QED BY <1>5, <2>1 DEF IsFold
<1>7. PICK h :
         /\ h = [R \in SUBSET (1 .. n) |-> IF R = {} THEN base ELSE turn(h[R \ {Max(R)}], seq[Max(R)])]
         /\ Scan(S, t, garbage) = h[1 .. n].at
  BY <1>1, <1>6 DEF Scan, FoldLeft, MapThenFoldSet, turn, base, seq
<1>8. Unfolds(h, n, T, base, step)
  BY <1>5, <1>7 DEF IsFold, Unfolds
<1>9. PICK run : IsRun(run, n, T, base, step) /\ run[n] = h[1 .. n]
  <2> HIDE DEF step
  <2> QED BY <1>1, <1>2, <1>4, <1>8, FoldSteps
<1>10. h[1 .. n] \in T
  BY <1>1, <1>9 DEF IsRun
<1> QED BY <1>7, <1>10 DEF T

\* So is what the search for the closest clone returns, of all the ways it may go.
LEMMA ClosestIsClone ==
    ASSUME NEW S \in SUBSET Int, IsFiniteSet(S), NEW t \in Int
    PROVE  ClosestNotImu(S, t) \subseteq S
<1>1. CASE S = {}
  BY <1>1 DEF ClosestNotImu
<1>2. CASE S # {}
  <2>1. Min(S) \in Int
    BY <1>2, MinOfFinite
  <2>2. ASSUME NEW d \in Int PROVE Scan(S, t, Min(S) - d) \subseteq S
    <3>1. Min(S) - d \in Int
      BY <2>1
    <3> QED BY <3>1, ScanFinds
  <2> DEFINE gaps == {Gap(t, c) : c \in S}
             gap == [c \in S |-> Gap(t, c)]
  <2>3. Max(gaps) \in Int
    <3>1. gap \in Surjection(S, gaps)
      BY DEF Surjection
    <3>2. IsFiniteSet(gaps)
      <4> HIDE DEF gap, gaps
      <4> QED BY <3>1, FS_Surjection
    <3>3. gaps \in SUBSET Int /\ gaps # {}
      <4>1. \A c \in S : Gap(t, c) \in Int
        BY DEF Gap
      <4> QED BY <1>2, <4>1
    <3> HIDE DEF gaps
    <3> QED BY <3>2, <3>3, MaxOfFinite
  <2>4. \A d \in 0 .. 1 + Max(gaps) : d \in Int
    <3> HIDE DEF gaps
    <3> QED BY <2>3
  <2>5. ClosestNotImu(S, t) = UNION {Scan(S, t, Min(S) - d) : d \in 0 .. 1 + Max(gaps)}
    BY <1>2 DEF ClosestNotImu
  <2> HIDE DEF gaps
  <2> QED BY <2>2, <2>4, <2>5
<1> QED BY <1>1, <1>2

-----------------------------------------------------------------------------
(* Runs of neighbouring clones *)

\* P is a run of neighbours in S: no element of S between two of P is missing.
Unbroken(P, S) == P \subseteq S /\ \A c \in S : (\E a \in P : a <= c) /\ (\E b \in P : c <= b) => c \in P

\* How many of S are newer than c.
Newer(S, c) == Cardinality({d \in S : d > c})

\* The clones newer than c are those that are neither older nor c itself.
LEMMA NewerCount ==
    ASSUME NEW S \in SUBSET Int, IsFiniteSet(S), NEW c \in S
    PROVE  Newer(S, c) = Cardinality(S) - Rank(S, c) - 1
<1> DEFINE older == {d \in S : d < c}
<1>1. IsFiniteSet(S \ older) /\ Cardinality(S \ older) = Cardinality(S) - Cardinality(S \cap older)
  BY FS_Difference
<1>2. S \cap older = older /\ {d \in S : d > c} = (S \ older) \ {c} /\ c \in S \ older
  <2>1. \A d \in S : d > c <=> ~(d < c) /\ d # c
    OBVIOUS
  <2>2. ~(c < c)
    OBVIOUS
  <2> QED BY <2>1, <2>2
<1>3. Cardinality((S \ older) \ {c}) = Cardinality(S \ older) - 1
  <2> HIDE DEF older
  <2> QED BY <1>1, <1>2, FS_RemoveElement
<1> QED BY <1>1, <1>2, <1>3 DEF Newer, Rank

\* The clones between t and c are those older than c that are neither older than t nor t.
LEMMA BetweenCount ==
    ASSUME NEW S \in SUBSET Int, IsFiniteSet(S), NEW t \in S, NEW c \in S, t < c
    PROVE  Cardinality({d \in S : t < d /\ d < c}) = Rank(S, c) - Rank(S, t) - 1
<1> DEFINE older == {d \in S : d < t}
           toC == {d \in S : d < c}
<1>1. IsFiniteSet(toC)
  <2>1. toC \in SUBSET S
    OBVIOUS
  <2> HIDE DEF toC
  <2> QED BY <2>1, FS_Subset
<1>2. IsFiniteSet(toC \ older) /\ Cardinality(toC \ older) = Cardinality(toC) - Cardinality(toC \cap older)
  <2> HIDE DEF toC, older
  <2> QED BY <1>1, FS_Difference
<1>3. toC \cap older = older /\ {d \in S : t < d /\ d < c} = (toC \ older) \ {t} /\ t \in toC \ older
  <2>1. \A d \in S : t < d <=> ~(d < t) /\ d # t
    OBVIOUS
  <2>2. \A d \in S : d < t => d < c
    OBVIOUS
  <2>3. ~(t < t)
    OBVIOUS
  <2> QED BY <2>1, <2>2, <2>3
<1>4. Cardinality((toC \ older) \ {t}) = Cardinality(toC \ older) - 1
  <2> HIDE DEF toC, older
  <2> QED BY <1>2, <1>3, FS_RemoveElement
<1> QED BY <1>2, <1>3, <1>4 DEF Rank

\* Consecutive entries of the list are a run, with the first of them as its oldest.
LEMMA ConsecutiveRun ==
    ASSUME NEW S \in SUBSET Int, IsFiniteSet(S), NEW n \in Nat, NEW a \in Int, 1 <= a, a + n <= Cardinality(S)
    PROVE  LET P == {Ascending(S)[j] : j \in a .. a + n}
           IN  /\ Unbroken(P, S) /\ Cardinality(P) = n + 1
               /\ Ascending(S)[a] \in P /\ \A c \in P : Ascending(S)[a] <= c
<1> DEFINE len == Cardinality(S)
           seq == Ascending(S)
           P == {seq[j] : j \in a .. a + n}
           f == [j \in a .. a + n |-> seq[j]]
<1>1. /\ len \in Nat /\ seq \in [1 .. len -> S]
      /\ \A c \in S : Rank(S, c) \in 0 .. len - 1 /\ seq[Rank(S, c) + 1] = c
      /\ \A i, j \in 1 .. len : i < j <=> seq[i] < seq[j]
  BY AscendingLists, RankOrders
<1> HIDE DEF seq, len
<1>2. a .. a + n \subseteq 1 .. len /\ a \in a .. a + n
  BY <1>1 DEF len
<1>3. \A i, j \in 1 .. len : seq[i] = seq[j] => i = j
  <2> TAKE i, j \in 1 .. len
  <2>1. seq[i] \in Int /\ seq[j] \in Int
    BY <1>1
  <2>2. ~(i < j) /\ ~(j < i) => i = j
    OBVIOUS
  <2> QED BY <1>1, <2>1, <2>2
<1>4. Cardinality(P) = n + 1
  <2>1. f \in Bijection(a .. a + n, P)
    <3>1. f \in [a .. a + n -> P] /\ \A p \in P : \E j \in a .. a + n : f[j] = p
      OBVIOUS
    <3>2. \A i, j \in a .. a + n : f[i] = f[j] => i = j
      BY <1>2, <1>3
    <3>3. DOMAIN f = a .. a + n
      OBVIOUS
    <3> HIDE DEF f, P
    <3> QED BY <3>1, <3>2, <3>3 DEF Bijection, Injection, Surjection, IsInjective
  <2>2. IsFiniteSet(a .. a + n) /\ Cardinality(a .. a + n) = n + 1
    <3>1. a + n \in Int /\ ~(a > a + n)
      OBVIOUS
    <3> QED BY <3>1, FS_Interval
  <2>3. ExistsBijection(a .. a + n, P)
    <3> HIDE DEF f, P
    <3> QED BY <2>1 DEF ExistsBijection
  <2> HIDE DEF P
  <2> QED BY <2>2, <2>3, FS_Bijection
<1>5. P \subseteq S
  BY <1>1, <1>2
<1>6. ASSUME NEW c \in S, NEW i \in a .. a + n, seq[i] <= c, NEW j \in a .. a + n, c <= seq[j]
      PROVE  c \in P
  <2> DEFINE k == Rank(S, c) + 1
  <2>1. k \in 1 .. len /\ seq[k] = c
    BY <1>1
  <2>2. ~(k < i) /\ ~(j < k)
    <3>1. seq[i] \in Int /\ seq[j] \in Int /\ c \in Int /\ i \in 1 .. len /\ j \in 1 .. len
      BY <1>1, <1>2
    <3> HIDE DEF k
    <3> QED BY <1>1, <1>6, <2>1, <3>1
  <2> HIDE DEF k
  <2>3. k \in a .. a + n
    BY <2>1, <2>2
  <2> QED BY <2>1, <2>3
<1>7. \A c \in P : seq[a] <= c
  <2> SUFFICES ASSUME NEW j \in a .. a + n PROVE seq[a] <= seq[j]
    OBVIOUS
  <2>1. a \in 1 .. len /\ j \in 1 .. len /\ ~(j < a)
    BY <1>2
  <2>2. seq[a] \in Int /\ seq[j] \in Int /\ ~(seq[j] < seq[a])
    BY <1>1, <2>1
  <2> QED BY <2>2
<1>8. seq[a] \in P
  BY <1>2
<1> QED BY <1>4, <1>5, <1>6, <1>7, <1>8 DEF Unbroken, seq

\* A set that holds one of its elements below all others has it for its minimum.
LEMMA LeastIsMin ==
    ASSUME NEW S \in SUBSET Int, NEW x \in S, \A y \in S : x <= y PROVE Min(S) = x
<1>1. \A y \in S : (\A z \in S : y <= z) => y = x
  <2> TAKE y \in S
  <2> HAVE \A z \in S : y <= z
  <2>1. y <= x /\ x <= y /\ x \in Int /\ y \in Int
    OBVIOUS
  <2> QED BY <2>1
<1> QED BY <1>1 DEF Min

\* One that holds one of its elements above all others has it for its maximum.
LEMMA MostIsMax ==
    ASSUME NEW S \in SUBSET Int, NEW x \in S, \A y \in S : y <= x PROVE Max(S) = x
<1>1. \A y \in S : (\A z \in S : y >= z) => y = x
  <2> TAKE y \in S
  <2> HAVE \A z \in S : y >= z
  <2>1. y <= x /\ x <= y /\ x \in Int /\ y \in Int
    OBVIOUS
  <2> QED BY <2>1
<1>2. \A y \in S : x >= y
  OBVIOUS
<1> QED BY <1>1, <1>2 DEF Max

\* Two runs of one length from the same oldest element are the same.
LEMMA SameRun ==
    ASSUME NEW S \in SUBSET Int, IsFiniteSet(S), NEW P, NEW Q, Unbroken(P, S), Unbroken(Q, S),
           Cardinality(P) = Cardinality(Q), NEW k \in P \cap Q,
           \A c \in P : k <= c, \A c \in Q : k <= c
    PROVE  P = Q
<1>1. P \in SUBSET Int /\ Q \in SUBSET Int /\ IsFiniteSet(P) /\ IsFiniteSet(Q)
  BY FS_Subset DEF Unbroken
<1>2. P \subseteq Q \/ Q \subseteq P
  <2> SUFFICES ASSUME NEW p \in P \ Q PROVE Q \subseteq P
    OBVIOUS
  <2> SUFFICES ASSUME NEW q \in Q PROVE q \in P
    OBVIOUS
  <2>1. p \in Int /\ q \in Int /\ p \in S /\ q \in S
    BY <1>1 DEF Unbroken
  <2>2. ~(p <= q)
    BY <2>1 DEF Unbroken
  <2>3. q <= p
    BY <2>1, <2>2
  <2> QED BY <2>1, <2>3 DEF Unbroken
<1> QED BY <1>1, <1>2, FS_Subset

\* bounding_poses_n has placed n + 1 clones, from the start-th one on, around the i-th
\* interval, which holds the request, the tolerance allowed for: as many of them before it
\* as after it, unless that would leave the list on one of its sides.
IsPlaced(S, n, t, e, i, start) ==
    /\ i \in 1 .. Cardinality(S) - 1
    /\ Ascending(S)[i] - e <= t /\ t <= Ascending(S)[i + 1] + e
    /\ start \in Int /\ 1 <= start /\ start + n <= Cardinality(S)
    /\ start <= i /\ i + 1 <= start + n
    /\ start = 1 \/ start + n = Cardinality(S) \/ (i - start) + (i - start) + 1 = n
    /\ BoundingPoses(S, n, t, e) = {Ascending(S)[j] : j \in start .. start + n}

\* It returns clones placed so, or nothing.
LEMMA BoundingPlaced ==
    ASSUME NEW S \in SUBSET Int, IsFiniteSet(S), NEW n \in Nat, n % 2 = 1, NEW t, NEW e,
           BoundingPoses(S, n, t, e) # {}
    PROVE  \E i, start : IsPlaced(S, n, t, e, i, start)
<1> DEFINE len == Cardinality(S)
           i == BoundingIndex(S, t, e)
           start == FirstPose(len, i, n)
           ok == {j \in 1 .. len - 1 : Ascending(S)[j] - e <= t /\ t <= Ascending(S)[j + 1] + e}
<1>1. len \in Nat /\ Len(Ascending(S)) = len
  BY AscendingLists
<1>2. i # 0 /\ n + 1 <= len
  BY <1>1 DEF BoundingPoses
<1>3. i \in ok
  <2>1. ok # {} /\ i = Min(ok)
    BY <1>1, <1>2 DEF BoundingIndex
  <2>2. ok \in SUBSET (1 .. len - 1) /\ ok \in SUBSET Int
    OBVIOUS
  <2>3. IsFiniteSet(ok)
    <3>1. IsFiniteSet(1 .. len - 1)
      <4>1. len - 1 \in Int
        BY <1>1
      <4> HIDE DEF len
      <4> QED BY <4>1, FS_Interval
    <3> HIDE DEF ok
    <3> QED BY <2>2, <3>1, FS_Subset
  <2> HIDE DEF ok, i
  <2> QED BY <2>1, <2>2, <2>3, MinOfFinite
<1>4. i \in 1 .. len - 1 /\ Ascending(S)[i] - e <= t /\ t <= Ascending(S)[i + 1] + e
  <2> HIDE DEF i
  <2> QED BY <1>3
<1> HIDE DEF i, len, ok
<1>5. /\ start \in Int /\ 1 <= start /\ start + n <= len
      /\ start <= i /\ i + 1 <= start + n
      /\ start = 1 \/ start + n = len \/ (i - start) + (i - start) + 1 = n
  <2> DEFINE side == (n + 1) \div 2
  <2>1. side \in Nat /\ n + 1 = 2 * side
    OBVIOUS
  <2>2. start = IF i - side + 1 < 1 THEN 1 ELSE IF i + side > len THEN len - n ELSE i - side + 1
    BY DEF FirstPose
  <2> HIDE DEF side, start
  <2>3. i \in Int /\ 1 <= i /\ i + 1 <= len /\ n + 1 <= len /\ side >= 1
    BY <1>1, <1>2, <1>4, <2>1
  <2>4. CASE i - side + 1 < 1
    BY <1>1, <2>1, <2>2, <2>3, <2>4
  <2>5. CASE ~(i - side + 1 < 1) /\ i + side > len
    BY <1>1, <2>1, <2>2, <2>3, <2>5
  <2>6. CASE ~(i - side + 1 < 1) /\ ~(i + side > len)
    BY <1>1, <2>1, <2>2, <2>3, <2>6
  <2> QED BY <2>4, <2>5, <2>6
<1>6. BoundingPoses(S, n, t, e) = {Ascending(S)[j] : j \in start .. start + n}
  BY <1>1, <1>2 DEF BoundingPoses, i
<1> HIDE DEF start
<1>7. IsPlaced(S, n, t, e, i, start)
  BY <1>4, <1>5, <1>6 DEF IsPlaced, len
<1> QED BY <1>7

\* bounding_poses_n returns a run of n + 1 clones, or nothing.
LEMMA BoundingIsRun ==
    ASSUME NEW S \in SUBSET Int, IsFiniteSet(S), NEW n \in Nat, n % 2 = 1, NEW t, NEW e,
           BoundingPoses(S, n, t, e) # {}
    PROVE  Unbroken(BoundingPoses(S, n, t, e), S) /\ Cardinality(BoundingPoses(S, n, t, e)) = n + 1
<1>1. PICK i, start : IsPlaced(S, n, t, e, i, start)
  BY BoundingPlaced
<1>2. start \in Int /\ 1 <= start /\ start + n <= Cardinality(S)
  BY <1>1 DEF IsPlaced
<1>3. BoundingPoses(S, n, t, e) = {Ascending(S)[j] : j \in start .. start + n}
  BY <1>1 DEF IsPlaced
<1> QED BY <1>2, <1>3, ConsecutiveRun

\* bounding_times finds an interval whenever the request is inside the map, the tolerance
\* allowed for; the interval it finds holds the request.
LEMMA BoundingFound ==
    ASSUME NEW S \in SUBSET Int, IsFiniteSet(S), NEW t \in Int, NEW e \in Nat
    PROVE  /\ BoundingIndex(S, t, e) # 0 => \E c, d \in S : c < d /\ c <= t + e /\ t <= d + e
           /\ /\ Cardinality(S) >= 2
              /\ \E c \in S : c <= t + e
              /\ \E c \in S : t <= c + e
              => BoundingIndex(S, t, e) # 0
<1> DEFINE n == Cardinality(S)
           seq == Ascending(S)
           i == BoundingIndex(S, t, e)
           ok == {j \in 1 .. n - 1 : seq[j] - e <= t /\ t <= seq[j + 1] + e}
<1>1. /\ n \in Nat /\ seq \in [1 .. n -> S] /\ Len(seq) = n
      /\ \A c \in S : Rank(S, c) \in 0 .. n - 1 /\ seq[Rank(S, c) + 1] = c
      /\ \A j, k \in 1 .. n : j < k <=> seq[j] < seq[k]
  BY AscendingLists, RankOrders
<1>2. i = IF n < 2 \/ ok = {} THEN 0 ELSE Min(ok)
  BY <1>1 DEF BoundingIndex
<1>3. ok \in SUBSET Int /\ IsFiniteSet(ok) /\ ok \in SUBSET (1 .. n - 1)
  <2>1. ok \in SUBSET (1 .. n - 1) /\ ok \in SUBSET Int
    OBVIOUS
  <2>2. IsFiniteSet(1 .. n - 1)
    <3>1. n - 1 \in Int
      BY <1>1
    <3> HIDE DEF n
    <3> QED BY <3>1, FS_Interval
  <2> HIDE DEF ok, n
  <2> QED BY <1>1, <2>1, <2>2, FS_Subset
<1>4. \A j \in 1 .. n : seq[j] \in S /\ seq[j] \in Int
  BY <1>1
<1> HIDE DEF n, seq, i
<1>5. ASSUME i # 0 PROVE \E c, d \in S : c < d /\ c <= t + e /\ t <= d + e
  <2>1. i \in ok
    <3> HIDE DEF ok
    <3> QED BY <1>2, <1>3, <1>5, MinOfFinite
  <2>2. i \in 1 .. n /\ i + 1 \in 1 .. n /\ i < i + 1 /\ seq[i] - e <= t /\ t <= seq[i + 1] + e
    BY <1>1, <2>1
  <2>3. seq[i] \in S /\ seq[i + 1] \in S /\ seq[i] \in Int /\ seq[i] < seq[i + 1]
    BY <1>1, <1>4, <2>2
  <2>4. seq[i] <= t + e
    BY <2>2, <2>3
  <2> QED BY <2>2, <2>3, <2>4
<1>6. ASSUME n >= 2, NEW c \in S, c <= t + e, NEW d \in S, t <= d + e PROVE ok # {}
  <2> DEFINE late == {j \in 1 .. n : t <= seq[j] + e}
  <2>1. late \in SUBSET Int /\ IsFiniteSet(late)
    <3>1. late \in SUBSET (1 .. n) /\ late \in SUBSET Int
      OBVIOUS
    <3>2. IsFiniteSet(1 .. n)
      BY <1>1, FS_Interval
    <3> HIDE DEF late
    <3> QED BY <3>1, <3>2, FS_Subset
  <2>2. late # {}
    <3>1. Rank(S, d) + 1 \in 1 .. n /\ seq[Rank(S, d) + 1] = d
      BY <1>1
    <3> QED BY <1>6, <3>1
  <2>3. PICK j \in late : \A k \in late : j <= k
    <3> HIDE DEF late
    <3> QED BY <2>1, <2>2, LeastOfFinite
  <2>4. j \in 1 .. n /\ t <= seq[j] + e /\ \A k \in 1 .. n : k < j => ~(t <= seq[k] + e)
    BY <2>3
  <2>5. CASE j = 1
    <3>1. seq[1] <= c /\ seq[1] \in Int /\ c \in Int
      <4>1. Rank(S, c) + 1 \in 1 .. n /\ seq[Rank(S, c) + 1] = c /\ 1 \in 1 .. n
        BY <1>1, <1>6
      <4>2. ~(seq[Rank(S, c) + 1] < seq[1])
        BY <1>1, <4>1
      <4> QED BY <1>4, <4>1, <4>2
    <3>2. 1 \in 1 .. n - 1 /\ 2 \in 1 .. n /\ seq[1] < seq[2] /\ seq[2] \in Int
      BY <1>1, <1>4, <1>6, SMTT(30)
    <3>3. seq[1] - e <= t /\ t <= seq[1 + 1] + e
      BY <1>6, <2>4, <2>5, <3>1, <3>2
    <3> QED BY <3>2, <3>3
  <2>6. CASE j # 1
    <3>1. j - 1 \in 1 .. n - 1 /\ j - 1 \in 1 .. n /\ (j - 1) + 1 = j
      BY <1>1, <2>4, <2>6
    <3>2. seq[j - 1] \in Int /\ ~(t <= seq[j - 1] + e)
      BY <1>4, <2>4, <3>1
    <3>3. seq[j - 1] - e <= t
      BY <3>2
    <3> QED BY <2>4, <3>1, <3>3
  <2> QED BY <2>5, <2>6
<1>7. ASSUME n >= 2, NEW c \in S, c <= t + e, NEW d \in S, t <= d + e PROVE i # 0
  <2>1. ok # {}
    BY <1>6, <1>7
  <2> HIDE DEF ok
  <2>2. i = Min(ok)
    BY <1>1, <1>2, <1>7, <2>1
  <2>3. i \in 1 .. n - 1
    BY <1>3, <2>1, <2>2, MinOfFinite
  <2> QED BY <2>3
<1> QED BY <1>5, <1>7 DEF i, n

\* bounding_poses_n finds its poses exactly when there are enough and an interval is found.
LEMMA PosesFound ==
    ASSUME NEW S \in SUBSET Int, IsFiniteSet(S), NEW n \in Nat, NEW t, NEW e
    PROVE  BoundingPoses(S, n, t, e) # {} <=> Cardinality(S) >= n + 1 /\ BoundingIndex(S, t, e) # 0
<1> DEFINE len == Cardinality(S)
           i == BoundingIndex(S, t, e)
           start == FirstPose(len, i, n)
           chosen == {Ascending(S)[j] : j \in start .. start + n}
<1>1. len \in Nat /\ Len(Ascending(S)) = len
  BY AscendingLists
<1>2. BoundingPoses(S, n, t, e) = IF len < n + 1 \/ i = 0 THEN {} ELSE chosen
  BY <1>1 DEF BoundingPoses
<1>3. ASSUME len >= n + 1, i # 0 PROVE chosen # {}
  <2>1. i \in Int
    <3> DEFINE ok == {j \in 1 .. len - 1 : Ascending(S)[j] - e <= t /\ t <= Ascending(S)[j + 1] + e}
    <3>1. ok # {} /\ i = Min(ok)
      BY <1>1, <1>3 DEF BoundingIndex
    <3>2. ok \in SUBSET (1 .. len - 1) /\ ok \in SUBSET Int
      OBVIOUS
    <3>3. IsFiniteSet(1 .. len - 1)
      <4>1. len - 1 \in Int
        BY <1>1
      <4> HIDE DEF len
      <4> QED BY <4>1, FS_Interval
    <3> HIDE DEF ok, i
    <3> QED BY <3>1, <3>2, <3>3, FS_Subset, MinOfFinite
  <2>2. start \in Int
    <3> DEFINE side == (n + 1) \div 2
    <3>1. side \in Int
      OBVIOUS
    <3> HIDE DEF i, len, side
    <3> QED BY <1>1, <2>1, <3>1 DEF FirstPose, side
  <2>3. start \in start .. start + n
    <3> HIDE DEF start
    <3> QED BY <2>2
  <2> HIDE DEF start
  <2> QED BY <2>3
<1> HIDE DEF len, i, chosen
<1> QED BY <1>1, <1>2, <1>3 DEF len, i

\* The poses a time is interpolated over have no hole between the first and the last.
LEMMA PosesWithoutHole ==
    ASSUME NEW S \in SUBSET Int, IsFiniteSet(S), NEW n \in Nat, n % 2 = 1, NEW t, NEW e,
           BoundingPoses(S, n, t, e) # {}
    PROVE  LET poly == BoundingPoses(S, n, t, e)
           IN  \A c \in S : Min(poly) <= c /\ c <= Max(poly) => c \in poly
<1> DEFINE poly == BoundingPoses(S, n, t, e)
<1>1. Unbroken(poly, S)
  BY BoundingIsRun
<1> HIDE DEF poly
<1>2. poly \in SUBSET Int /\ IsFiniteSet(poly) /\ poly # {}
  BY <1>1, FS_Subset DEF Unbroken, poly
<1>3. Min(poly) \in poly /\ Max(poly) \in poly
  BY <1>2, MinOfFinite, MaxOfFinite
<1>4. \A c \in S : Min(poly) <= c /\ c <= Max(poly) => c \in poly
  BY <1>1, <1>3 DEF Unbroken
<1> QED BY <1>4 DEF poly

\* When no clone is within the tolerance of the request, the interval found has it strictly
\* inside, so that its ends are the clones next to the request.
LEMMA NextToRequest ==
    ASSUME NEW S \in SUBSET Int, IsFiniteSet(S), NEW n \in Nat, NEW t \in Int, NEW e \in Nat,
           \A c \in S : ~(Gap(c, t) <= e), NEW i, NEW start, IsPlaced(S, n, t, e, i, start)
    PROVE  /\ i \in 1 .. Cardinality(S) - 1 /\ i + 1 \in 1 .. Cardinality(S)
           /\ \A j \in 1 .. Cardinality(S) : Ascending(S)[j] < t <=> j <= i
           /\ \A j \in 1 .. Cardinality(S) : Ascending(S)[j] > t <=> j > i
<1> DEFINE len == Cardinality(S)
           seq == Ascending(S)
<1>1. /\ len \in Nat /\ seq \in [1 .. len -> S]
      /\ \A j, k \in 1 .. len : j < k <=> seq[j] < seq[k]
  BY AscendingLists, RankOrders
<1>2. i \in 1 .. len - 1 /\ seq[i] - e <= t /\ t <= seq[i + 1] + e
  BY DEF IsPlaced
<1> HIDE DEF len, seq
<1>3. i \in 1 .. len /\ i + 1 \in 1 .. len
  BY <1>1, <1>2
<1>4. seq[i] \in S /\ seq[i + 1] \in S
  BY <1>1, <1>3
<1>5. seq[i] < t /\ t < seq[i + 1]
  <2>1. seq[i] \in Int /\ seq[i + 1] \in Int /\ ~(Gap(seq[i], t) <= e) /\ ~(Gap(seq[i + 1], t) <= e)
    BY <1>4
  <2>2. seq[i] < t
    BY <1>2, <2>1 DEF Gap
  <2>3. t < seq[i + 1]
    BY <1>2, <2>1 DEF Gap
  <2> QED BY <2>2, <2>3
<1>6. ASSUME NEW j \in 1 .. len PROVE (seq[j] < t <=> j <= i) /\ (seq[j] > t <=> j > i)
  <2>1. seq[j] \in Int /\ seq[i] \in Int /\ seq[i + 1] \in Int
    BY <1>1, <1>3
  <2>2. CASE j <= i
    <3>1. ~(i < j)
      BY <1>2, <1>6, <2>2
    <3>2. ~(seq[i] < seq[j])
      BY <1>1, <1>3, <1>6, <3>1
    <3>3. seq[j] < t
      BY <1>5, <2>1, <3>2
    <3> QED BY <2>1, <2>2, <3>1, <3>3
  <2>3. CASE ~(j <= i)
    <3>1. j > i /\ ~(j < i + 1)
      BY <1>2, <1>6, <2>3
    <3>2. ~(seq[j] < seq[i + 1])
      BY <1>1, <1>3, <1>6, <3>1
    <3>3. seq[j] > t
      BY <1>5, <2>1, <3>2
    <3> QED BY <2>1, <2>3, <3>1, <3>3
  <2> QED BY <2>2, <2>3
<1> QED BY <1>2, <1>3, <1>6 DEF len, seq

\* Those clones are among the poses the request is interpolated over.
LEMMA NeighboursTaken ==
    ASSUME NEW S \in SUBSET Int, IsFiniteSet(S), NEW n \in Nat, NEW t \in Int, NEW e \in Nat,
           \A c \in S : ~(Gap(c, t) <= e), NEW i, NEW start, IsPlaced(S, n, t, e, i, start)
    PROVE  ClosestOlder(S, t) \cup ClosestNewer(S, t) \subseteq BoundingPoses(S, n, t, e)
<1> DEFINE len == Cardinality(S)
           seq == Ascending(S)
           older == {c \in S : c < t}
           newer == {c \in S : c > t}
<1>1. /\ len \in Nat /\ seq \in [1 .. len -> S]
      /\ \A c \in S : Rank(S, c) \in 0 .. len - 1 /\ seq[Rank(S, c) + 1] = c
      /\ \A j, k \in 1 .. len : j < k <=> seq[j] < seq[k]
  BY AscendingLists, RankOrders
<1>2. /\ i \in 1 .. len - 1 /\ i \in 1 .. len /\ i + 1 \in 1 .. len
      /\ \A j \in 1 .. len : seq[j] < t <=> j <= i
      /\ \A j \in 1 .. len : seq[j] > t <=> j > i
  <2>1. i \in 1 .. len - 1 /\ i + 1 \in 1 .. len
    BY NextToRequest
  <2>2. i \in 1 .. len
    <3> HIDE DEF len
    <3> QED BY <1>1, <2>1
  <2>3. /\ \A j \in 1 .. len : seq[j] < t <=> j <= i
        /\ \A j \in 1 .. len : seq[j] > t <=> j > i
    BY NextToRequest
  <2> HIDE DEF len, seq
  <2> QED BY <2>1, <2>2, <2>3
<1>3. /\ start \in Int /\ start <= i /\ i + 1 <= start + n
      /\ BoundingPoses(S, n, t, e) = {seq[j] : j \in start .. start + n}
  BY DEF IsPlaced
<1>4. seq[i] \in BoundingPoses(S, n, t, e) /\ seq[i + 1] \in BoundingPoses(S, n, t, e)
  <2> HIDE DEF seq, len
  <2>1. i \in start .. start + n /\ i + 1 \in start .. start + n
    BY <1>2, <1>3
  <2> QED BY <1>3, <2>1
<1> HIDE DEF len, seq
<1>5. \A c \in S : \E j \in 1 .. len : c = seq[j]
  <2> TAKE c \in S
  <2>1. Rank(S, c) + 1 \in 1 .. len /\ seq[Rank(S, c) + 1] = c
    BY <1>1
  <2> QED BY <2>1
<1>6. Max(older) = seq[i]
  <2>1. seq[i] \in older
    BY <1>1, <1>2
  <2>2. \A c \in older : c <= seq[i]
    <3> TAKE c \in older
    <3>1. PICK j \in 1 .. len : c = seq[j]
      BY <1>5
    <3>2. j <= i
      BY <1>2, <3>1
    <3>3. ~(seq[i] < seq[j]) /\ seq[i] \in Int /\ seq[j] \in Int
      <4>1. ~(i < j)
        BY <1>2, <3>2
      <4> QED BY <1>1, <1>2, <4>1
    <3> QED BY <3>1, <3>3
  <2>3. older \in SUBSET Int
    OBVIOUS
  <2> HIDE DEF older
  <2> QED BY <2>1, <2>2, <2>3, MostIsMax
<1>7. Min(newer) = seq[i + 1]
  <2>1. seq[i + 1] \in newer
    BY <1>1, <1>2
  <2>2. \A c \in newer : seq[i + 1] <= c
    <3> TAKE c \in newer
    <3>1. PICK j \in 1 .. len : c = seq[j]
      BY <1>5
    <3>2. j > i
      BY <1>2, <3>1
    <3>3. ~(seq[j] < seq[i + 1]) /\ seq[i + 1] \in Int /\ seq[j] \in Int
      <4>1. ~(j < i + 1)
        BY <1>2, <3>2
      <4> QED BY <1>1, <1>2, <4>1
    <3> QED BY <3>1, <3>3
  <2>3. newer \in SUBSET Int
    OBVIOUS
  <2> HIDE DEF newer
  <2> QED BY <2>1, <2>2, <2>3, LeastIsMin
<1>8. ClosestOlder(S, t) \subseteq {seq[i]} /\ ClosestNewer(S, t) \subseteq {seq[i + 1]}
  BY <1>6, <1>7 DEF ClosestOlder, ClosestNewer
<1> QED BY <1>4, <1>8

\* As many entries of the list of clones are taken as there are places of them.
LEMMA EntriesCounted ==
    ASSUME NEW S \in SUBSET Int, IsFiniteSet(S), NEW a \in Int, NEW b \in Int,
           1 <= a, a <= b, b <= Cardinality(S)
    PROVE  Cardinality({Ascending(S)[j] : j \in a .. b}) = b - a + 1
<1>1. b - a \in Nat /\ a + (b - a) = b /\ a + (b - a) <= Cardinality(S)
  OBVIOUS
<1>2. Cardinality({Ascending(S)[j] : j \in a .. a + (b - a)}) = (b - a) + 1
  BY <1>1, ConsecutiveRun
<1> QED BY <1>1, <1>2

\* There are as many of them before the request as after it, unless the list ends there.
LEMMA EvenlyAround ==
    ASSUME NEW S \in SUBSET Int, IsFiniteSet(S), NEW n \in Nat, NEW t \in Int, NEW e \in Nat,
           \A c \in S : ~(Gap(c, t) <= e), NEW i, NEW start, IsPlaced(S, n, t, e, i, start)
    PROVE  LET poly == BoundingPoses(S, n, t, e)
           IN  \/ Cardinality({c \in poly : c < t}) = Cardinality({c \in poly : c > t})
               \/ {Min(S), Max(S)} \cap poly # {}
<1> DEFINE len == Cardinality(S)
           seq == Ascending(S)
           poly == BoundingPoses(S, n, t, e)
<1>1. /\ len \in Nat /\ seq \in [1 .. len -> S]
      /\ \A c \in S : Rank(S, c) \in 0 .. len - 1 /\ seq[Rank(S, c) + 1] = c
      /\ \A j, k \in 1 .. len : j < k <=> seq[j] < seq[k]
  BY AscendingLists, RankOrders
<1>2. /\ i \in 1 .. len - 1 /\ i \in 1 .. len /\ i + 1 \in 1 .. len
      /\ \A j \in 1 .. len : seq[j] < t <=> j <= i
      /\ \A j \in 1 .. len : seq[j] > t <=> j > i
  <2>1. i \in 1 .. len - 1 /\ i + 1 \in 1 .. len
    BY NextToRequest
  <2>2. i \in 1 .. len
    <3> HIDE DEF len
    <3> QED BY <1>1, <2>1
  <2>3. /\ \A j \in 1 .. len : seq[j] < t <=> j <= i
        /\ \A j \in 1 .. len : seq[j] > t <=> j > i
    BY NextToRequest
  <2> HIDE DEF len, seq
  <2> QED BY <2>1, <2>2, <2>3
<1>3. /\ start \in Int /\ 1 <= start /\ start + n <= len /\ start <= i /\ i + 1 <= start + n
      /\ start = 1 \/ start + n = len \/ (i - start) + (i - start) + 1 = n
      /\ poly = {seq[j] : j \in start .. start + n}
  BY DEF IsPlaced
<1> HIDE DEF len, seq, poly
<1>4. \A c \in S : \E j \in 1 .. len : c = seq[j]
  <2> TAKE c \in S
  <2>1. Rank(S, c) + 1 \in 1 .. len /\ seq[Rank(S, c) + 1] = c
    BY <1>1
  <2> QED BY <2>1
<1>5. ASSUME start = 1 PROVE Min(S) \in poly
  <2>1. 1 \in 1 .. len /\ 1 \in start .. start + n
    BY <1>1, <1>2, <1>3, <1>5
  <2>2. \A c \in S : seq[1] <= c
    <3> TAKE c \in S
    <3>1. PICK j \in 1 .. len : c = seq[j]
      BY <1>4
    <3>2. ~(j < 1)
      OBVIOUS
    <3>3. ~(seq[j] < seq[1]) /\ seq[1] \in Int /\ seq[j] \in Int
      BY <1>1, <2>1, <3>2
    <3> QED BY <3>1, <3>3
  <2>3. seq[1] \in S
    BY <1>1, <2>1
  <2>4. Min(S) = seq[1]
    BY <2>2, <2>3, LeastIsMin
  <2> QED BY <1>3, <2>1, <2>4
<1>6. ASSUME start + n = len PROVE Max(S) \in poly
  <2>1. len \in 1 .. len /\ len \in start .. start + n
    BY <1>1, <1>2, <1>3, <1>6
  <2>2. \A c \in S : c <= seq[len]
    <3> TAKE c \in S
    <3>1. PICK j \in 1 .. len : c = seq[j]
      BY <1>4
    <3>2. ~(len < j)
      BY <1>1
    <3>3. ~(seq[len] < seq[j]) /\ seq[len] \in Int /\ seq[j] \in Int
      BY <1>1, <2>1, <3>2
    <3> QED BY <3>1, <3>3
  <2>3. seq[len] \in S
    BY <1>1, <2>1
  <2>4. Max(S) = seq[len]
    BY <2>2, <2>3, MostIsMax
  <2> QED BY <1>3, <2>1, <2>4
<1>7. ASSUME (i - start) + (i - start) + 1 = n
      PROVE  Cardinality({c \in poly : c < t}) = Cardinality({c \in poly : c > t})
  <2>1. {c \in poly : c < t} = {seq[j] : j \in start .. i}
    <3>1. ASSUME NEW c \in poly, c < t PROVE c \in {seq[j] : j \in start .. i}
      <4>1. PICK j \in start .. start + n : c = seq[j]
        BY <1>3
      <4>2. j \in 1 .. len
        BY <1>1, <1>3
      <4>3. j \in start .. i
        BY <1>2, <3>1, <4>1, <4>2
      <4> QED BY <4>1, <4>3
    <3>2. ASSUME NEW j \in start .. i PROVE seq[j] \in poly /\ seq[j] < t
      <4>1. j \in start .. start + n /\ j \in 1 .. len /\ j <= i
        BY <1>1, <1>2, <1>3
      <4> QED BY <1>2, <1>3, <4>1
    <3> QED BY <3>1, <3>2
  <2>2. {c \in poly : c > t} = {seq[j] : j \in i + 1 .. start + n}
    <3>1. ASSUME NEW c \in poly, c > t PROVE c \in {seq[j] : j \in i + 1 .. start + n}
      <4>1. PICK j \in start .. start + n : c = seq[j]
        BY <1>3
      <4>2. j \in 1 .. len
        BY <1>1, <1>3
      <4>3. j > i
        BY <1>2, <3>1, <4>1, <4>2
      <4>4. j \in i + 1 .. start + n
        BY <1>2, <1>3, <4>2, <4>3
      <4> QED BY <4>1, <4>4
    <3>2. ASSUME NEW j \in i + 1 .. start + n PROVE seq[j] \in poly /\ seq[j] > t
      <4>1. j \in start .. start + n /\ j \in 1 .. len /\ j > i
        BY <1>1, <1>2, <1>3
      <4> QED BY <1>2, <1>3, <4>1
    <3> QED BY <3>1, <3>2
  <2>3. Cardinality({seq[j] : j \in start .. i}) = i - start + 1
    <3>1. i \in Int /\ i <= Cardinality(S)
      BY <1>1, <1>2 DEF len
    <3> QED BY <1>3, <3>1, EntriesCounted DEF seq
  <2>4. Cardinality({seq[j] : j \in i + 1 .. start + n}) = (start + n) - (i + 1) + 1
    <3>1. i + 1 \in Int /\ start + n \in Int /\ 1 <= i + 1 /\ start + n <= Cardinality(S)
      BY <1>1, <1>2, <1>3 DEF len
    <3> QED BY <1>3, <3>1, EntriesCounted DEF seq
  <2>5. i - start + 1 = (start + n) - (i + 1) + 1
    BY <1>1, <1>2, <1>3, <1>7
  <2> QED BY <2>1, <2>2, <2>3, <2>4, <2>5
<1> QED BY <1>3, <1>5, <1>6, <1>7 DEF poly

\* A request inside the list of enough clones finds poses to interpolate over.
LEMMA PosesForInside ==
    ASSUME NEW S \in SUBSET Int, IsFiniteSet(S), NEW n \in Nat, n % 2 = 1, NEW t \in Int, NEW e \in Nat,
           Cardinality(S) >= n + 1, Min(S) <= t, t <= Max(S)
    PROVE  BoundingPoses(S, n, t, e) # {}
<1>1. Cardinality(S) \in Nat /\ Cardinality(S) >= 2
  <2>1. Cardinality(S) \in Nat /\ n >= 1
    BY FS_CardinalityType
  <2> QED BY <2>1
<1>2. S # {}
  <2> SUFFICES ASSUME S = {} PROVE FALSE
    OBVIOUS
  <2>1. Cardinality(S) = 0
    BY FS_EmptySet
  <2> QED BY <1>1, <2>1
<1>3. Min(S) \in S /\ Max(S) \in S
  BY <1>2, MinOfFinite, MaxOfFinite
<1>4. Min(S) <= t + e /\ t <= Max(S) + e
  <2>1. Min(S) \in Int /\ Max(S) \in Int
    BY <1>3
  <2> QED BY <2>1
<1>5. BoundingIndex(S, t, e) # 0
  BY <1>1, <1>3, <1>4, BoundingFound
<1> QED BY <1>5, PosesFound

\* Together: bounding_poses_n keeps what State.h says of it, for every map and request.
LEMMA BoundingSpread ==
    ASSUME NEW S \in SUBSET Int, IsFiniteSet(S), NEW n \in Nat, n % 2 = 1, NEW t \in Int, NEW e \in Nat
    PROVE  SpreadAround(S, n, t, e)
<1> DEFINE poly == BoundingPoses(S, n, t, e)
           near == \E c \in S : Gap(c, t) <= e
           before == {c \in poly : c < t}
           after == {c \in poly : c > t}
<1>1. ASSUME poly # {}
      PROVE  /\ Cardinality(poly) = n + 1
             /\ \A c \in S : Min(poly) <= c /\ c <= Max(poly) => c \in poly
  BY <1>1, BoundingIsRun, PosesWithoutHole
<1>2. ASSUME poly # {}, ~near
      PROVE  /\ ClosestOlder(S, t) \cup ClosestNewer(S, t) \subseteq poly
             /\ Cardinality(before) = Cardinality(after) \/ {Min(S), Max(S)} \cap poly # {}
  <2>1. PICK i, start : IsPlaced(S, n, t, e, i, start)
    BY <1>2, BoundingPlaced
  <2>2. \A c \in S : ~(Gap(c, t) <= e)
    BY <1>2
  <2>3. ClosestOlder(S, t) \cup ClosestNewer(S, t) \subseteq poly
    BY <2>1, <2>2, NeighboursTaken
  <2>4. Cardinality(before) = Cardinality(after) \/ {Min(S), Max(S)} \cap poly # {}
    BY <2>1, <2>2, EvenlyAround
  <2> QED BY <2>3, <2>4
<1>3. Cardinality(S) >= n + 1 /\ Min(S) <= t /\ t <= Max(S) => poly # {}
  BY PosesForInside
<1>4. /\ poly # {} =>
          /\ Cardinality(poly) = n + 1
          /\ \A c \in S : Min(poly) <= c /\ c <= Max(poly) => c \in poly
          /\ near \/ ClosestOlder(S, t) \cup ClosestNewer(S, t) \subseteq poly
          /\ near \/ Cardinality(before) = Cardinality(after) \/ {Min(S), Max(S)} \cap poly # {}
      /\ Cardinality(S) >= n + 1 /\ Min(S) <= t /\ t <= Max(S) => poly # {}
  <2> HIDE DEF poly, near, before, after
  <2> QED BY <1>1, <1>2, <1>3
<1> QED BY <1>4 DEF SpreadAround

-----------------------------------------------------------------------------
(* How many times fit into a window *)

\* The quotient of an integer division, by its two bounds.
LEMMA Quotient ==
    ASSUME NEW x \in Nat, NEW b \in Nat \ {0}
    PROVE  x \div b \in Nat /\ b * (x \div b) <= x /\ x < b * (x \div b) + b
OBVIOUS

\* Quotients of times a divisor apart differ.
LEMMA QuotientGrows ==
    ASSUME NEW x \in Nat, NEW y \in Nat, NEW b \in Nat \ {0}
    PROVE  /\ x <= y => x \div b <= y \div b
           /\ x + b <= y => x \div b < y \div b
<1> DEFINE q == x \div b
           r == y \div b
<1>1. q \in Nat /\ b * q <= x /\ x < b * q + b
  BY Quotient
<1>2. r \in Nat /\ b * r <= y /\ y < b * r + b
  BY Quotient
<1> HIDE DEF q, r
<1>3. \A k \in Nat, l \in Nat : k <= l => b * k <= b * l
  OBVIOUS
<1>4. ASSUME x <= y PROVE q <= r
  <2> SUFFICES ASSUME r + 1 <= q PROVE FALSE
    BY <1>1, <1>2
  <2>1. b * (r + 1) <= b * q
    BY <1>1, <1>2, <1>3
  <2>2. b * (r + 1) = b * r + b
    BY <1>2
  <2> QED BY <1>1, <1>2, <1>4, <2>1, <2>2
<1>5. ASSUME x + b <= y PROVE q < r
  <2> SUFFICES ASSUME r <= q PROVE FALSE
    BY <1>1, <1>2
  <2>1. b * r <= b * q
    BY <1>1, <1>2, <1>3
  <2> QED BY <1>1, <1>2, <1>5, <2>1
<1> QED BY <1>4, <1>5 DEF q, r

\* Times that keep a distance and span no more than a window are finitely many: their
\* distances from the oldest, in units of the smallest distance, are all different.
LEMMA SpacedCount ==
    ASSUME NEW S \in SUBSET Int, NEW w \in Nat, NEW b \in Nat \ {0},
           \A c \in S, d \in S : d - c <= w,
           \A c \in S, d \in S : c < d => 10 * (d - c) >= b
    PROVE  IsFiniteSet(S) /\ Cardinality(S) <= (10 * w) \div b + 1
<1> DEFINE K == (10 * w) \div b
<1>1. K \in Nat
  BY Quotient
<1>2. CASE S = {}
  BY <1>1, <1>2, FS_EmptySet
<1>3. CASE S # {}
  <2>1. PICK c \in S : TRUE
    BY <1>3
  <2>2. S \subseteq (c - w) .. (c + w)
    <3> SUFFICES ASSUME NEW d \in S PROVE d \in (c - w) .. (c + w)
      OBVIOUS
    <3>1. d \in Int /\ c \in Int /\ d - c <= w /\ c - d <= w
      OBVIOUS
    <3> QED BY <3>1
  <2>3. IsFiniteSet(S)
    <3>1. c - w \in Int /\ c + w \in Int
      OBVIOUS
    <3> QED BY <2>2, <3>1, FS_Interval, FS_Subset
  <2>4. PICK m \in S : \A d \in S : m <= d
    BY <1>3, <2>3, LeastOfFinite
  <2> DEFINE f == [d \in S |-> (10 * (d - m)) \div b]
  <2>5. ASSUME NEW d \in S PROVE 10 * (d - m) \in Nat /\ 10 * (d - m) <= 10 * w
    <3>1. d \in Int /\ m \in Int /\ m <= d /\ d - m <= w
      BY <2>4
    <3> QED BY <3>1
  <2>6. ASSUME NEW d \in S PROVE f[d] \in 0 .. K
    <3>1. 10 * w \in Nat
      OBVIOUS
    <3>2. f[d] \in Nat /\ f[d] <= K
      BY <2>5, <3>1, Quotient, QuotientGrows
    <3> HIDE DEF f, K
    <3> QED BY <1>1, <3>2
  <2>7. ASSUME NEW d \in S, NEW e \in S, d < e PROVE f[d] < f[e]
    <3>1. 10 * (d - m) \in Nat /\ 10 * (e - m) \in Nat
      BY <2>5
    <3>2. 10 * (d - m) + b <= 10 * (e - m)
      <4>1. d \in Int /\ e \in Int /\ m \in Int /\ 10 * (e - d) >= b
        BY <2>7
      <4> QED BY <4>1
    <3> QED BY <3>1, <3>2, QuotientGrows
  <2>8. f \in Injection(S, 0 .. K)
    <3>1. ASSUME NEW d \in S, NEW e \in S, f[d] = f[e] PROVE d = e
      <4>1. d \in Int /\ e \in Int /\ f[d] \in Int /\ f[e] \in Int
        BY <1>1, <2>6
      <4>2. ~(d < e) /\ ~(e < d)
        <5> HIDE DEF f
        <5> QED BY <2>7, <3>1, <4>1
      <4> QED BY <4>1, <4>2
    <3>2. f \in [S -> 0 .. K]
      <4>1. f = [d \in S |-> f[d]]
        OBVIOUS
      <4> HIDE DEF f, K
      <4> QED BY <2>6, <4>1
    <3> HIDE DEF f, K
    <3>3. \A d, e \in S : f[d] = f[e] => d = e
      BY <3>1
    <3> QED BY <3>2, <3>3 DEF Injection, IsInjective
  <2>9. IsFiniteSet(0 .. K) /\ Cardinality(0 .. K) = K + 1
    <3> HIDE DEF K
    <3>1. 0 \in Int /\ K \in Int /\ ~(0 > K)
      BY <1>1
    <3>2. K - 0 + 1 = K + 1
      BY <1>1
    <3> QED BY <3>1, <3>2, FS_Interval
  <2> HIDE DEF f, K
  <2>10. Cardinality(S) <= K + 1
    BY <2>8, <2>9, FS_Injection
  <2> QED BY <2>3, <2>10 DEF K
<1> QED BY <1>2, <1>3
=============================================================================
