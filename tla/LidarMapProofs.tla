--------------------------- MODULE LidarMapProofs ---------------------------
(***************************************************************************)
(* Theorems about LidarMap, for all sets of stamps, offsets and periods,   *)
(* all window sizes, interpolation orders and patiences: the window and    *)
(* its caches keep what is proved of them beside a LiDAR, its code exits   *)
(* only with an anchor outside the window, the anchor follows the window,  *)
(* and no scan is lost.                                                    *)
(***************************************************************************)
EXTENDS LidarMap, InterpolationCacheProofs

-----------------------------------------------------------------------------
(* Receiving: UpdaterLidar::feed_measurement *)

\* The time of an initialized tree, or nothing.
IsAnchor(A) == A = {} \/ \E a \in Int : A = {a}

\* The states of its loop.
ScanStates == [raw : SUBSET SensorStamps, ready : SUBSET SensorStamps, anchor : SUBSET Int, lastUp : Int]

\* The states the loop goes through.
IsSortRun(run, s, st) ==
    /\ run \in [0 .. Len(s) -> ScanStates]
    /\ run[0] = st
    /\ \A i \in 1 .. Len(s) : run[i] = Sorted(run[i - 1], s[i])
    /\ FoldLeft(Sorted, st, s) = run[Len(s)]

\* It has such states.
LEMMA SortRuns ==
    ASSUME NEW s \in Seq(SensorStamps), NEW st \in ScanStates
    PROVE  \E run : IsSortRun(run, s, st)
<1> DEFINE n == Len(s)
           T == ScanStates
           base == st
           step == [i \in 1 .. n |-> [acc \in T |-> Sorted(acc, s[i])]]
<1>1. n \in Nat /\ DOMAIN s = 1 .. n /\ \A i \in 1 .. n : s[i] \in SensorStamps
  OBVIOUS
<1>2. base \in T
  OBVIOUS
<1>3. ASSUME NEW acc \in T, NEW x \in SensorStamps PROVE Sorted(acc, x) \in T
  <2>1. x \in Int
    BY StampsAreTimes
  <2> QED BY <2>1 DEF ScanStates, Sorted
<1> HIDE DEF T, base, n
<1>4. step \in [1 .. n -> [T -> T]]
  BY <1>1, <1>3
<1>5. PICK g : IsFold(g, n, T, base, step)
  <2> HIDE DEF step
  <2> QED BY <1>1, <1>2, <1>4, FoldExists
<1>6. g = [R \in SUBSET (1 .. n) |-> IF R = {} THEN base ELSE Sorted(g[R \ {Max(R)}], s[Max(R)])]
  <2>1. \A R \in SUBSET (1 .. n) : R # {} => g[R] = Sorted(g[R \ {Max(R)}], s[Max(R)])
    BY <1>5 DEF IsFold
  <2> QED BY <1>5, <2>1 DEF IsFold
<1>7. PICK h :
         /\ h = [R \in SUBSET (1 .. n) |-> IF R = {} THEN base ELSE Sorted(h[R \ {Max(R)}], s[Max(R)])]
         /\ FoldLeft(Sorted, base, s) = h[1 .. n]
  BY <1>1, <1>6, ZenonT(60) DEF FoldLeft, MapThenFoldSet
<1>8. Unfolds(h, n, T, base, step)
  BY <1>5, <1>7 DEF IsFold, Unfolds
<1>9. PICK run : IsRun(run, n, T, base, step) /\ run[n] = h[1 .. n]
  <2> HIDE DEF step
  <2>1. n \in Nat
    BY <1>1
  <2> QED BY <2>1, <1>2, <1>4, <1>8, FoldSteps, SMTT(30)
<1>10. ASSUME NEW i \in 1 .. n PROVE run[i] = Sorted(run[i - 1], s[i])
  <2>1. run[i - 1] \in T /\ run[i] = step[i][run[i - 1]]
    <3> HIDE DEF step
    <3> QED BY <1>1, <1>9 DEF IsRun
  <2> QED BY <2>1
<1>11. run \in [0 .. n -> T] /\ run[0] = base
  BY <1>9 DEF IsRun
<1> QED BY <1>7, <1>9, <1>10, <1>11 DEF IsSortRun, n, T, base

\* A scan that starts the map with the anchor time u, or did before u's scan.
Gives(y, u) == y = u \/ y + Patience < u

\* A scan that may start a map: inside the window, and behind its newest pose.
MayStart(x) == InWindow(x + offset[Lidar]) /\ ~(x + offset[Lidar] + Delay > Max(Poses))

\* What has become of the scans the loop has seen, and of those it has not, starting from
\* the scans it had ready before: none is in both stacks, a scan that was taken out is old,
\* or starts a map, or is Patience older than one that does.
Sorting(st, old, seen, rest) ==
    /\ st.raw \subseteq seen \cup rest /\ rest \subseteq st.raw
    /\ old \subseteq st.ready /\ st.ready \subseteq old \cup seen
    /\ st.raw \cap st.ready = {}
    /\ IsAnchor(st.anchor) /\ (st.ready # {} => st.anchor # {})
    /\ \/ st.lastUp = lastUp /\ st.anchor = anchor
       \/ st.lastUp \in seen \ (st.raw \cup st.ready) /\ st.anchor = {st.lastUp} /\ MayStart(st.lastUp)
    /\ \A y \in seen \ (st.raw \cup st.ready) :
          ~InWindow(y + offset[Lidar]) \/ (st.lastUp \in seen /\ st.anchor = {st.lastUp} /\ Gives(y, st.lastUp))

\* One turn.
LEMMA SortTurn ==
    ASSUME NEW st \in ScanStates, NEW old \in SUBSET SensorStamps,
           NEW seen \in SUBSET SensorStamps, NEW rest \in SUBSET SensorStamps, NEW x \in rest,
           \A y \in seen : y < x, (old \cup seen) \cap rest = {}, Sorting(st, old, seen, rest)
    PROVE  Sorting(Sorted(st, x), old, seen \cup {x}, rest \ {x})
<1> DEFINE new == Sorted(st, x)
           t == x + offset[Lidar]
<1>1. x \in Int /\ x \in st.raw /\ x \notin st.ready /\ x \notin seen
  BY StampsAreTimes DEF Sorting
<1>2. \A y \in seen : y \in Int /\ y < x
  BY StampsAreTimes
<1>3. CASE ~InWindow(t)
  <2>1. new = [st EXCEPT !.raw = @ \ {x}]
    BY <1>3 DEF Sorted
  <2>2. new.raw = st.raw \ {x} /\ new.ready = st.ready /\ new.anchor = st.anchor /\ new.lastUp = st.lastUp
    BY <2>1 DEF ScanStates
  <2> HIDE DEF new
  <2> QED BY <1>1, <1>3, <2>2 DEF Sorting, new
<1>4. CASE InWindow(t) /\ t + Delay > Max(Poses)
  <2>1. new = st
    BY <1>4 DEF Sorted
  <2> HIDE DEF new
  <2> QED BY <1>1, <2>1 DEF Sorting, new
<1>5. CASE InWindow(t) /\ ~(t + Delay > Max(Poses)) /\ (st.anchor = {} \/ st.lastUp + Patience < x)
  <2>1. new = [st EXCEPT !.raw = @ \ {x}, !.anchor = {x}, !.lastUp = x]
    BY <1>5 DEF Sorted
  <2>2. new.raw = st.raw \ {x} /\ new.ready = st.ready /\ new.anchor = {x} /\ new.lastUp = x
    BY <2>1 DEF ScanStates
  <2> HIDE DEF new
  <2>3. st.lastUp \in Int /\ Patience \in Nat
    BY LidarAssumption DEF ScanStates
  <2>4. ASSUME NEW y \in seen, st.anchor = {st.lastUp}, Gives(y, st.lastUp) PROVE Gives(y, x)
    <3>1. st.lastUp + Patience < x /\ y \in Int
      BY <1>2, <1>5, <2>4
    <3>2. y + Patience < x
      BY <1>1, <2>3, <2>4, <3>1 DEF Gives
    <3> QED BY <3>2 DEF Gives
  <2>5. Gives(x, x)
    BY DEF Gives
  <2>6. \A y \in (seen \cup {x}) \ (new.raw \cup new.ready) : ~InWindow(y + offset[Lidar]) \/ Gives(y, x)
    BY <1>1, <2>2, <2>4, <2>5 DEF Sorting
  <2> QED BY <1>1, <1>5, <2>2, <2>6 DEF Sorting, IsAnchor, MayStart, new
<1>6. CASE InWindow(t) /\ ~(t + Delay > Max(Poses)) /\ ~(st.anchor = {} \/ st.lastUp + Patience < x)
  <2>1. new = [st EXCEPT !.raw = @ \ {x}, !.ready = @ \cup {x}]
    BY <1>6 DEF Sorted
  <2>2. new.raw = st.raw \ {x} /\ new.ready = st.ready \cup {x} /\ new.anchor = st.anchor /\ new.lastUp = st.lastUp
    BY <2>1 DEF ScanStates
  <2>3. st.anchor # {}
    BY <1>6
  <2> HIDE DEF new
  <2> QED BY <1>1, <2>2, <2>3 DEF Sorting, new
<1> QED BY <1>3, <1>4, <1>5, <1>6

\* What a message makes of the stacks and of the map.
Receives(st, x) ==
    /\ st.raw \in SUBSET (raw \cup {x}) /\ st.ready \in SUBSET (raw \cup ready \cup {x})
    /\ st.raw \cap st.ready = {}
    /\ IsAnchor(st.anchor) /\ (st.ready # {} => st.anchor # {})
    /\ \/ st.lastUp = lastUp /\ st.anchor = anchor
       \/ /\ st.lastUp \in (raw \cup {x}) \ (st.raw \cup st.ready) /\ st.anchor = {st.lastUp}
          /\ MayStart(st.lastUp) /\ Poses # {}
    /\ \A y \in (raw \cup ready \cup {x}) \ (st.raw \cup st.ready) :
          \/ ~InWindow(y + offset[Lidar])
          \/ y \notin ready /\ st.lastUp \in raw \cup {x} /\ st.anchor = {st.lastUp} /\ Gives(y, st.lastUp)

\* What is known of the stacks and the map before it.
Stacks ==
    /\ raw \in SUBSET SensorStamps /\ ready \in SUBSET SensorStamps /\ raw \cap ready = {}
    /\ IsFiniteSet(raw) /\ IsFiniteSet(ready)
    /\ IsAnchor(anchor) /\ lastUp \in Int /\ (ready # {} => anchor # {})

\* The loop over the scans in the order of their times.
LEMMA ReceivedFacts ==
    ASSUME Stacks, NEW x \in SensorStamps, x \notin raw \cup ready
    PROVE  Receives(Received(x), x)
<1> DEFINE all == raw \cup {x}
           st == [raw |-> all, ready |-> ready, anchor |-> anchor, lastUp |-> lastUp]
           s == Ascending(all)
           n == Cardinality(all)
           seen(i) == {s[j] : j \in 1 .. i}
           rest(i) == {s[j] : j \in i + 1 .. n}
<1>1. all \in SUBSET SensorStamps /\ all \in SUBSET Int /\ IsFiniteSet(all) /\ all \cap ready = {}
  <2>1. all \in SUBSET SensorStamps /\ all \cap ready = {} /\ IsFiniteSet(raw)
    BY DEF Stacks
  <2>2. IsFiniteSet(all)
    BY <2>1, FS_AddElement
  <2>3. all \in SUBSET Int
    BY <2>1, StampsAreTimes
  <2> QED BY <2>1, <2>2, <2>3
<1>2. st \in ScanStates
  <2>1. anchor \in SUBSET Int /\ lastUp \in Int /\ ready \in SUBSET SensorStamps
    BY DEF Stacks, IsAnchor
  <2> QED BY <1>1, <2>1 DEF ScanStates
<1>3. /\ n \in Nat /\ s \in [1 .. n -> all] /\ Len(s) = n
      /\ \A c \in all : \E i \in 1 .. n : s[i] = c
      /\ \A i, j \in 1 .. n : i < j <=> s[i] < s[j]
  <2> HIDE DEF all
  <2>1. /\ Cardinality(all) \in Nat /\ s \in [1 .. n -> all] /\ Len(s) = n
        /\ \A c \in all : s[Rank(all, c) + 1] = c /\ Rank(all, c) \in 0 .. Cardinality(all) - 1
        /\ \A i, j \in 1 .. n : i < j <=> s[i] < s[j]
    BY <1>1, AscendingLists, RankOrders
  <2> HIDE DEF s
  <2>2. ASSUME NEW c \in all PROVE \E i \in 1 .. n : s[i] = c
    <3>1. Rank(all, c) + 1 \in 1 .. n
      BY <2>1
    <3> QED BY <2>1, <3>1
  <2> QED BY <2>1, <2>2
<1> HIDE DEF s, n
<1>4. s \in Seq(SensorStamps)
  <2>1. s \in [1 .. n -> SensorStamps]
    BY <1>1, <1>3
  <2> QED BY <1>3, <2>1
<1>5. PICK run : IsSortRun(run, s, st)
  <2> HIDE DEF st
  <2> QED BY <1>2, <1>4, SortRuns
<1>6. seen(0) = {} /\ rest(0) = all /\ seen(n) = all /\ rest(n) = {}
  BY <1>3
<1> DEFINE Good(i) == Sorting(run[i], ready, seen(i), rest(i))
           Q == {i \in 0 .. n : Good(i)}
<1>7. Good(0)
  <2>1. run[0] = st
    BY <1>5 DEF IsSortRun
  <2>2. Sorting(st, ready, {}, all)
    <3>1. IsAnchor(anchor) /\ (ready # {} => anchor # {})
      BY DEF Stacks
    <3>2. st.raw = all /\ st.ready = ready /\ st.anchor = anchor /\ st.lastUp = lastUp
      OBVIOUS
    <3> HIDE DEF st, all
    <3> QED BY <1>1, <3>1, <3>2 DEF Sorting
  <2> QED BY <1>6, <2>1, <2>2
<1>8. ASSUME NEW i \in 1 .. n, Good(i - 1) PROVE Good(i)
  <2>1. s[i] \in rest(i - 1) /\ seen(i - 1) \in SUBSET all /\ rest(i - 1) \in SUBSET all
    <3>1. i \in (i - 1) + 1 .. n /\ 1 .. i - 1 \in SUBSET (1 .. n) /\ (i - 1) + 1 .. n \in SUBSET (1 .. n)
      BY <1>3
    <3> QED BY <1>3, <3>1
  <2>2. seen(i) = seen(i - 1) \cup {s[i]}
    <3>1. 1 .. i = (1 .. i - 1) \cup {i}
      BY <1>3
    <3> QED BY <3>1
  <2>3. rest(i) = rest(i - 1) \ {s[i]}
    <3>1. (i - 1) + 1 .. n = (i + 1 .. n) \cup {i}
      BY <1>3
    <3>2. \A j \in i + 1 .. n : s[j] # s[i]
      <4> SUFFICES ASSUME NEW j \in i + 1 .. n PROVE s[j] # s[i]
        OBVIOUS
      <4>1. j \in 1 .. n /\ i < j
        BY <1>3
      <4>2. s[i] < s[j] /\ s[i] \in Int /\ s[j] \in Int
        <5> HIDE DEF all
        <5> QED BY <1>1, <1>3, <4>1
      <4> QED BY <4>2
    <3> QED BY <3>1, <3>2
  <2>4. \A y \in seen(i - 1) : y < s[i]
    <3> SUFFICES ASSUME NEW j \in 1 .. i - 1 PROVE s[j] < s[i]
      OBVIOUS
    <3>1. j \in 1 .. n /\ j < i
      BY <1>3
    <3> QED BY <1>3, <3>1
  <2>5. seen(i - 1) \cap rest(i - 1) = {}
    <3> SUFFICES ASSUME NEW j \in 1 .. i - 1, NEW k \in (i - 1) + 1 .. n PROVE s[j] # s[k]
      OBVIOUS
    <3>1. j \in 1 .. n /\ k \in 1 .. n /\ j < k
      BY <1>3
    <3>2. s[j] < s[k] /\ s[j] \in Int /\ s[k] \in Int
      <4> HIDE DEF all
      <4> QED BY <1>1, <1>3, <3>1
    <3> QED BY <3>2
  <2>6. run[i - 1] \in ScanStates /\ run[i] = Sorted(run[i - 1], s[i])
    <3>1. i - 1 \in 0 .. n
      BY <1>3
    <3> QED BY <1>3, <1>5, <3>1 DEF IsSortRun
  <2>7. Sorting(run[i - 1], ready, seen(i - 1), rest(i - 1))
    BY <1>8
  <2>8. ready \in SUBSET SensorStamps /\ (ready \cup seen(i - 1)) \cap rest(i - 1) = {}
    <3> HIDE DEF seen, rest, all
    <3> QED BY <1>1, <2>1, <2>5 DEF Stacks
  <2>9. seen(i - 1) \in SUBSET SensorStamps /\ rest(i - 1) \in SUBSET SensorStamps
    <3> HIDE DEF seen, rest, all
    <3> QED BY <1>1, <2>1
  <2> HIDE DEF seen, rest
  <2>10. Sorting(run[i], ready, seen(i), rest(i))
    BY <2>1, <2>2, <2>3, <2>4, <2>6, <2>7, <2>8, <2>9, SortTurn
  <2> QED BY <2>10
<1> HIDE DEF Good
<1>9. Good(n)
  <2>1. 0 \in Q /\ \A i \in 1 .. n : i - 1 \in Q => i \in Q
    BY <1>3, <1>7, <1>8
  <2> HIDE DEF Q
  <2>2. \A i \in 0 .. n : i \in Q
    BY <1>3, <2>1, CountUp
  <2>3. n \in Q
    BY <1>3, <2>2
  <2> QED BY <2>3 DEF Q
<1> DEFINE done == run[n]
<1>10. Sorting(done, ready, all, {}) /\ done \in ScanStates /\ FoldLeft(Sorted, st, s) = done
  <2>1. Sorting(done, ready, seen(n), rest(n))
    BY <1>9 DEF Good
  <2>2. done \in ScanStates /\ FoldLeft(Sorted, st, s) = done
    BY <1>3, <1>5 DEF IsSortRun
  <2> HIDE DEF seen, rest, done, st
  <2> QED BY <1>6, <2>1, <2>2
<1> HIDE DEF done
<1>11. CASE Poses = {}
  <2>1. Received(x) = st
    BY <1>11 DEF Received
  <2>2. Receives(st, x)
    BY <1>1 DEF Receives, Stacks
  <2> QED BY <2>1, <2>2
<1>12. CASE Poses # {}
  <2> DEFINE new == [done EXCEPT !.ready = {y \in @ : InWindow(y + offset[Lidar])}]
  <2>1. Received(x) = new
    BY <1>10, <1>12 DEF Received, s
  <2>2. /\ new.raw = done.raw /\ new.anchor = done.anchor /\ new.lastUp = done.lastUp
        /\ new.ready = {y \in done.ready : InWindow(y + offset[Lidar])}
    BY <1>10 DEF ScanStates
  <2> HIDE DEF new, st
  <2>3. Receives(new, x)
    BY <1>10, <1>12, <2>2 DEF Receives, Sorting
  <2> QED BY <2>1, <2>3
<1> QED BY <1>11, <1>12

-----------------------------------------------------------------------------
(* Updating: UpdaterLidar::try_update *)

\* The time of a scan or of the anchor with one of two offsets.
Times(x, dts) == {x + dts[1], x + dts[2]}

\* The states of its loop, with the anchor A.
MatchStates(A, dts) ==
    [used : SUBSET SensorStamps, matched : SUBSET SensorStamps, asked : SUBSET (Int \cup Times(Max(A), dts)), anchor : {A}, stopped : Stops]

\* It starts with nothing used.
Unmatched(A) == [used |-> {}, matched |-> {}, asked |-> {}, anchor |-> A, stopped |-> "none"]

\* The states the loop goes through.
IsMatchRun(run, s, A, matches, dts, up) ==
    /\ run \in [0 .. Len(s) -> MatchStates(A, dts)]
    /\ run[0] = Unmatched(A)
    /\ \A i \in 1 .. Len(s) : run[i] = Tried(run[i - 1], s[i], matches, dts)
    /\ up = run[Len(s)]

\* The offset a turn uses.
OffsetOf(acc, dts) == IF acc.used = {} THEN dts[1] ELSE dts[2]

\* The ways a turn may go.
Skips(acc, t, new) == (acc.stopped # "none" \/ ~JacobianAt(t)) /\ new = acc

MissesAnchor(acc, t, a, new) ==
    /\ acc.stopped = "none" /\ JacobianAt(t) /\ ~JacobianAt(a)
    /\ new = [acc EXCEPT !.asked = @ \cup {t},
                         !.stopped = IF InWindow(a - 1) THEN @ ELSE "no_anchor_to_match"]

MissesPose(acc, t, a, new) ==
    /\ acc.stopped = "none" /\ JacobianAt(t) /\ JacobianAt(a) /\ ~(PolynomialReady(t) /\ PolynomialReady(a))
    /\ new = [acc EXCEPT !.stopped = "no_pose_for_scan"]

Matches(acc, x, t, a, new) ==
    /\ acc.stopped = "none" /\ JacobianAt(t) /\ PolynomialReady(t)
    /\ \/ new = [acc EXCEPT !.asked = @ \cup {t, a}, !.used = @ \cup {x}, !.matched = @ \cup {x}]
       \/ new = [acc EXCEPT !.asked = @ \cup {t, a}]

\* It goes one of them.
LEMMA TriedWays ==
    ASSUME NEW acc, NEW x, NEW matches, NEW dts
    PROVE  LET t == x + OffsetOf(acc, dts)
               a == Max(acc.anchor) + OffsetOf(acc, dts)
               new == Tried(acc, x, matches, dts)
           IN  Skips(acc, t, new) \/ MissesAnchor(acc, t, a, new) \/ MissesPose(acc, t, a, new)
                  \/ Matches(acc, x, t, a, new)
<1> DEFINE dt == OffsetOf(acc, dts)
           t == x + dt
           a == Max(acc.anchor) + dt
           new == Tried(acc, x, matches, dts)
<1>1. dts[IF acc.used = {} THEN 1 ELSE 2] = dt
  BY DEF OffsetOf
<1>2. new = IF acc.stopped # "none" \/ ~JacobianAt(t) THEN acc
            ELSE IF ~JacobianAt(a)
            THEN [acc EXCEPT !.asked = @ \cup {t},
                             !.stopped = IF InWindow(a - 1) THEN @ ELSE "no_anchor_to_match"]
            ELSE IF ~(PolynomialReady(t) /\ PolynomialReady(a))
            THEN [acc EXCEPT !.stopped = "no_pose_for_scan"]
            ELSE IF x \notin matches THEN [acc EXCEPT !.asked = @ \cup {t, a}]
            ELSE [acc EXCEPT !.asked = @ \cup {t, a}, !.used = @ \cup {x}, !.matched = @ \cup {x}]
  BY <1>1 DEF Tried
<1> HIDE DEF dt, t, a, new
<1>3. CASE acc.stopped # "none" \/ ~JacobianAt(t)
  BY <1>2, <1>3 DEF Skips, t, a, new, dt
<1>4. CASE ~(acc.stopped # "none" \/ ~JacobianAt(t)) /\ ~JacobianAt(a)
  BY <1>2, <1>4 DEF MissesAnchor, t, a, new, dt
<1>5. CASE /\ ~(acc.stopped # "none" \/ ~JacobianAt(t)) /\ JacobianAt(a)
           /\ ~(PolynomialReady(t) /\ PolynomialReady(a))
  BY <1>2, <1>5 DEF MissesPose, t, a, new, dt
<1>6. CASE /\ ~(acc.stopped # "none" \/ ~JacobianAt(t)) /\ JacobianAt(a)
           /\ PolynomialReady(t) /\ PolynomialReady(a)
  BY <1>2, <1>6 DEF Matches, t, a, new, dt
<1> QED BY <1>3, <1>4, <1>5, <1>6

\* It has such states.
LEMMA MatchRuns ==
    ASSUME NEW st, Ascending(st.ready) \in Seq(SensorStamps), NEW matches, NEW dts,
           dts[1] \in Int, dts[2] \in Int
    PROVE  \E run : IsMatchRun(run, Ascending(st.ready), st.anchor, matches, dts, Updated(st, matches, dts))
<1> DEFINE s == Ascending(st.ready)
           n == Len(s)
           T == MatchStates(st.anchor, dts)
           base == Unmatched(st.anchor)
           turn(acc, x) == Tried(acc, x, matches, dts)
           step == [i \in 1 .. n |-> [acc \in T |-> turn(acc, s[i])]]
<1>1. n \in Nat /\ DOMAIN s = 1 .. n /\ \A i \in 1 .. n : s[i] \in SensorStamps
  <2> HIDE DEF s
  <2> QED BY DEF s
<1>2. base \in T
  BY DEF MatchStates, Unmatched, Stops
<1>3. ASSUME NEW acc \in T, NEW x \in SensorStamps PROVE turn(acc, x) \in T
  <2> DEFINE dt == OffsetOf(acc, dts)
             t == x + dt
             a == Max(acc.anchor) + dt
             new == turn(acc, x)
  <2>1. x \in Int /\ dt \in Int /\ (dt = dts[1] \/ dt = dts[2])
    BY StampsAreTimes DEF OffsetOf
  <2>2. t \in Int /\ a \in Times(Max(st.anchor), dts)
    BY <2>1 DEF MatchStates, Times
  <2>3. Skips(acc, t, new) \/ MissesAnchor(acc, t, a, new) \/ MissesPose(acc, t, a, new)
           \/ Matches(acc, x, t, a, new)
    BY TriedWays
  <2> HIDE DEF new, t, a
  <2>4. ASSUME Skips(acc, t, new) PROVE new \in T
    BY <2>4 DEF Skips
  <2>5. ASSUME MissesAnchor(acc, t, a, new) PROVE new \in T
    BY <2>2, <2>5 DEF MissesAnchor, MatchStates, Stops
  <2>6. ASSUME MissesPose(acc, t, a, new) PROVE new \in T
    BY <2>6 DEF MissesPose, MatchStates, Stops
  <2>7. ASSUME Matches(acc, x, t, a, new) PROVE new \in T
    <3>1. new = [acc EXCEPT !.asked = @ \cup {t, a}, !.used = @ \cup {x}, !.matched = @ \cup {x}] => new \in T
      <4> SUFFICES ASSUME new = [acc EXCEPT !.asked = @ \cup {t, a}, !.used = @ \cup {x}, !.matched = @ \cup {x}]
                   PROVE  new \in T
        OBVIOUS
      <4>1. /\ acc.used \cup {x} \in SUBSET SensorStamps /\ acc.matched \cup {x} \in SUBSET SensorStamps
            /\ acc.asked \cup {t, a} \in SUBSET (Int \cup Times(Max(st.anchor), dts))
        BY <2>2 DEF MatchStates
      <4>2. new = [used |-> acc.used \cup {x}, matched |-> acc.matched \cup {x},
                   asked |-> acc.asked \cup {t, a}, anchor |-> acc.anchor, stopped |-> acc.stopped]
        BY DEF MatchStates
      <4>3. acc.anchor \in {st.anchor} /\ acc.stopped \in Stops
        BY DEF MatchStates
      <4> QED BY <4>1, <4>2, <4>3 DEF MatchStates
    <3>2. new = [acc EXCEPT !.asked = @ \cup {t, a}] => new \in T
      BY <2>2 DEF MatchStates
    <3> QED BY <2>7, <3>1, <3>2 DEF Matches
  <2>8. new \in T
    BY <2>3, <2>4, <2>5, <2>6, <2>7
  <2> QED BY <2>8 DEF new
<1> HIDE DEF T, base, turn, n
<1>4. step \in [1 .. n -> [T -> T]]
  BY <1>1, <1>3
<1>5. PICK g : IsFold(g, n, T, base, step)
  <2> HIDE DEF step
  <2> QED BY <1>1, <1>2, <1>4, FoldExists
<1>6. g = [R \in SUBSET (1 .. n) |-> IF R = {} THEN base ELSE turn(g[R \ {Max(R)}], s[Max(R)])]
  <2>1. \A R \in SUBSET (1 .. n) : R # {} => g[R] = turn(g[R \ {Max(R)}], s[Max(R)])
    BY <1>5 DEF IsFold
  <2> QED BY <1>5, <2>1 DEF IsFold
<1>7. PICK h :
         /\ h = [R \in SUBSET (1 .. n) |-> IF R = {} THEN base ELSE turn(h[R \ {Max(R)}], s[Max(R)])]
         /\ Updated(st, matches, dts) = h[1 .. n]
  BY <1>1, <1>6 DEF Updated, FoldLeft, MapThenFoldSet, turn, base, Unmatched
<1> HIDE DEF s
<1>8. Unfolds(h, n, T, base, step)
  BY <1>5, <1>7 DEF IsFold, Unfolds
<1>9. PICK run : IsRun(run, n, T, base, step) /\ run[n] = h[1 .. n]
  <2> HIDE DEF step
  <2>1. n \in Nat
    BY <1>1
  <2>2. base \in T
    BY <1>2
  <2>3. step \in [1 .. n -> [T -> T]]
    BY <1>4
  <2>4. Unfolds(h, n, T, base, step)
    BY <1>8
  <2> QED BY <2>1, <2>2, <2>3, <2>4, FoldSteps, SMTT(60)
<1>10. ASSUME NEW i \in 1 .. n PROVE run[i] = Tried(run[i - 1], s[i], matches, dts)
  <2>1. run[i - 1] \in T /\ run[i] = step[i][run[i - 1]]
    <3> HIDE DEF step
    <3> QED BY <1>1, <1>9 DEF IsRun
  <2> QED BY <2>1 DEF turn
<1>11. run \in [0 .. n -> T] /\ run[0] = base
  BY <1>9 DEF IsRun
<1>12. IsMatchRun(run, s, st.anchor, matches, dts, Updated(st, matches, dts))
  BY <1>7, <1>9, <1>10, <1>11 DEF IsMatchRun, n, T, base
<1> QED BY <1>12 DEF s

\* What is known after some turns over scans of S: a used scan is one the filter was
\* corrected with, and has a pose and the polynomial for it; the exit is reached with an anchor older than the window that has no
\* pose; the assertion with a time that has a Jacobian but no polynomial.
Matched(acc, S, dts) ==
    /\ acc.used \subseteq S /\ acc.matched = acc.used /\ (acc.used # {} => Cardinality(Poses) >= Order + 1)
    /\ \A x \in acc.used : \E t \in Times(x, dts) : t \in acc.asked /\ JacobianAt(t) /\ PolynomialReady(t)
    /\ acc.stopped \in {"none", "no_anchor_to_match", "no_pose_for_scan"}
    /\ acc.stopped = "no_anchor_to_match" =>
          LET a == Max(acc.anchor) + OffsetOf(acc, dts)
          IN  Cardinality(Poses) >= Order + 1 /\ ~JacobianAt(a) /\ ~InWindow(a - 1)
    /\ acc.stopped = "no_pose_for_scan" =>
          \E t \in Int \cup Times(Max(acc.anchor), dts) : JacobianAt(t) /\ ~PolynomialReady(t)

\* One turn.
LEMMA MatchTurn ==
    ASSUME NEW A, NEW dts, dts[1] \in Int, dts[2] \in Int, NEW acc \in MatchStates(A, dts),
           NEW S \in SUBSET SensorStamps, Matched(acc, S, dts), NEW x \in S, NEW matches
    PROVE  Matched(Tried(acc, x, matches, dts), S, dts)
<1> DEFINE dt == OffsetOf(acc, dts)
           t == x + dt
           a == Max(acc.anchor) + dt
           new == Tried(acc, x, matches, dts)
<1>1. x \in Int /\ dt \in Int /\ (dt = dts[1] \/ dt = dts[2])
  BY StampsAreTimes DEF OffsetOf
<1>2. t \in Int /\ t \in Times(x, dts) /\ a \in Times(Max(acc.anchor), dts)
  BY <1>1 DEF Times
<1>3. Skips(acc, t, new) \/ MissesAnchor(acc, t, a, new) \/ MissesPose(acc, t, a, new)
         \/ Matches(acc, x, t, a, new)
  BY TriedWays
<1>4. JacobianAt(t) => Cardinality(Poses) >= Order + 1
  BY DEF JacobianAt
<1>5. dt = OffsetOf(acc, dts) /\ a = Max(acc.anchor) + dt
  OBVIOUS
<1>6. ASSUME NEW acc2, acc2.used = acc.used PROVE OffsetOf(acc2, dts) = dt
  BY <1>6 DEF OffsetOf
<1> HIDE DEF new, t, a, dt
<1>7. ASSUME Skips(acc, t, new) PROVE Matched(new, S, dts)
  BY <1>7 DEF Skips
<1>8. ASSUME MissesAnchor(acc, t, a, new) PROVE Matched(new, S, dts)
  <2>1. /\ new.used = acc.used /\ new.matched = acc.matched
        /\ new.asked = acc.asked \cup {t} /\ new.anchor = acc.anchor
        /\ new.stopped = IF InWindow(a - 1) THEN "none" ELSE "no_anchor_to_match"
    BY <1>8 DEF MissesAnchor, MatchStates
  <2>2. ~JacobianAt(a) /\ JacobianAt(t)
    BY <1>8 DEF MissesAnchor
  <2>3. OffsetOf(new, dts) = dt
    BY <1>6, <2>1
  <2>4. Max(new.anchor) + OffsetOf(new, dts) = a
    BY <1>5, <2>1, <2>3
  <2> QED BY <1>4, <2>1, <2>2, <2>4 DEF Matched
<1>9. ASSUME MissesPose(acc, t, a, new) PROVE Matched(new, S, dts)
  <2>1. /\ new.used = acc.used /\ new.matched = acc.matched /\ new.asked = acc.asked /\ new.anchor = acc.anchor
        /\ new.stopped = "no_pose_for_scan"
    BY <1>9 DEF MissesPose, MatchStates
  <2>2. \E u \in Int \cup Times(Max(acc.anchor), dts) : JacobianAt(u) /\ ~PolynomialReady(u)
    BY <1>2, <1>9 DEF MissesPose
  <2> QED BY <2>1, <2>2 DEF Matched
<1>10. ASSUME Matches(acc, x, t, a, new) PROVE Matched(new, S, dts)
  <2>1. /\ new.asked = acc.asked \cup {t, a} /\ new.anchor = acc.anchor /\ new.stopped = "none"
        /\ \/ new.used = acc.used /\ new.matched = acc.matched
           \/ new.used = acc.used \cup {x} /\ new.matched = acc.matched \cup {x}
    BY <1>10 DEF Matches, MatchStates
  <2>2. JacobianAt(t) /\ PolynomialReady(t)
    BY <1>10 DEF Matches
  <2>3. \A y \in new.used : \E u \in Times(y, dts) : u \in new.asked /\ JacobianAt(u) /\ PolynomialReady(u)
    BY <1>2, <2>1, <2>2 DEF Matched
  <2> QED BY <1>4, <2>1, <2>2, <2>3 DEF Matched
<1>11. Matched(new, S, dts)
  BY <1>3, <1>7, <1>8, <1>9, <1>10
<1> QED BY <1>11 DEF new

\* The loop over the scans that are ready.
LEMMA UpdatedFacts ==
    ASSUME NEW st, st.ready \in SUBSET SensorStamps, IsFiniteSet(st.ready),
           IsAnchor(st.anchor), st.ready # {} => st.anchor # {},
           NEW matches, NEW dts, dts[1] \in Int, dts[2] \in Int
    PROVE  LET up == Updated(st, matches, dts)
           IN  /\ Matched(up, st.ready, dts) /\ up.anchor = st.anchor /\ up.asked \in SUBSET Int
               /\ up.stopped # "none" => st.anchor # {}
<1> DEFINE s == Ascending(st.ready)
           n == Len(s)
           up == Updated(st, matches, dts)
<1>1. /\ s \in Seq(SensorStamps) /\ n \in Nat /\ n = Cardinality(st.ready)
      /\ \A i \in 1 .. n : s[i] \in st.ready
  <2>1. st.ready \in SUBSET Int
    BY StampsAreTimes
  <2>2. Cardinality(st.ready) \in Nat /\ s \in [1 .. Cardinality(st.ready) -> st.ready] /\ n = Cardinality(st.ready)
    BY <2>1, AscendingLists
  <2> HIDE DEF s
  <2>3. s \in [1 .. Cardinality(st.ready) -> SensorStamps]
    BY <2>2
  <2> QED BY <2>2, <2>3
<1>2. PICK run : IsMatchRun(run, s, st.anchor, matches, dts, up)
  BY <1>1, MatchRuns
<1> HIDE DEF up, s, n
<1> DEFINE Good(i) == Matched(run[i], st.ready, dts)
           Q == {i \in 0 .. n : Good(i)}
<1>3. Good(0)
  <2>1. run[0] = Unmatched(st.anchor)
    BY <1>2 DEF IsMatchRun
  <2>2. Matched(Unmatched(st.anchor), st.ready, dts)
    BY DEF Matched, Unmatched
  <2> QED BY <2>1, <2>2
<1>4. ASSUME NEW i \in 1 .. n, Good(i - 1) PROVE Good(i)
  <2>1. i - 1 \in 0 .. n /\ s[i] \in st.ready
    BY <1>1
  <2>2. run[i - 1] \in MatchStates(st.anchor, dts) /\ run[i] = Tried(run[i - 1], s[i], matches, dts)
    BY <1>2, <2>1 DEF IsMatchRun, n
  <2>3. Matched(run[i - 1], st.ready, dts)
    BY <1>4
  <2>4. Matched(run[i], st.ready, dts)
    BY <2>1, <2>2, <2>3, MatchTurn
  <2> QED BY <2>4
<1> HIDE DEF Good
<1>5. Good(n)
  <2>1. 0 \in Q /\ \A i \in 1 .. n : i - 1 \in Q => i \in Q
    BY <1>1, <1>3, <1>4
  <2> HIDE DEF Q
  <2>2. \A i \in 0 .. n : i \in Q
    BY <1>1, <2>1, CountUp
  <2>3. n \in Q
    BY <1>1, <2>2
  <2> QED BY <2>3 DEF Q
<1>6. up = run[n] /\ up \in MatchStates(st.anchor, dts) /\ Matched(up, st.ready, dts)
  <2>1. up = run[n] /\ run[n] \in MatchStates(st.anchor, dts)
    BY <1>1, <1>2 DEF IsMatchRun, n
  <2> QED BY <1>5, <2>1 DEF Good
<1>7. up.anchor = st.anchor
  BY <1>6 DEF MatchStates
<1>8. st.ready = {} => up = Unmatched(st.anchor)
  <2>1. st.ready = {} => n = 0
    BY <1>1, FS_EmptySet
  <2>2. run[0] = Unmatched(st.anchor)
    BY <1>2 DEF IsMatchRun
  <2> QED BY <1>6, <2>1, <2>2
<1>9. up.asked \in SUBSET Int /\ (up.stopped # "none" => st.anchor # {})
  <2>1. CASE st.ready = {}
    BY <1>8, <2>1 DEF Unmatched
  <2>2. CASE st.ready # {}
    <3>1. PICK a \in Int : st.anchor = {a}
      BY <2>2 DEF IsAnchor
    <3>2. Max(st.anchor) = a
      BY <3>1, MaxOfOne
    <3>3. Times(Max(st.anchor), dts) \in SUBSET Int
      BY <3>2 DEF Times
    <3> QED BY <1>6, <2>2, <3>3 DEF MatchStates
  <2> QED BY <2>1, <2>2
<1> QED BY <1>6, <1>7, <1>9 DEF up

-----------------------------------------------------------------------------
(* The window under the LiDAR *)

\* A step of the composed system is a step of its window.
LEMMA LidarStepsOfWindow ==
    /\ FeedImu => CacheImu /\ ImuStep
    /\ FeedOther => OtherStep
    /\ \A x \in SensorStamps : FeedLidar(x) => OtherStep
    /\ [LidarNext]_allVars => [Next]_vars
<1>1. FeedImu => CacheImu /\ ImuStep
  BY StepsOfWindow DEF FeedImu
<1>2. FeedOther => OtherStep
  BY StepsOfWindow DEF FeedOther
<1>3. \A x \in SensorStamps : FeedLidar(x) => OtherStep
  BY LidarAssumption DEF FeedLidar, OtherStep, SensorStep
<1>4. [LidarNext]_allVars => [Next]_vars
  BY <1>1, <1>2, <1>3, StepsAreNext DEF LidarNext, allVars, cacheVars
<1> QED BY <1>1, <1>2, <1>3, <1>4

\* The LiDAR updater implements the sliding window: everything proved of SlidingWindow
\* holds in it.
THEOREM LidarImplementsWindow == LidarSpec => Spec
<1>1. LidarInit => Init
  BY DEF LidarInit, CacheInit
<1> QED BY <1>1, LidarStepsOfWindow, PTL DEF LidarSpec, Spec

-----------------------------------------------------------------------------
(* The inductive invariant *)

\* No scan of the stacks, nor the last one that was placed, is newer than the last stamp of
\* the LiDAR, and the last one is in no stack.
ScansHeard ==
    /\ \A x \in raw \cup ready : \E u \in hist[Lidar] : x <= u
    /\ \/ lastUp = -1
       \/ lastUp \notin raw \cup ready /\ \E u \in hist[Lidar] : lastUp <= u

\* A fit with the time t between two of its poses, the tolerance allowed for.
HoldsTime(f, t) == \E c, d \in f.times : c < d /\ c <= t + DtExp /\ t <= d + DtExp

\* The cached Jacobians hold their times.
JacobiansHold == \A k \in DOMAIN jacobians : HoldsTime(jacobians[k], k[2])

\* The inductive invariant, on top of those of the window and the caches.
LidarInv ==
    /\ Stacks
    /\ ScansHeard
    /\ JacobiansHold
    /\ stopped \in Stops
    /\ ExitsHaveACause
    /\ matched \subseteq SensorStamps

\* An interpolation holds the time it is at.
LEMMA AroundHolds ==
    ASSUME IInv, IsFiniteSet(clones), NEW t \in Int, Around(t) # {}
    PROVE  HoldsTime(Fit(Around(t), imuPose), t)
<1> USE ToleranceIsNatural
<1> DEFINE seq == Ascending(Poses)
<1>1. Poses \in SUBSET Int /\ IsFiniteSet(Poses)
  BY PosesAreFinite
<1>2. PICK i, start : IsPlaced(Poses, Order, t, DtExp, i, start)
  BY <1>1, OrderIsOdd, BoundingPlaced DEF Around
<1>3. /\ Cardinality(Poses) \in Nat /\ seq \in [1 .. Cardinality(Poses) -> Poses]
      /\ \A j, k \in 1 .. Cardinality(Poses) : j < k <=> seq[j] < seq[k]
  BY <1>1, AscendingLists
<1>4. /\ i \in 1 .. Cardinality(Poses) /\ i + 1 \in 1 .. Cardinality(Poses) /\ i < i + 1
      /\ i \in start .. start + Order /\ i + 1 \in start .. start + Order
      /\ seq[i] - DtExp <= t /\ t <= seq[i + 1] + DtExp
      /\ Around(t) = {seq[j] : j \in start .. start + Order}
  <2>1. Cardinality(Poses) \in Int /\ Order \in Int
    BY <1>3, OrderIsOdd
  <2> QED BY <1>2, <2>1 DEF IsPlaced, Around
<1> HIDE DEF seq
<1>5. seq[i] \in Around(t) /\ seq[i + 1] \in Around(t)
  BY <1>4
<1>6. seq[i] \in Int /\ seq[i + 1] \in Int /\ seq[i] < seq[i + 1]
  BY <1>1, <1>3, <1>4
<1>7. seq[i] <= t + DtExp
  BY <1>4, <1>6
<1> QED BY <1>4, <1>5, <1>6, <1>7 DEF HoldsTime, Fit

\* A time is between two poses as long as a Jacobian taken there is current.
LEMMA HeldTimes ==
    ASSUME IInv, CacheInv, JacobiansHold, NEW t \in Int, JacobianAt(t), ~PolynomialReady(t)
    PROVE  ~(DOMAIN fej \subseteq Poses)
<1>1. HasJacobian(Lidar, t) /\ Cardinality(Poses) >= Order + 1
  BY DEF JacobianAt
<1>2. HoldsTime(jacobians[<<Lidar, t>>], t) /\ jacobians[<<Lidar, t>>].times \subseteq Poses
  BY <1>1 DEF HasJacobian, JacobiansHold
<1>3. PICK c \in Poses, d \in Poses : c < d /\ c <= t + DtExp /\ t <= d + DtExp
  BY <1>2 DEF HoldsTime
<1>4. Around(t) # {}
  BY <1>1, <1>3, WindowHolds DEF CacheInv
<1> QED BY <1>4, WindowIsReady

\* A time without a polynomial is outside the window.
LEMMA OutsideTimes ==
    ASSUME IInv, CacheInv, Cardinality(Poses) >= Order + 1, NEW t \in Int, ~PolynomialReady(t),
           DOMAIN fej \subseteq Poses
    PROVE  (\A c \in Poses : t + DtExp < c) \/ (\A c \in Poses : c + DtExp < t)
<1> USE ToleranceIsNatural
<1>1. Around(t) = {}
  BY WindowIsReady
<1>2. (\A c \in Poses : ~(c <= t + DtExp)) \/ (\A c \in Poses : ~(t <= c + DtExp))
  BY <1>1, WindowHolds DEF CacheInv
<1>3. Poses \in SUBSET Int
  BY PosesAreFinite DEF CacheInv
<1> QED BY <1>2, <1>3

\* A time before the window has no pose that is no keyframe before it.
LEMMA BeforeWindow ==
    ASSUME IInv, IsFiniteSet(clones), NEW t \in Int, ~InWindow(t)
    PROVE  (\A c \in Poses \ keyframes : t < c) /\ Poses \ keyframes # {}
<1> DEFINE N == Poses \ keyframes
<1>1. N # {} /\ ~(t >= Min(N))
  BY DEF InWindow
<1>2. N \in SUBSET Int /\ IsFiniteSet(N)
  <2>1. Poses \in SUBSET Int /\ IsFiniteSet(Poses) /\ N \in SUBSET Poses
    BY PosesAreFinite
  <2> HIDE DEF N
  <2> QED BY <2>1, FS_Subset
<1> HIDE DEF N
<1>3. Min(N) \in N /\ \A c \in N : Min(N) <= c
  BY <1>1, <1>2, MinOfFinite
<1>4. ASSUME NEW c \in N PROVE t < c
  <2>1. c \in Int /\ Min(N) \in Int /\ Min(N) <= c
    BY <1>2, <1>3
  <2> QED BY <1>1, <2>1
<1> QED BY <1>1, <1>4 DEF N

-----------------------------------------------------------------------------
(* A scan *)

\* The offsets of a call: before and after its first update.
Offs == <<offset[Lidar], offset'[Lidar]>>

\* What an initialized filter makes of a scan, st being the stacks with it and up the
\* result of the loop over those that are ready.
ScanUpdate(st, up) ==
    /\ up.used = {} => offset' = offset
    /\ ready' = st.ready \ up.used /\ matched' = up.matched
    /\ \E placed \in SUBSET up.used :
          lastUp' = IF placed = {} THEN st.lastUp ELSE Max(placed)
    /\ stopped' \in {up.stopped} \cup
          IF up.used # {} /\ ~PolynomialReady(Max(st.anchor) + offset'[Lidar])
          THEN {"no_anchor_to_match"} ELSE {}
    /\ jacobians' = Cached(Lidar, up.asked)
    /\ est' = IF up.used = {} THEN est ELSE Rebuilt(Poses, imuPose)
    /\ UNCHANGED fej

\* What is known of that result.
Results(st, up) ==
    /\ ScanUpdate(st, up)
    /\ Matched(up, st.ready, Offs) /\ up.anchor = st.anchor /\ up.asked \in SUBSET Int
    /\ up.stopped # "none" => st.anchor # {}

\* What is known of the stacks.
ScanReceived(st, x) ==
    /\ Receives(st, x) /\ anchor' = st.anchor /\ raw' = st.raw
    /\ raw \cup ready \cup {x} \in SUBSET SensorStamps /\ IsFiniteSet(raw \cup ready \cup {x})
    /\ IF ~initialized
       THEN /\ ready' = st.ready /\ lastUp' = st.lastUp /\ matched' = {}
            /\ UNCHANGED <<stopped, fej, est, jacobians>>
       ELSE \E up : Results(st, up)

\* The stamp of a scan: newer than all there were.
ScanIsNew(x) ==
    /\ x \notin raw \cup ready /\ (x # lastUp \/ lastUp = -1)
    /\ x \in hist'[Lidar] /\ \A u \in hist[Lidar] : \E v \in hist'[Lidar] : u <= v
    /\ hist'[Lidar] \subseteq hist[Lidar] \cup {x}

\* A scan is new.
LEMMA NewScan ==
    ASSUME IInv, LidarInv, NEW x \in SensorStamps, NewStamp(Lidar, x), hist' = Recorded(Lidar, x)
    PROVE  x \notin raw \cup ready /\ ScanIsNew(x)
<1> USE StampsAreTimes
<1>1. Lidar \in Drivers
  BY LidarAssumption DEF Drivers
<1>2. hist[Lidar] \in SUBSET Int /\ x \in Int
  BY <1>1 DEF IInv, TypeOK
<1>3. \A u \in hist[Lidar] : u < x
  BY DEF NewStamp
<1>4. raw \cup ready \in SUBSET Int /\ lastUp \in Int
  BY DEF LidarInv, Stacks
<1>5. ASSUME NEW y \in Int, \E u \in hist[Lidar] : y <= u PROVE y # x
  BY <1>2, <1>3, <1>5
<1>6. x \notin raw \cup ready /\ (x # lastUp \/ lastUp = -1)
  BY <1>4, <1>5 DEF LidarInv, ScansHeard
<1>7. x \in hist'[Lidar] /\ \A u \in hist[Lidar] : \E v \in hist'[Lidar] : u <= v
  BY <1>1, RecordedGrows
<1>8. hist'[Lidar] \subseteq hist[Lidar] \cup {x}
  <2>1. hist \in [Drivers -> SUBSET SensorStamps]
    BY DEF IInv, TypeOK
  <2> QED BY <1>1, <2>1 DEF Recorded
<1> QED BY <1>6, <1>7, <1>8 DEF ScanIsNew

\* A scan, in the facts.
LEMMA FeedLidarFacts ==
    ASSUME IInv, IInv', LidarInv, NEW x \in SensorStamps, FeedLidar(x)
    PROVE  /\ stopped = "none" /\ ScanIsNew(x) /\ ScanReceived(Received(x), x)
           /\ initialized' = initialized /\ Poses' = Poses /\ imu' = imu /\ keyframes' = keyframes
<1> DEFINE st == Received(x)
<1>1. stopped = "none" /\ FeedSensor(Lidar, x) /\ anchor' = st.anchor /\ raw' = st.raw
  BY DEF FeedLidar
<1>2. ~initialized => /\ ready' = st.ready /\ lastUp' = st.lastUp /\ matched' = {}
                      /\ UNCHANGED <<stopped, fej, est, jacobians>>
  BY DEF FeedLidar
<1>3. initialized => \E matches \in SUBSET st.ready : ScanUpdate(st, Updated(st, matches, Offs))
  BY DEF FeedLidar, ScanUpdate, Offs
<1>4. NewStamp(Lidar, x) /\ hist' = Recorded(Lidar, x)
  BY <1>1 DEF FeedSensor
<1>5. initialized' = initialized /\ Poses' = Poses /\ imu' = imu /\ keyframes' = keyframes
  BY <1>1 DEF FeedSensor, Poses
<1>6. x \notin raw \cup ready /\ ScanIsNew(x)
  BY <1>4, NewScan
<1>7. Receives(st, x)
  BY <1>6, ReceivedFacts DEF LidarInv
<1>8. raw \cup ready \cup {x} \in SUBSET SensorStamps /\ IsFiniteSet(raw \cup ready \cup {x})
  <2>1. raw \in SUBSET SensorStamps /\ ready \in SUBSET SensorStamps /\ IsFiniteSet(raw) /\ IsFiniteSet(ready)
    BY DEF LidarInv, Stacks
  <2>2. IsFiniteSet(raw \cup ready)
    BY <2>1, FS_Union
  <2>3. IsFiniteSet((raw \cup ready) \cup {x})
    BY <2>2, FS_AddElement
  <2> QED BY <2>1, <2>3
<1> HIDE DEF st
<1>9. initialized => \E up : Results(st, up)
  <2> SUFFICES ASSUME NEW matches \in SUBSET st.ready, ScanUpdate(st, Updated(st, matches, Offs))
               PROVE  \E up : Results(st, up)
    BY <1>3
  <2>1. Offs[1] \in Int /\ Offs[2] \in Int
    <3>1. Offs[1] \in Offsets /\ Offs[2] \in Offsets
      BY LidarAssumption DEF IInv, TypeOK, Drivers, Offs
    <3> QED BY <3>1, StampsAreTimes
  <2>2. st.ready \in SUBSET (raw \cup ready \cup {x}) /\ IsAnchor(st.anchor) /\ (st.ready # {} => st.anchor # {})
    BY <1>7 DEF Receives
  <2>3. st.ready \in SUBSET SensorStamps /\ IsFiniteSet(st.ready)
    BY <1>8, <2>2, FS_Subset
  <2> DEFINE up == Updated(st, matches, Offs)
  <2>4. /\ Matched(up, st.ready, Offs) /\ up.anchor = st.anchor /\ up.asked \in SUBSET Int
        /\ up.stopped # "none" => st.anchor # {}
    BY <2>1, <2>2, <2>3, UpdatedFacts
  <2> HIDE DEF up
  <2>5. Results(st, up)
    BY <2>4 DEF Results, up
  <2> QED BY <2>5
<1>10. ScanReceived(st, x)
  BY <1>1, <1>2, <1>7, <1>8, <1>9 DEF ScanReceived
<1> QED BY <1>1, <1>5, <1>6, <1>10 DEF st

\* The stacks after a scan.
LEMMA StacksAfterScan ==
    ASSUME IInv, IInv', LidarInv, NEW x \in SensorStamps, ScanIsNew(x), NEW st, ScanReceived(st, x)
    PROVE  Stacks' /\ ScansHeard'
<1> DEFINE all == raw \cup ready \cup {x}
<1>1. all \in SUBSET SensorStamps /\ IsFiniteSet(all) /\ SensorStamps \in SUBSET Int
  BY StampsAreTimes DEF ScanReceived
<1>2. /\ raw' = st.raw /\ anchor' = st.anchor
      /\ st.raw \in SUBSET all /\ st.ready \in SUBSET all /\ st.raw \cap st.ready = {}
      /\ IsAnchor(st.anchor) /\ (st.ready # {} => st.anchor # {})
      /\ st.lastUp = lastUp \/ st.lastUp \in all \ (st.raw \cup st.ready)
  BY DEF ScanReceived, Receives
<1>3. ready' \in SUBSET st.ready /\ (lastUp' = st.lastUp \/ lastUp' \in st.ready \ ready')
  <2>1. CASE ~initialized
    BY <2>1 DEF ScanReceived
  <2>2. CASE initialized
    <3>1. PICK up : Results(st, up)
      BY <2>2 DEF ScanReceived
    <3>2. ready' = st.ready \ up.used /\ up.used \in SUBSET st.ready
      BY <3>1 DEF Results, ScanUpdate, Matched
    <3>3. PICK placed \in SUBSET up.used : lastUp' = IF placed = {} THEN st.lastUp ELSE Max(placed)
      BY <3>1 DEF Results, ScanUpdate
    <3>4. ASSUME placed # {} PROVE Max(placed) \in placed
      <4>1. placed \in SUBSET all
        BY <1>2, <3>2
      <4>2. placed \in SUBSET Int /\ IsFiniteSet(placed)
        <5> HIDE DEF all
        <5> QED BY <1>1, <4>1, FS_Subset
      <4> QED BY <3>4, <4>2, MaxOfFinite
    <3> QED BY <3>2, <3>3, <3>4
  <2> QED BY <2>1, <2>2
<1>4. ASSUME NEW y \in Int, \E u \in hist[Lidar] : y <= u PROVE \E u \in hist'[Lidar] : y <= u
  <2>1. hist[Lidar] \in SUBSET Int /\ hist'[Lidar] \in SUBSET Int
    BY LidarAssumption, StampsAreTimes DEF IInv, TypeOK, Drivers
  <2>2. PICK u \in hist[Lidar] : y <= u
    BY <1>4
  <2>3. PICK v \in hist'[Lidar] : u <= v
    BY DEF ScanIsNew
  <2>4. u \in Int /\ v \in Int
    BY <2>1
  <2> QED BY <2>2, <2>3, <2>4
<1>5. \A y \in all : \E u \in hist'[Lidar] : y <= u
  <2>1. \E u \in hist'[Lidar] : x <= u
    <3>1. x \in hist'[Lidar] /\ x \in Int
      BY <1>1 DEF ScanIsNew
    <3> QED BY <3>1
  <2>2. \A y \in raw \cup ready : y \in Int /\ \E u \in hist[Lidar] : y <= u
    BY <1>1 DEF LidarInv, ScansHeard
  <2> QED BY <1>4, <2>1, <2>2
<1>6. lastUp' \in Int /\ (lastUp' = -1 \/ \E u \in hist'[Lidar] : lastUp' <= u)
  <2>1. CASE lastUp' \in all
    <3>1. lastUp' \in SensorStamps /\ SensorStamps \in SUBSET Int
      <4> HIDE DEF all
      <4> QED BY <1>1, <2>1
    <3> QED BY <1>5, <2>1, <3>1
  <2>2. CASE lastUp' = lastUp
    <3>1. lastUp \in Int /\ (lastUp = -1 \/ \E u \in hist[Lidar] : lastUp <= u)
      BY DEF LidarInv, Stacks, ScansHeard
    <3> QED BY <1>4, <2>2, <3>1
  <2> QED BY <1>2, <1>3, <2>1, <2>2
<1>7. lastUp' = -1 \/ lastUp' \notin raw' \cup ready'
  <2>1. CASE lastUp' \in st.ready \ ready'
    BY <1>2, <2>1
  <2>2. CASE lastUp' = st.lastUp /\ st.lastUp # lastUp
    BY <1>2, <1>3, <2>2
  <2>3. CASE lastUp' = st.lastUp /\ st.lastUp = lastUp
    <3>1. lastUp = -1 \/ lastUp \notin all
      BY DEF LidarInv, ScansHeard, ScanIsNew
    <3> QED BY <1>2, <1>3, <2>3, <3>1
  <2> QED BY <1>3, <2>1, <2>2, <2>3
<1>8. Stacks'
  <2>1. raw' \in SUBSET all /\ ready' \in SUBSET all
    BY <1>2, <1>3
  <2>2. /\ raw' \in SUBSET SensorStamps /\ ready' \in SUBSET SensorStamps
        /\ IsFiniteSet(raw') /\ IsFiniteSet(ready')
    <3> HIDE DEF all
    <3> QED BY <1>1, <2>1, FS_Subset
  <2>3. raw' \cap ready' = {} /\ IsAnchor(anchor') /\ (ready' # {} => anchor' # {})
    BY <1>2, <1>3
  <2> QED BY <1>6, <2>2, <2>3 DEF Stacks, IsAnchor
<1>9. ScansHeard'
  <2>1. \A y \in raw' \cup ready' : \E u \in hist'[Lidar] : y <= u
    BY <1>2, <1>3, <1>5
  <2> QED BY <1>6, <1>7, <2>1 DEF ScansHeard
<1> QED BY <1>8, <1>9

\* The caches after a scan: a pose of a used scan needs a window, which lets the estimates
\* be fitted anew.
LEMMA CachesAfterScan ==
    ASSUME IInv, IInv', NoGt, CacheInv, LidarInv, OtherStep, UNCHANGED initialized,
           NEW x, NEW st, ScanReceived(st, x)
    PROVE  CacheInv' /\ JacobiansHold' /\ UNCHANGED fej
<1>1. CASE ~initialized
  <2>1. UNCHANGED <<fej, est, jacobians>>
    BY <1>1 DEF ScanReceived
  <2>2. JacobiansOK' /\ JacobiansHold'
    BY <2>1 DEF CacheInv, LidarInv, JacobiansOK, JacobiansHold, HoldsTime
  <2> QED BY <2>1, <2>2, CacheInvKept
<1>2. CASE initialized
  <2>1. PICK up : Results(st, up)
    BY <1>2 DEF ScanReceived
  <2> DEFINE new == {<<Lidar, t>> : t \in {u \in up.asked : Computes(Lidar, u)}}
  <2>2. /\ up.asked \in SUBSET Int /\ (up.used # {} => Cardinality(Poses) >= Order + 1)
        /\ fej' = fej /\ est' = IF up.used = {} THEN est ELSE Rebuilt(Poses, imuPose)
    BY <2>1 DEF Results, ScanUpdate, Matched
  <2>3. jacobians' = [k \in DOMAIN jacobians \cup new |->
                        IF k \in new THEN Fit(Around(k[2]), imuPose) ELSE jacobians[k]]
    BY <2>1 DEF Results, ScanUpdate, Cached
  <2>4. \A k \in new : k[1] \in Drivers /\ k[2] \in Int /\ Around(k[2]) # {}
    BY <2>2, LidarAssumption DEF Computes, PolynomialReady, PolynomialIn, Around, Drivers
  <2>5. ASSUME NEW t \in Int, Around(t) # {}
        PROVE  Fit(Around(t), imuPose) \in Fits /\ HoldsTime(Fit(Around(t), imuPose), t)
    <3>1. Around(t) \in SUBSET Int
      BY AroundIsRun, PosesAreFinite DEF CacheInv
    <3> QED BY <2>5, <3>1, AroundHolds DEF CacheInv, Fit, Fits
  <2> HIDE DEF new
  <2>6. DOMAIN jacobians' = DOMAIN jacobians \cup new
    BY <2>3
  <2>7. ASSUME NEW k \in DOMAIN jacobians'
        PROVE  k[1] \in Drivers /\ k[2] \in Int /\ jacobians'[k] \in Fits /\ HoldsTime(jacobians'[k], k[2])
    <3>1. CASE k \in new
      <4>1. jacobians'[k] = Fit(Around(k[2]), imuPose)
        BY <2>3, <3>1
      <4> QED BY <2>4, <2>5, <3>1, <4>1
    <3>2. CASE k \notin new
      <4>1. k \in DOMAIN jacobians /\ jacobians'[k] = jacobians[k]
        BY <2>3, <2>6, <3>2
      <4> QED BY <4>1 DEF CacheInv, JacobiansOK, LidarInv, JacobiansHold
    <3> QED BY <3>1, <3>2
  <2>8. JacobiansOK' /\ JacobiansHold'
    BY <2>7 DEF JacobiansOK, JacobiansHold, HoldsTime
  <2>9. UNCHANGED <<fej, est>> \/ Refitted
    <3>1. Cardinality(Poses) \in Nat
      BY PosesAreFinite, FS_CardinalityType DEF CacheInv
    <3>2. ASSUME Cardinality(Poses) >= Order + 1 PROVE ~(Cardinality(Poses) < Order + 1)
      BY <3>1, <3>2, OrderIsOdd
    <3> QED BY <1>2, <2>2, <3>2 DEF Refitted
  <2> QED BY <2>2, <2>8, <2>9, CacheInvKept
<1> QED BY <1>1, <1>2

\* The exits of a scan.
LEMMA ExitsAfterScan ==
    ASSUME IInv, IInv', CacheInv, LidarInv, stopped = "none", UNCHANGED <<fej, Poses>>,
           NEW x, NEW st, ScanReceived(st, x)
    PROVE  stopped' \in Stops /\ ExitsHaveACause'
<1> USE ToleranceIsNatural
<1> DEFINE behind == \E a \in Anchored' : \A c \in Poses : a + DtExp < c
           ahead == \E a \in Anchored' : \A c \in Poses : c + DtExp < a
           dangling == ~(DOMAIN fej \subseteq Poses)
<1>1. IsAnchor(st.anchor) /\ anchor' = st.anchor
  BY DEF ScanReceived, Receives
<1>2. CASE ~initialized
  <2>1. stopped' = "none"
    BY <1>2 DEF ScanReceived
  <2> QED BY <2>1 DEF Stops, ExitsHaveACause
<1>3. CASE initialized
  <2>1. PICK up : Results(st, up)
    BY <1>3 DEF ScanReceived
  <2>2. /\ Matched(up, st.ready, Offs) /\ up.anchor = st.anchor
        /\ up.stopped # "none" => st.anchor # {}
        /\ up.used = {} => offset' = offset
        /\ stopped' \in {up.stopped} \cup
              IF up.used # {} /\ ~PolynomialReady(Max(st.anchor) + offset'[Lidar])
              THEN {"no_anchor_to_match"} ELSE {}
        /\ up.stopped \in {"none", "no_anchor_to_match", "no_pose_for_scan"}
    BY <2>1 DEF Results, ScanUpdate, Matched
  <2>3. up.used # {} => st.anchor # {} /\ Cardinality(Poses) >= Order + 1
    BY <2>2 DEF ScanReceived, Receives, Matched
  <2>4. offset[Lidar] \in Int /\ offset'[Lidar] \in Int
    <3>1. offset[Lidar] \in Offsets /\ offset'[Lidar] \in Offsets
      BY LidarAssumption DEF IInv, TypeOK, Drivers
    <3> QED BY <3>1, StampsAreTimes
  <2>5. ASSUME st.anchor # {}
        PROVE  LET a == Max(st.anchor) + offset'[Lidar] IN a \in Int /\ a \in Anchored'
    <3>1. PICK a0 \in Int : st.anchor = {a0}
      BY <1>1, <2>5 DEF IsAnchor
    <3>2. Max(st.anchor) = a0
      BY <3>1, MaxOfOne
    <3> QED BY <1>1, <2>4, <3>1, <3>2 DEF Anchored
  <2>6. CASE stopped' = "no_anchor_to_match" /\ stopped' # up.stopped
    <3> DEFINE a == Max(st.anchor) + offset'[Lidar]
    <3>1. ~PolynomialReady(a) /\ up.used # {}
      BY <2>2, <2>6
    <3>2. a \in Int /\ a \in Anchored' /\ Cardinality(Poses) >= Order + 1
      BY <2>3, <2>5, <3>1
    <3> HIDE DEF a
    <3>3. DOMAIN fej \subseteq Poses => (\A c \in Poses : a + DtExp < c) \/ (\A c \in Poses : c + DtExp < a)
      BY <3>1, <3>2, OutsideTimes
    <3>4. behind \/ ahead \/ dangling
      BY <3>2, <3>3
    <3> QED BY <2>6, <3>4 DEF Stops, ExitsHaveACause
  <2>7. CASE stopped' = "no_anchor_to_match" /\ stopped' = up.stopped
    <3> DEFINE a == Max(st.anchor) + offset'[Lidar]
    <3>1. OffsetOf(up, Offs) = offset'[Lidar]
      BY <2>2 DEF OffsetOf, Offs
    <3>2. Cardinality(Poses) >= Order + 1 /\ ~JacobianAt(a) /\ ~InWindow(a - 1)
      BY <2>2, <2>7, <3>1 DEF Matched
    <3>3. a \in Int /\ a \in Anchored' /\ a - 1 \in Int
      <4>1. st.anchor # {}
        BY <2>2, <2>7
      <4> QED BY <2>5, <4>1
    <3> HIDE DEF a
    <3>4. Poses \in SUBSET Int /\ IsFiniteSet(Poses)
      BY PosesAreFinite DEF CacheInv
    <3>5. PICK c \in Poses : a <= c
      <4>1. PICK c \in Poses \ keyframes : a - 1 < c
        BY <3>2, <3>3, BeforeWindow DEF CacheInv
      <4>2. c \in Int /\ a <= c
        BY <3>3, <3>4, <4>1
      <4> QED BY <4>2
    <3>6. a <= Max(Poses)
      <4>1. Max(Poses) \in Poses /\ c <= Max(Poses)
        BY <3>4, MaxOfFinite
      <4>2. Max(Poses) \in Int /\ c \in Int
        BY <3>4, <4>1
      <4> QED BY <3>3, <3>5, <4>1, <4>2
    <3>7. ~PolynomialReady(a)
      BY <3>2, <3>6 DEF JacobianAt
    <3>8. ~(\A d \in Poses : d + DtExp < a)
      <4>1. c \in Int /\ ~(c + DtExp < a)
        BY <3>3, <3>4, <3>5
      <4> QED BY <4>1
    <3>9. DOMAIN fej \subseteq Poses => \A d \in Poses : a + DtExp < d
      BY <3>2, <3>3, <3>7, <3>8, OutsideTimes
    <3>10. behind \/ dangling
      BY <3>3, <3>9
    <3> QED BY <2>7, <3>10 DEF Stops, ExitsHaveACause
  <2>8. CASE stopped' = "no_pose_for_scan"
    <3>1. up.stopped = "no_pose_for_scan"
      BY <2>2, <2>8
    <3>2. PICK t \in Int \cup Times(Max(st.anchor), Offs) : JacobianAt(t) /\ ~PolynomialReady(t)
      BY <2>2, <3>1 DEF Matched
    <3>3. t \in Int
      <4>1. PICK a0 \in Int : st.anchor = {a0}
        BY <1>1, <2>2, <3>1 DEF IsAnchor
      <4>2. Max(st.anchor) = a0
        BY <4>1, MaxOfOne
      <4> QED BY <2>4, <4>2 DEF Times, Offs
    <3>4. dangling
      BY <3>2, <3>3, HeldTimes DEF LidarInv
    <3> QED BY <2>8, <3>4 DEF Stops, ExitsHaveACause
  <2>9. CASE stopped' = "none"
    BY <2>9 DEF Stops, ExitsHaveACause
  <2> QED BY <2>2, <2>6, <2>7, <2>8, <2>9
<1> QED BY <1>2, <1>3

-----------------------------------------------------------------------------
(* An IMU message *)

\* The clones while the map is moved: those before and the new one, at ct.
Widened(S, ct) ==
    /\ S = clones \cup clones' /\ S = clones \cup {ct} /\ ct \in clones' \ clones
    /\ S \in SUBSET Int /\ IsFiniteSet(S) /\ Cardinality(S) \in Nat
    /\ \A c \in clones : c < ct
    /\ keyframes \subseteq keyframes'

\* A message that makes a clone widens the window by it.
LEMMA WindowWidens ==
    ASSUME IInv, IInv', NoGt, CacheInv, FeedImu, clones' \ clones # {}
    PROVE  initialized' /\ \E ct \in Int : Widened(clones \cup clones', ct)
<1>1. ImuStep
  BY LidarStepsOfWindow
<1>2. PICK m \in ImuStamps : ImuMessage(m)
  BY <1>1 DEF ImuStep
<1>3. PICK ct : clones' \subseteq clones \cup {ct}
  BY <1>1, OneCloneAdded
<1> DEFINE S == clones \cup clones'
<1>4. clones \in SUBSET Int /\ clones' \in SUBSET Int /\ S \in SUBSET Int
  BY DEF IInv, TypeOK
<1>5. ct \in clones' \ clones /\ ct \in Int /\ S = clones \cup {ct}
  BY <1>3, <1>4
<1>6. IsFiniteSet(S)
  BY <1>1, FiniteStays, FS_Union DEF CacheInv
<1>7. Cardinality(S) \in Nat
  BY <1>6, FS_CardinalityType
<1>8. (\A c \in clones : c < ct) /\ keyframes \subseteq keyframes'
  BY <1>1, <1>5, StepsAreNext, StepPreserves DEF Preserved, NewestClone
<1>9. initialized'
  BY <1>2, <1>5, TailOfHandler
<1>10. Widened(S, ct)
  BY <1>4, <1>5, <1>6, <1>7, <1>8 DEF Widened
<1> QED BY <1>5, <1>9, <1>10

\* In it there is a polynomial for every time inside.
LEMMA PolynomialInside ==
    ASSUME IInv, CacheInv, NEW S, NEW ct \in Int, Widened(S, ct), Cardinality(S) >= Order + 1,
           NEW t \in Int, \E c \in S : c <= t + DtExp, \E c \in S : t <= c + DtExp
    PROVE  PolynomialIn(S, Added(fej, S, {}), t)
<1> USE OrderIsOdd, ToleranceIsNatural
<1>1. S \in SUBSET Int /\ IsFiniteSet(S) /\ Cardinality(S) >= 2 /\ S = clones \cup {ct} /\ \A c \in clones : c < ct
  BY DEF Widened
<1>2. BoundingPoses(S, Order, t, DtExp) # {}
  <2>1. BoundingIndex(S, t, DtExp) # 0
    BY <1>1, BoundingFound
  <2> QED BY <1>1, <2>1, PosesFound
<1> DEFINE key == Min(BoundingPoses(S, Order, t, DtExp))
           map == Added(fej, S, {})
<1>3. key \in S /\ Newer(S, key) >= Order
  BY <1>1, <1>2, RunStart
<1>4. CompleteOver(map, S)
  BY <1>1, AddedCompletes
<1>5. DOMAIN map \subseteq S
  <2>1. Polynomials(fej) /\ {} \in SUBSET Int
    BY DEF CacheInv
  <2> QED BY <1>1, <2>1, AddedIsOfPoses
<1> HIDE DEF key, map
<1>6. key \in DOMAIN map
  BY <1>3, <1>4 DEF CompleteOver
<1> QED BY <1>2, <1>5, <1>6 DEF PolynomialIn, key, map

\* The poses from the third one on are some of them.
LEMMA FromIsPart ==
    ASSUME NEW S \in SUBSET Int, IsFiniteSet(S), NEW n, From(S, n) # {}
    PROVE  Min(From(S, n)) \in From(S, n) /\ Min(From(S, n)) \in S
<1> DEFINE F == From(S, n)
<1>1. F \in SUBSET S
  BY DEF From
<1>2. F # {}
  OBVIOUS
<1> HIDE DEF F
<1>3. F \in SUBSET Int /\ IsFiniteSet(F)
  BY <1>1, FS_Subset
<1> QED BY <1>1, <1>2, <1>3, MinOfFinite DEF F

\* Without a third pose from the oldest that is no keyframe on, there are at most two that
\* are no keyframe, and a keyframe older than those.
LEMMA FewOthers ==
    ASSUME NEW S \in SUBSET Int, IsFiniteSet(S), Cardinality(S) \in Nat, Cardinality(S) >= 3,
           S \ keyframes # {}, From(S, 3) = {}
    PROVE  /\ Cardinality(S \ keyframes) <= 2
           /\ \E k \in S \cap keyframes : \A c \in S \ keyframes : k < c
<1> DEFINE N == S \ keyframes
           U == {d \in S : Min(N) <= d}
<1>1. N \in SUBSET Int /\ IsFiniteSet(N) /\ N # {} /\ N \in SUBSET S
  <2>1. N \in SUBSET S /\ N # {}
    OBVIOUS
  <2> HIDE DEF N
  <2> QED BY <2>1, FS_Subset
<1>2. U \in SUBSET S
  OBVIOUS
<1> HIDE DEF N
<1>3. Min(N) \in N /\ \A c \in N : Min(N) <= c
  BY <1>1, MinOfFinite
<1>4. N \in SUBSET U /\ Min(N) \in Int
  BY <1>1, <1>3
<1>5. Max(S) \in S /\ \A c \in S : c <= Max(S)
  <2>1. S # {}
    BY <1>1
  <2> QED BY <2>1, MaxOfFinite
<1>6. {d \in S : Min(N) <= d /\ d <= Max(S)} = U
  BY <1>5
<1>7. ~(Cardinality(U) >= 3)
  BY <1>5, <1>6 DEF From, N
<1> HIDE DEF U
<1>8. IsFiniteSet(U) /\ Cardinality(U) \in Nat
  BY <1>2, FS_Subset, FS_CardinalityType
<1>9. Cardinality(N) <= 2
  <2>1. Cardinality(N) <= Cardinality(U)
    BY <1>4, <1>8, FS_Subset
  <2>2. Cardinality(N) \in Nat
    BY <1>1, FS_CardinalityType
  <2> QED BY <1>7, <1>8, <2>1, <2>2
<1>10. PICK k \in S : k \notin U
  <2>1. S # U
    BY <1>7
  <2> QED BY <1>2, <2>1
<1>11. k \in Int /\ k < Min(N)
  <2>1. ~(Min(N) <= k)
    BY <1>10 DEF U
  <2>2. k \in Int
    BY <1>10
  <2> QED BY <1>4, <2>1, <2>2
<1>12. \A c \in N : k < c
  BY <1>1, <1>3, <1>4, <1>11
<1>13. k \in S \cap keyframes
  <2>1. k \notin N
    BY <1>4, <1>10
  <2> QED BY <1>10, <2>1 DEF N
<1> QED BY <1>9, <1>12, <1>13 DEF N

\* What propagate_map_frame does with an anchor at the time a in a window of enough poses.
MapWays(S, a) ==
    LET at == a + offset[Lidar]
        due == Cardinality(S) >= 3 /\ at <= Min(From(S, 3))
    IN  \/ stopped' = "no_third_clone" /\ anchor' = anchor /\ Cardinality(S) >= 3 /\ From(S, 3) = {}
        \/ stopped' = stopped /\ anchor' = anchor /\ ~due
        \/ /\ stopped' = "no_anchor_to_move" /\ anchor' = anchor
           /\ due /\ From(S, 3) # {} /\ ~PolynomialIn(S, Added(fej, S, {}), at)
        \/ stopped' = stopped /\ anchor' = {Max(S) - offset[Lidar]} /\ due

\* The ways it may go.
LEMMA MapMovedWays ==
    ASSUME NEW S, NEW a \in Int, anchor = {a}, MapMoved(S)
    PROVE  \/ Cardinality(S) < Order + 1 /\ UNCHANGED <<anchor, stopped>>
           \/ ~(Cardinality(S) < Order + 1) /\ MapWays(S, a)
<1>1. Max(anchor) = a /\ anchor # {}
  BY MaxOfOne
<1> DEFINE at == a + offset[Lidar]
           due == Cardinality(S) >= 3 /\ at <= Min(From(S, 3))
<1>2. IF Cardinality(S) < Order + 1
      THEN UNCHANGED <<anchor, stopped>>
      ELSE IF Cardinality(S) >= 3 /\ From(S, 3) = {}
      THEN stopped' = "no_third_clone" /\ UNCHANGED anchor
      ELSE IF ~due THEN UNCHANGED <<anchor, stopped>>
      ELSE IF ~PolynomialIn(S, Added(fej, S, {}), at)
      THEN stopped' = "no_anchor_to_move" /\ UNCHANGED anchor
      ELSE anchor' = {Max(S) - offset[Lidar]} /\ UNCHANGED stopped
  BY <1>1 DEF MapMoved
<1> HIDE DEF at
<1>3. due => Cardinality(S) >= 3
  OBVIOUS
<1>4. due <=> Cardinality(S) >= 3 /\ at <= Min(From(S, 3))
  OBVIOUS
<1> HIDE DEF due
<1> QED BY <1>2, <1>3, <1>4 DEF MapWays, at

\* The IMU handler leaves the offsets to the updates.
LEMMA ImuKeepsOffsets == ASSUME ImuStep PROVE offset' = offset /\ hist' = hist
BY DEF ImuStep, ImuMessage, InitFails, Initialize, FeedImuFirstClone, FeedImuClone, FeedImuOnly

\* The map after an IMU message.
LEMMA MapAfterImu ==
    ASSUME IInv, IInv', NoGt, CacheInv, LidarInv, FeedImu
    PROVE  /\ IsAnchor(anchor') /\ (anchor # {} => anchor' # {})
           /\ stopped' \in Stops /\ ExitsHaveACause'
<1> USE ToleranceIsNatural
<1>1. stopped = "none" /\ IsAnchor(anchor) /\ ImuStep /\ offset' = offset
  BY LidarStepsOfWindow, ImuKeepsOffsets DEF FeedImu, LidarInv, Stacks
<1>2. CASE UNCHANGED <<anchor, stopped>>
  BY <1>1, <1>2 DEF Stops, ExitsHaveACause
<1>3. CASE ~UNCHANGED <<anchor, stopped>>
  <2> DEFINE S == clones \cup clones'
  <2>1. clones' \ clones # {} /\ MapMoved(S)
    BY <1>3 DEF FeedImu
  <2>2. PICK ct \in Int : Widened(S, ct)
    BY <2>1, WindowWidens
  <2>3. PICK a \in Int : anchor = {a}
    <3>1. anchor # {}
      BY <1>3, <2>1 DEF MapMoved
    <3> QED BY <1>1, <3>1 DEF IsAnchor
  <2> HIDE DEF S
  <2>4. ~(Cardinality(S) < Order + 1) /\ MapWays(S, a)
    BY <1>3, <2>1, <2>3, MapMovedWays
  <2>5. offset[Lidar] \in Int
    <3>1. offset[Lidar] \in Offsets
      BY LidarAssumption DEF IInv, TypeOK, Drivers
    <3> QED BY <3>1, StampsAreTimes
  <2> DEFINE at == a + offset[Lidar]
  <2>6. S \in SUBSET Int /\ IsFiniteSet(S) /\ Cardinality(S) \in Nat /\ S # {} /\ ct \in clones'
    BY <2>2 DEF Widened
  <2>7. CASE stopped' = "no_anchor_to_move" /\ anchor' = anchor /\ From(S, 3) # {}
             /\ at <= Min(From(S, 3)) /\ ~PolynomialIn(S, Added(fej, S, {}), at)
    <3>1. PICK d \in S : at <= d
      BY <2>6, <2>7, FromIsPart
    <3>2. at \in Int /\ d \in Int
      BY <2>5, <2>6
    <3>3. at <= d + DtExp
      BY <3>1, <3>2
    <3>4. Cardinality(S) >= Order + 1
      BY <2>4, <2>6, OrderIsOdd
    <3>5. \A c \in S : ~(c <= at + DtExp)
      BY <2>2, <2>7, <3>2, <3>3, <3>4, PolynomialInside
    <3>6. \A c \in S : at + DtExp < c
      <4> HIDE DEF at
      <4> QED BY <2>6, <3>2, <3>5
    <3>7. ASSUME NEW c \in Poses' PROVE at + DtExp < c
      <4>1. CASE c \in clones'
        BY <2>2, <3>6, <4>1 DEF Widened
      <4>2. CASE c \in imuPose'
        <5>1. c = stateTime' /\ initialized'
          BY <2>1, <4>2, WindowWidens DEF IInv, ImuPoseIsNow
        <5>2. ct <= c /\ ct \in S /\ c \in Int
          BY <2>2, <5>1 DEF IInv, CaughtUp, Poses, TypeOK, Widened
        <5>3. at + DtExp < ct
          BY <3>6, <5>2
        <5> HIDE DEF at
        <5> QED BY <3>2, <5>2, <5>3
      <4> QED BY <4>1, <4>2 DEF Poses
    <3>8. at \in Anchored'
      BY <1>1, <2>3, <2>7 DEF Anchored
    <3> HIDE DEF at
    <3>9. ExitsHaveACause'
      BY <2>7, <3>7, <3>8 DEF ExitsHaveACause
    <3> QED BY <2>3, <2>7, <3>9 DEF Stops, IsAnchor
  <2>8. CASE stopped' = "no_third_clone" /\ anchor' = anchor /\ Cardinality(S) >= 3 /\ From(S, 3) = {}
    <3>1. S = clones \cup clones' /\ keyframes \subseteq keyframes' /\ ct \in S /\ \A c \in clones : c < ct
      BY <2>2 DEF Widened
    <3>2. keyframes \subseteq clones /\ keyframes' \subseteq clones'
      BY DEF IInv, KeyframesHeld
    <3>3. ct \notin keyframes
      <4>1. ~(ct < ct)
        OBVIOUS
      <4> QED BY <3>1, <3>2, <4>1
    <3>4. /\ Cardinality(S \ keyframes) <= 2
          /\ \E k \in S \cap keyframes : \A c \in S \ keyframes : k < c
      BY <2>6, <2>8, <3>1, <3>3, FewOthers
    <3>5. clones' \ keyframes' \in SUBSET (S \ keyframes)
      BY <3>1
    <3>6. Cardinality(clones' \ keyframes') <= 2
      <4>1. IsFiniteSet(S \ keyframes)
        BY <2>6, FS_Subset
      <4>2. Cardinality(clones' \ keyframes') <= Cardinality(S \ keyframes) /\ IsFiniteSet(clones' \ keyframes')
        BY <3>5, <4>1, FS_Subset
      <4>3. Cardinality(clones' \ keyframes') \in Nat /\ Cardinality(S \ keyframes) \in Nat
        BY <4>1, <4>2, FS_CardinalityType
      <4> HIDE DEF S
      <4> QED BY <3>4, <4>2, <4>3
    <3>7. \E k \in clones' \cap keyframes' : \A c \in clones' \ keyframes' : k < c
      BY <3>1, <3>2, <3>4, <3>5
    <3>8. anchor' # {}
      BY <2>3, <2>8
    <3> QED BY <1>1, <2>8, <3>6, <3>7, <3>8 DEF Stops, ExitsHaveACause
  <2>9. CASE stopped' = stopped /\ anchor' = {Max(S) - offset[Lidar]}
    <3>1. Max(S) \in Int
      BY <2>6, MaxOfFinite
    <3>2. Max(S) - offset[Lidar] \in Int
      BY <2>5, <3>1
    <3> QED BY <1>1, <2>9, <3>2 DEF Stops, ExitsHaveACause, IsAnchor
  <2> QED BY <1>3, <2>4, <2>7, <2>8, <2>9 DEF MapWays
<1> QED BY <1>2, <1>3

\* The invariant after an IMU message.
LEMMA FeedImuStep ==
    ASSUME IInv, IInv', NoGt, CacheInv, LidarInv, FeedImu PROVE CacheInv' /\ LidarInv'
<1>1. CacheImu /\ ImuStep /\ hist' = hist
  BY LidarStepsOfWindow, ImuKeepsOffsets
<1>2. CacheInv'
  BY <1>1, CacheImuStep
<1>3. raw' \in SUBSET raw /\ ready' = ready /\ lastUp' = lastUp
  BY DEF FeedImu
<1>4. Stacks'
  <2>1. IsFiniteSet(raw')
    BY <1>3, FS_Subset DEF LidarInv, Stacks
  <2> QED BY <1>3, <2>1, MapAfterImu DEF LidarInv, Stacks, IsAnchor
<1>5. ScansHeard'
  BY <1>1, <1>3 DEF LidarInv, ScansHeard
<1>6. JacobiansHold'
  <2>1. CASE clones' \ clones = {}
    <3>1. jacobians' = jacobians
      BY <1>1, <2>1 DEF CacheImu
    <3> QED BY <3>1 DEF LidarInv, JacobiansHold, HoldsTime
  <2>2. CASE clones' \ clones # {}
    <3>1. jacobians' = FlushedJacobians(Min(clones'))
      BY <1>1, <2>2 DEF CacheImu
    <3>2. \A k \in DOMAIN jacobians' : k \in DOMAIN jacobians /\ jacobians'[k] = jacobians[k]
      BY <3>1 DEF FlushedJacobians, Restrict
    <3> QED BY <3>2 DEF LidarInv, JacobiansHold, HoldsTime
  <2> QED BY <2>1, <2>2
<1>7. matched' \subseteq SensorStamps
  BY DEF FeedImu
<1> QED BY <1>2, <1>4, <1>5, <1>6, <1>7, MapAfterImu DEF LidarInv

-----------------------------------------------------------------------------
(* Every step preserves the invariant *)

\* A scan.
LEMMA FeedLidarStep ==
    ASSUME IInv, IInv', NoGt, CacheInv, LidarInv, NEW x \in SensorStamps, FeedLidar(x)
    PROVE  CacheInv' /\ LidarInv'
<1> DEFINE st == Received(x)
<1>1. /\ stopped = "none" /\ ScanIsNew(x) /\ ScanReceived(st, x)
      /\ initialized' = initialized /\ Poses' = Poses
  BY FeedLidarFacts
<1>2. OtherStep
  BY LidarStepsOfWindow
<1> HIDE DEF st
<1>3. CacheInv' /\ JacobiansHold' /\ fej' = fej
  BY <1>1, <1>2, CachesAfterScan
<1>4. Stacks' /\ ScansHeard'
  BY <1>1, StacksAfterScan
<1>5. stopped' \in Stops /\ ExitsHaveACause'
  BY <1>1, <1>3, ExitsAfterScan
<1>6. matched' \subseteq SensorStamps
  <2>1. CASE ~initialized
    BY <1>1, <2>1 DEF ScanReceived
  <2>2. CASE initialized
    <3>1. PICK up : Results(st, up)
      BY <1>1, <2>2 DEF ScanReceived
    <3>2. matched' \subseteq st.ready
      BY <3>1 DEF Results, ScanUpdate, Matched
    <3>3. st.ready \subseteq SensorStamps
      BY <1>1 DEF ScanReceived, Receives
    <3> QED BY <3>2, <3>3
  <2> QED BY <2>1, <2>2
<1> QED BY <1>3, <1>4, <1>5, <1>6 DEF LidarInv

\* A message of another sensor: it may interpolate, and move the window, but leaves the
\* scans and the map alone.
LEMMA FeedOtherKeeps ==
    ASSUME IInv, IInv', NoGt, CacheInv, LidarInv, FeedOther PROVE CacheInv' /\ LidarInv'
<1>1. OtherStep /\ (CacheGnss \/ CacheGnssInit \/ CacheWheel) /\ stopped = "none"
  BY LidarStepsOfWindow DEF FeedOther
<1>2. CacheInv'
  BY <1>1, CacheOtherStep
<1>3. /\ raw' = raw /\ ready' = ready /\ anchor' = anchor /\ lastUp' = lastUp /\ stopped' = stopped
      /\ matched' = {}
  BY DEF FeedOther, lidarVars
<1>4. Stacks' /\ stopped' \in Stops /\ ExitsHaveACause'
  BY <1>1, <1>3 DEF LidarInv, Stacks, IsAnchor, ExitsHaveACause
<1>5. ScansHeard'
  <2>1. \A u \in hist[Lidar] : \E v \in hist'[Lidar] : u <= v
    BY <1>1, HistGrows, LidarAssumption DEF IInv, NoFatalExit, Drivers
  <2>2. hist[Lidar] \in SUBSET Int /\ hist'[Lidar] \in SUBSET Int
    BY LidarAssumption, StampsAreTimes DEF IInv, TypeOK, Drivers
  <2>3. ASSUME NEW y \in Int, \E u \in hist[Lidar] : y <= u PROVE \E u \in hist'[Lidar] : y <= u
    <3>1. PICK u \in hist[Lidar] : y <= u
      BY <2>3
    <3>2. PICK v \in hist'[Lidar] : u <= v
      BY <2>1
    <3>3. u \in Int /\ v \in Int
      BY <2>2
    <3> QED BY <3>1, <3>2, <3>3
  <2>4. raw \cup ready \in SUBSET Int /\ lastUp \in Int
    BY StampsAreTimes DEF LidarInv, Stacks
  <2> QED BY <1>3, <2>3, <2>4 DEF LidarInv, ScansHeard
<1>6. JacobiansHold'
  <2>1. CASE CacheWheel
    <3>1. jacobians' = jacobians
      BY <2>1 DEF CacheWheel
    <3> QED BY <3>1 DEF LidarInv, JacobiansHold, HoldsTime
  <2>2. CASE CacheGnss \/ CacheGnssInit
    <3>1. PICK s \in Drivers : Interpolates(s)
      BY <2>2 DEF CacheGnss, CacheGnssInit, Drivers
    <3>2. PICK Q \in SUBSET Wanted(s) : jacobians' = Cached(s, Q)
      BY <3>1 DEF Interpolates
    <3> DEFINE new == {<<s, t>> : t \in {u \in Q : Computes(s, u)}}
    <3>3. jacobians' = [k \in DOMAIN jacobians \cup new |->
                          IF k \in new THEN Fit(Around(k[2]), imuPose) ELSE jacobians[k]]
      BY <3>2 DEF Cached
    <3>4. \A k \in new : k[2] \in Int /\ Around(k[2]) # {}
      BY WantedAreTimes DEF Computes, PolynomialReady, PolynomialIn, Around
    <3> HIDE DEF new
    <3>5. ASSUME NEW k \in DOMAIN jacobians' PROVE HoldsTime(jacobians'[k], k[2])
      <4>1. CASE k \in new
        <5>1. jacobians'[k] = Fit(Around(k[2]), imuPose)
          BY <3>3, <4>1
        <5> QED BY <3>4, <4>1, <5>1, AroundHolds DEF CacheInv
      <4>2. CASE k \notin new
        <5>1. k \in DOMAIN jacobians /\ jacobians'[k] = jacobians[k]
          BY <3>3, <4>2
        <5> QED BY <5>1 DEF LidarInv, JacobiansHold
      <4> QED BY <4>1, <4>2
    <3> QED BY <3>5 DEF JacobiansHold, HoldsTime
  <2> QED BY <1>1, <2>1, <2>2
<1> QED BY <1>2, <1>3, <1>4, <1>5, <1>6 DEF LidarInv

\* No scan at the start.
LEMMA LidarInitInv == ASSUME LidarInit PROVE CacheInv /\ LidarInv
<1>1. CacheInv
  BY CacheInitInv DEF LidarInit
<1>2. /\ raw = {} /\ ready = {} /\ anchor = {} /\ lastUp = -1 /\ stopped = "none"
      /\ matched = {} /\ DOMAIN jacobians = {}
  BY DEF LidarInit, CacheInit, Nothing
<1>3. Stacks
  BY <1>2, FS_EmptySet DEF Stacks, IsAnchor
<1> QED BY <1>1, <1>2, <1>3 DEF LidarInv, ScansHeard, JacobiansHold, Stops, ExitsHaveACause

\* One step.
LEMMA LidarInvStep ==
    ASSUME IInv, IInv', NoGt, CacheInv, LidarInv, [LidarNext]_allVars PROVE CacheInv' /\ LidarInv'
<1>1. CASE UNCHANGED allVars
  <2>1. /\ fej' = fej /\ est' = est /\ jacobians' = jacobians /\ clones' = clones
        /\ imuPose' = imuPose /\ keyframes' = keyframes /\ stateTime' = stateTime
        /\ initialized' = initialized /\ Poses' = Poses /\ hist' = hist /\ offset' = offset
        /\ raw' = raw /\ ready' = ready /\ anchor' = anchor /\ lastUp' = lastUp /\ stopped' = stopped
        /\ matched' = matched
    BY <1>1 DEF allVars, cacheVars, vars, Poses
  <2>2. CacheInv'
    BY <2>1 DEF CacheInv, JacobiansOK, KeyframesBehind, Polynomials, FitsOver, CompleteOver,
                FitOf, Unbroken, Newer
  <2>3. LidarInv'
    <3>1. Stacks' /\ ScansHeard' /\ JacobiansHold'
      BY <2>1 DEF LidarInv, Stacks, IsAnchor, ScansHeard, JacobiansHold, HoldsTime
    <3>2. ExitsHaveACause'
      BY <2>1 DEF LidarInv, ExitsHaveACause, Anchored
    <3>3. stopped' \in Stops /\ matched' \subseteq SensorStamps
      BY <2>1 DEF LidarInv
    <3> QED BY <3>1, <3>2, <3>3 DEF LidarInv
  <2> QED BY <2>2, <2>3
<1>2. CASE LidarNext
  BY <1>2, FeedImuStep, FeedOtherKeeps, FeedLidarStep DEF LidarNext
<1> QED BY <1>1, <1>2

-----------------------------------------------------------------------------
(* The theorems *)

\* The invariants of the window, the caches and the LiDAR hold throughout.
THEOREM LidarInvariance == ASSUME NoGt PROVE LidarSpec => [](IInv /\ CacheInv /\ LidarInv)
<1>1. LidarSpec => []IInv
  BY LidarImplementsWindow, Invariance, PTL
<1>2. LidarInit => CacheInv /\ LidarInv
  BY LidarInitInv
<1>3. IInv /\ IInv' /\ CacheInv /\ LidarInv /\ [LidarNext]_allVars => CacheInv' /\ LidarInv'
  BY LidarInvStep
<1> QED BY <1>1, <1>2, <1>3, PTL DEF LidarSpec

\* Type correctness of the stacks and the map: a scan is in one stack only.
THEOREM LidarTypeCorrect == ASSUME NoGt PROVE LidarSpec => []LidarTypeOK
<1>1. ASSUME LidarInv PROVE LidarTypeOK
  <2>1. Cardinality(anchor) <= 1 /\ anchor \subseteq Int
    <3>1. IsAnchor(anchor)
      BY <1>1 DEF LidarInv, Stacks
    <3>2. CASE anchor = {}
      BY <3>2, FS_EmptySet
    <3>3. CASE anchor # {}
      <4>1. PICK a \in Int : anchor = {a}
        BY <3>1, <3>3 DEF IsAnchor
      <4>2. Cardinality({a}) = 1
        BY FS_Singleton
      <4> QED BY <4>1, <4>2
    <3> QED BY <3>2, <3>3
  <2> QED BY <1>1, <2>1 DEF LidarInv, Stacks, LidarTypeOK
<1> QED BY <1>1, LidarInvariance, PTL

\* The LiDAR code stops only with an anchor outside the window, beside a polynomial of a
\* pose that has left, or with a keyframe behind fewer than three other clones, however
\* clones, keyframes and offsets have changed around it.
THEOREM ExitsAreExplained == ASSUME NoGt PROVE LidarSpec => []ExitsHaveACause
<1>1. LidarInv => ExitsHaveACause
  BY DEF LidarInv
<1> QED BY <1>1, LidarInvariance, PTL

-----------------------------------------------------------------------------
(* The anchor follows the window *)

\* The third pose of a window whose oldest clone is no keyframe: up to it there are three,
\* and times from the oldest to it are inside.
LEMMA ThirdPose ==
    ASSUME NEW S \in SUBSET Int, IsFiniteSet(S), Cardinality(S) \in Nat, Cardinality(S) >= 3,
           NEW m \in S \ keyframes, \A c \in S : m <= c
    PROVE  /\ From(S, 3) # {}
           /\ Cardinality({d \in S : d <= Min(From(S, 3))}) >= 3
<1>1. Min(S \ keyframes) = m
  <2>1. S \ keyframes \in SUBSET Int /\ m \in S \ keyframes /\ \A c \in S \ keyframes : m <= c
    OBVIOUS
  <2> QED BY <2>1, LeastIsMin
<1>2. ASSUME NEW c \in S PROVE {d \in S : Min(S \ keyframes) <= d /\ d <= c} = {d \in S : d <= c}
  BY <1>1
<1>3. Max(S) \in S /\ \A y \in S : y <= Max(S)
  BY MaxOfFinite
<1>4. {d \in S : d <= Max(S)} = S
  BY <1>3
<1>5. Max(S) \in From(S, 3)
  BY <1>2, <1>3, <1>4 DEF From
<1>6. Min(From(S, 3)) \in From(S, 3) /\ Min(From(S, 3)) \in S
  BY <1>5, FromIsPart
<1>7. Cardinality({d \in S : Min(S \ keyframes) <= d /\ d <= Min(From(S, 3))}) >= 3
  BY <1>6 DEF From
<1>8. Cardinality({d \in S : d <= Min(From(S, 3))}) >= 3
  BY <1>2, <1>6, <1>7
<1> QED BY <1>5, <1>8

\* Of three poses one stays when at most two leave.
LEMMA OneOfThreeStays ==
    ASSUME NEW T, NEW G, IsFiniteSet(T), IsFiniteSet(G), Cardinality(T) >= 3, Cardinality(G) \in {1, 2}
    PROVE  T \ G # {}
<1> SUFFICES ASSUME T \subseteq G PROVE FALSE
  OBVIOUS
<1>1. Cardinality(T) <= Cardinality(G)
  BY FS_Subset
<1>2. Cardinality(T) \in Nat
  BY FS_CardinalityType
<1> QED BY <1>1, <1>2

\* The premises of AnchorFollows.
AtMostTwoLeave ==
    /\ imu' # imu
    /\ Cardinality(clones \ clones') \in {1, 2}
    /\ Cardinality(clones \cup clones') >= (IF Order < 3 THEN 3 ELSE Order + 1)
    /\ \A a \in Anchored : a >= Min(Poses)

\* Clones leave in the message that makes one.
LEMMA LeavingWidens ==
    ASSUME IInv, IInv', FeedImu, AtMostTwoLeave PROVE clones' \ clones # {} /\ clones # {}
<1>1. clones \ clones' # {}
  <2>1. Cardinality({}) = 0
    BY FS_EmptySet
  <2> QED BY <2>1 DEF AtMostTwoLeave
<1>2. PICK m \in ImuStamps : ImuMessage(m)
  BY LidarStepsOfWindow DEF ImuStep
<1>3. InitFails(m) => clones' = clones
  BY DEF InitFails
<1> QED BY <1>1, <1>2, <1>3, TailOfHandler

\* The anchor is not behind the oldest clone.
LEMMA AnchorAhead ==
    ASSUME IInv, CacheInv, clones # {}, NEW a \in Int, Min(Poses) <= a
    PROVE  Min(clones) \in clones /\ (\A c \in clones : Min(clones) <= c) /\ Min(clones) <= a
<1>1. clones \in SUBSET Int /\ IsFiniteSet(clones) /\ stateTime \in Int
  BY DEF IInv, TypeOK, CacheInv
<1>2. Min(clones) \in clones /\ \A c \in clones : Min(clones) <= c
  BY <1>1, MinOfFinite
<1>3. Poses \in SUBSET Int /\ IsFiniteSet(Poses) /\ Poses # {}
  BY PosesAreFinite DEF CacheInv, Poses
<1>4. Min(Poses) \in Poses
  BY <1>3, MinOfFinite
<1>5. CASE Min(Poses) \in clones
  <2>1. Min(clones) \in Int /\ Min(Poses) \in Int /\ Min(clones) <= Min(Poses)
    BY <1>1, <1>2, <1>5
  <2> QED BY <1>2, <2>1
<1>6. CASE Min(Poses) \in imuPose
  <2>1. Min(Poses) = stateTime
    BY <1>6 DEF IInv, ImuPoseIsNow
  <2>2. initialized
    BY DEF IInv, EmptyBeforeInit
  <2>3. Min(clones) <= stateTime /\ Min(clones) \in Int
    BY <1>1, <1>2, <2>2 DEF IInv, CaughtUp, Poses
  <2> QED BY <1>1, <1>2, <2>1, <2>3
<1> QED BY <1>4, <1>5, <1>6 DEF Poses

\* A message that marginalizes at most two clones leaves the anchor in the window: the
\* third one from the oldest stays, and an anchor before it is moved to the newest.
LEMMA AnchorStays ==
    ASSUME IInv, IInv', NoGt, CacheInv, LidarInv, FeedImu, AtMostTwoLeave
    PROVE  \A t \in Anchored' : \E c \in clones' : c <= t
<1> USE OrderIsOdd, ToleranceIsNatural
<1> DEFINE S == clones \cup clones'
           G == clones \ clones'
<1>1. clones' \ clones # {} /\ clones # {} /\ MapMoved(S)
  BY LeavingWidens DEF FeedImu
<1>2. PICK ct \in Int : Widened(S, ct)
  BY <1>1, WindowWidens
<1>3. offset' = offset /\ offset[Lidar] \in Int /\ offset \in [Drivers -> Offsets]
  <2>1. offset' = offset
    BY LidarStepsOfWindow, ImuKeepsOffsets
  <2>2. offset \in [Drivers -> Offsets] /\ offset[Lidar] \in Offsets
    BY LidarAssumption DEF IInv, TypeOK, Drivers
  <2> QED BY <2>1, <2>2, StampsAreTimes
<1>4. /\ Cardinality(S) \in Nat /\ Cardinality(S) >= 3 /\ Cardinality(S) >= Order + 1
      /\ IsFiniteSet(G) /\ Cardinality(G) \in {1, 2}
  <2>1. Cardinality(S) \in Nat
    BY <1>2 DEF Widened
  <2>2. Cardinality(S) >= (IF Order < 3 THEN 3 ELSE Order + 1) /\ Cardinality(G) \in {1, 2}
    BY DEF AtMostTwoLeave
  <2>3. IsFiniteSet(G)
    BY FS_Subset DEF CacheInv
  <2> HIDE DEF S, G
  <2>4. Order \in Nat
    OBVIOUS
  <2>5. Cardinality(S) >= 3 /\ Cardinality(S) >= Order + 1
    <3>1. CASE Order < 3
      BY <2>1, <2>2, <2>4, <3>1
    <3>2. CASE ~(Order < 3)
      BY <2>1, <2>2, <2>4, <3>2
    <3> QED BY <3>1, <3>2
  <2> QED BY <2>1, <2>2, <2>3, <2>5
<1>5. /\ S \in SUBSET Int /\ IsFiniteSet(S) /\ ct \in clones' /\ S = clones \cup {ct}
      /\ (\A c \in clones : c < ct) /\ keyframes \subseteq keyframes' /\ clones' \subseteq S
  BY <1>2 DEF Widened
<1>6. clones \subseteq S /\ S = G \cup clones'
  OBVIOUS
<1> HIDE DEF S, G
<1>7. CASE anchor = {}
  <2>1. anchor' = {}
    BY <1>1, <1>7 DEF MapMoved
  <2> QED BY <2>1 DEF Anchored
<1>8. CASE anchor # {}
  <2>1. PICK a \in Int : anchor = {a}
    BY <1>8 DEF LidarInv, Stacks, IsAnchor
  <2> DEFINE at == a + offset[Lidar]
             m == Min(clones)
  <2>2. at \in Int /\ at \in Anchored /\ Anchored = {at}
    BY <1>3, <2>1 DEF Anchored
  <2>3. m \in clones /\ (\A c \in clones : m <= c) /\ m <= at
    <3>1. at >= Min(Poses)
      BY <2>2 DEF AtMostTwoLeave
    <3>2. Min(Poses) \in Int
      <4>1. Poses \in SUBSET Int /\ IsFiniteSet(Poses) /\ Poses # {}
        BY <1>1, PosesAreFinite DEF CacheInv, Poses
      <4> QED BY <4>1, MinOfFinite
    <3>3. Min(Poses) <= at
      BY <2>2, <3>1, <3>2
    <3> QED BY <1>1, <2>2, <3>3, AnchorAhead
  <2>4. MapWays(S, a)
    <3>1. ~(Cardinality(S) < Order + 1)
      BY <1>4
    <3> QED BY <1>1, <2>1, <3>1, MapMovedWays
  <2>5. anchor' = anchor => Anchored' = {at}
    BY <1>3, <2>2 DEF Anchored
  <2> HIDE DEF at, m
  <2>6. CASE m \in keyframes
    <3>1. m \in clones'
      BY <1>5, <2>6 DEF IInv, KeyframesHeld
    <3>2. anchor' = anchor => \A t \in Anchored' : \E c \in clones' : c <= t
      BY <2>3, <2>5, <3>1
    <3>3. anchor' = {Max(S) - offset[Lidar]} => \A t \in Anchored' : \E c \in clones' : c <= t
      <4>1. Max(S) = ct
        <5>1. \A c \in S : c <= ct
          BY <1>5
        <5> QED BY <1>5, <5>1, MostIsMax
      <4>2. anchor' = {Max(S) - offset[Lidar]} => Anchored' = {ct - offset[Lidar] + offset[Lidar]}
        BY <1>3, <4>1 DEF Anchored
      <4>3. ct - offset[Lidar] + offset[Lidar] = ct
        BY <1>3
      <4> QED BY <1>5, <4>2, <4>3
    <3> QED BY <2>4, <3>2, <3>3 DEF MapWays
  <2>7. CASE m \notin keyframes
    <3> DEFINE third == Min(From(S, 3))
               T == {d \in S : d <= third}
    <3>1. m \in S \ keyframes /\ \A c \in S : m <= c
      <4>1. m \in Int /\ m < ct
        BY <1>5, <1>6, <2>3
      <4> QED BY <1>5, <1>6, <2>3, <2>7, <4>1
    <3>2. From(S, 3) # {} /\ Cardinality(T) >= 3
      BY <1>4, <1>5, <3>1, ThirdPose
    <3>3. third \in S
      BY <1>5, <3>2, FromIsPart
    <3>4. third \in Int /\ IsFiniteSet(T)
      BY <1>5, <3>3, FS_Subset
    <3>5. PICK c \in T : c \notin G
      BY <1>4, <3>2, <3>4, OneOfThreeStays
    <3>6. c \in clones' /\ c <= third /\ c \in Int
      BY <1>5, <1>6, <3>5
    <3> HIDE DEF third, T
    <3>7. Cardinality(S) >= 3
      BY <1>4
    <3>8. \/ anchor' = anchor /\ ~(at <= third)
          \/ anchor' = anchor /\ at <= third /\ ~PolynomialIn(S, Added(fej, S, {}), at)
          \/ anchor' = {Max(S) - offset[Lidar]}
      BY <2>4, <3>2, <3>7 DEF MapWays, third, at
    <3>9. CASE anchor' = anchor /\ ~(at <= third)
      <4>1. c <= at
        BY <2>2, <3>4, <3>6, <3>9
      <4> QED BY <2>5, <3>6, <3>9, <4>1
    <3>10. CASE anchor' = anchor /\ at <= third /\ ~PolynomialIn(S, Added(fej, S, {}), at)
      <4>1. m <= at + DtExp /\ at <= third + DtExp
        <5>1. m \in Int
          BY <1>5, <3>1
        <5> QED BY <2>2, <2>3, <3>4, <3>10, <5>1
      <4>2. PolynomialIn(S, Added(fej, S, {}), at)
        BY <1>2, <1>4, <2>2, <3>1, <3>3, <4>1, PolynomialInside
      <4> QED BY <3>10, <4>2
    <3>11. CASE anchor' = {Max(S) - offset[Lidar]}
      <4>1. Max(S) = ct
        <5>1. \A d \in S : d <= ct
          BY <1>5
        <5> QED BY <1>5, <5>1, MostIsMax
      <4>2. Anchored' = {ct - offset[Lidar] + offset[Lidar]}
        BY <1>3, <3>11, <4>1 DEF Anchored
      <4>3. ct - offset[Lidar] + offset[Lidar] = ct
        BY <1>3
      <4> QED BY <1>5, <4>2, <4>3
    <3> QED BY <3>8, <3>9, <3>10, <3>11
  <2> QED BY <2>6, <2>7
<1> QED BY <1>7, <1>8

\* A step that marginalizes at most two clones of a window with enough of them does not
\* leave the anchor of the map behind, whatever clones, keyframes and offsets there are.
THEOREM AnchorStaysInWindow == ASSUME NoGt PROVE LidarSpec => AnchorFollows
<1>1. ASSUME IInv, IInv', CacheInv, CacheInv', LidarInv, LidarInv', [LidarNext]_allVars, AtMostTwoLeave,
             NEW a \in Anchored'
      PROVE  a >= Min(Poses')
  <2>1. FeedImu
    <3>1. UNCHANGED allVars => imu' = imu
      BY DEF allVars, cacheVars, vars
    <3>2. OtherStep => imu' = imu
      BY <1>1, OtherHandlers
    <3> QED BY <1>1, <3>1, <3>2, LidarStepsOfWindow DEF LidarNext, AtMostTwoLeave
  <2>2. PICK c \in clones' : c <= a
    BY <1>1, <2>1, AnchorStays
  <2>3. Poses' \in SUBSET Int /\ IsFiniteSet(Poses') /\ c \in Poses'
    <3>1. IsFiniteSet({stateTime'})
      BY FS_Singleton
    <3>2. IsFiniteSet(imuPose') /\ IsFiniteSet(clones')
      BY <1>1, <3>1, FS_Subset DEF IInv, ImuPoseIsNow, CacheInv
    <3> QED BY <1>1, <2>2, <3>2, FS_Union DEF IInv, TypeOK, Poses
  <2>4. Min(Poses') \in Poses' /\ Min(Poses') <= c
    BY <2>3, MinOfFinite
  <2>5. a \in Int
    <3>1. offset'[Lidar] \in Offsets
      BY <1>1, LidarAssumption DEF IInv, TypeOK, Drivers
    <3>2. PICK b \in anchor' : a = b + offset'[Lidar]
      BY <1>1 DEF Anchored
    <3>3. anchor' = {} \/ \E i \in Int : anchor' = {i}
      BY <1>1 DEF LidarInv, Stacks, IsAnchor
    <3>4. b \in Int /\ offset'[Lidar] \in Int
      BY <3>1, <3>2, <3>3, StampsAreTimes
    <3> QED BY <3>2, <3>4
  <2>6. c \in Int /\ Min(Poses') \in Int
    BY <2>3, <2>4
  <2> QED BY <2>2, <2>4, <2>5, <2>6
<1>2. IInv /\ IInv' /\ CacheInv /\ CacheInv' /\ LidarInv /\ LidarInv' /\ [LidarNext]_allVars =>
        [ /\ imu' # imu
          /\ Cardinality(clones \ clones') \in {1, 2}
          /\ Cardinality(clones \cup clones') >= (IF Order < 3 THEN 3 ELSE Order + 1)
          /\ \A a \in Anchored : a >= Min(Poses)
          => \A a \in Anchored' : a >= Min(Poses')]_allVars
  BY <1>1 DEF AtMostTwoLeave
<1> QED BY <1>2, LidarInvariance, LidarImplementsWindow, Invariance, PTL DEF LidarSpec, AnchorFollows

-----------------------------------------------------------------------------
(* No exit on a steady course *)

\* A step on a steady course: the time offset of the LiDAR stays, no clone is held as a
\* keyframe, and at most two clones leave at a time, from a window with enough of them.
Steadily ==
    /\ offset'[Lidar] = offset[Lidar]
    /\ keyframes' = {}
    /\ clones \ clones' # {} =>
          /\ Cardinality(clones \ clones') \in {1, 2}
          /\ Cardinality(clones \cup clones') >= (IF Order < 3 THEN 3 ELSE Order + 1)

\* The anchor is between the oldest clone and the newest pose.
AnchorBetween == \A a \in Anchored : (\E c \in clones : c <= a) /\ \E c \in Poses : a <= c

\* What such steps keep: the anchor stays in the window, and every polynomial is one of the
\* poses there are.
OnCourse ==
    /\ keyframes = {}
    /\ IF initialized THEN clones # {} ELSE anchor = {}
    /\ DOMAIN fej \subseteq Poses
    /\ AnchorBetween
    /\ stopped = "none"

\* With the anchor between poses nothing but a missing third clone stops the code.
LEMMA NothingStops ==
    ASSUME IInv', LidarInv', AnchorBetween', DOMAIN fej' \subseteq Poses', stopped' # "no_third_clone"
    PROVE  stopped' = "none"
<1> USE ToleranceIsNatural
<1>1. Poses' \in SUBSET Int /\ clones' \subseteq Poses'
  BY DEF IInv, TypeOK, Poses
<1>2. Anchored' \in SUBSET Int
  <2>1. offset'[Lidar] \in Int
    <3>1. offset'[Lidar] \in Offsets
      BY LidarAssumption DEF IInv, TypeOK, Drivers
    <3> QED BY <3>1, StampsAreTimes
  <2>2. anchor' \in SUBSET Int
    BY DEF LidarInv, Stacks, IsAnchor
  <2> QED BY <2>1, <2>2 DEF Anchored
<1>3. ASSUME NEW a \in Anchored' PROVE ~(\A c \in Poses' : a + DtExp < c)
  <2>1. PICK c \in clones' : c <= a
    BY DEF AnchorBetween
  <2>2. a \in Int /\ c \in Int /\ c \in Poses'
    BY <1>1, <1>2
  <2>3. ~(a + DtExp < c)
    BY <2>1, <2>2
  <2> QED BY <2>2, <2>3
<1>4. ASSUME NEW a \in Anchored' PROVE ~(\A c \in Poses' : c + DtExp < a)
  <2>1. PICK c \in Poses' : a <= c
    BY DEF AnchorBetween
  <2>2. a \in Int /\ c \in Int
    BY <1>1, <1>2
  <2>3. ~(c + DtExp < a)
    BY <2>1, <2>2
  <2> QED BY <2>3
<1> QED BY <1>3, <1>4 DEF LidarInv, ExitsHaveACause, Stops

\* A scan starts a map inside the window or leaves the anchor where it is.
LEMMA ScanOnCourse ==
    ASSUME IInv, IInv', NoGt, CacheInv, LidarInv, LidarInv', OnCourse, Steadily,
           NEW x \in SensorStamps, FeedLidar(x)
    PROVE  OnCourse'
<1> USE LidarAssumption
<1> DEFINE st == Received(x)
<1>1. /\ ScanIsNew(x) /\ ScanReceived(st, x)
      /\ initialized' = initialized /\ Poses' = Poses /\ keyframes' = keyframes
  BY FeedLidarFacts
<1>2. clones' = clones
  BY DEF FeedLidar, FeedSensor
<1> HIDE DEF st
<1>3. fej' = fej
  BY <1>1, LidarStepsOfWindow, CachesAfterScan
<1>4. anchor' = st.anchor /\ (st.anchor = anchor \/ (st.anchor = {st.lastUp} /\ MayStart(st.lastUp) /\ Poses # {}))
  BY <1>1 DEF ScanReceived, Receives
<1>5. offset[Lidar] \in Int /\ anchor' \in SUBSET Int
  <2>1. offset[Lidar] \in Offsets
    BY DEF IInv, TypeOK, Drivers
  <2> QED BY <2>1, StampsAreTimes DEF LidarInv, Stacks, IsAnchor
<1>6. Poses # {} => initialized /\ clones # {}
  BY DEF OnCourse, IInv, EmptyBeforeInit, Poses
<1>7. Poses \in SUBSET Int /\ IsFiniteSet(Poses)
  BY PosesAreFinite DEF CacheInv
<1>8. ASSUME NEW a \in Anchored' PROVE (\E c \in clones : c <= a) /\ \E c \in Poses : a <= c
  <2>1. PICK b \in anchor' : a = b + offset[Lidar]
    BY DEF Anchored, Steadily
  <2>2. CASE st.anchor = anchor
    <3>1. a \in Anchored
      BY <1>4, <2>1, <2>2 DEF Anchored
    <3> QED BY <3>1 DEF OnCourse, AnchorBetween
  <2>3. CASE st.anchor = {st.lastUp} /\ MayStart(st.lastUp) /\ Poses # {}
    <3>1. MayStart(b) /\ a \in Int
      BY <1>4, <1>5, <2>1, <2>3
    <3>2. Min(Poses) \in Int /\ Max(Poses) \in Int /\ Max(Poses) \in Poses
      BY <1>7, <2>3, MinOfFinite, MaxOfFinite
    <3>3. Min(Poses) <= a
      <4>1. Poses \ keyframes = Poses
        BY DEF OnCourse
      <4> QED BY <2>1, <2>3, <3>1, <3>2, <4>1 DEF MayStart, InWindow, OnCourse
    <3>4. \E c \in clones : c <= a
      BY <1>6, <2>3, <3>1, <3>3, AnchorAhead
    <3>5. a <= Max(Poses)
      BY <2>1, <3>1, <3>2 DEF MayStart
    <3> QED BY <3>2, <3>4, <3>5
  <2> QED BY <1>4, <2>2, <2>3
<1>9. AnchorBetween'
  BY <1>1, <1>2, <1>8 DEF AnchorBetween
<1>10. stopped' # "no_third_clone"
  BY <1>1 DEF ScanReceived, Results, ScanUpdate, Matched, OnCourse
<1>11. DOMAIN fej' \subseteq Poses'
  BY <1>1, <1>3 DEF OnCourse
<1>12. stopped' = "none"
  BY <1>9, <1>10, <1>11, NothingStops
<1>13. ~initialized => anchor' = {}
  BY <1>4, <1>6 DEF OnCourse
<1> QED BY <1>1, <1>2, <1>9, <1>11, <1>12, <1>13 DEF OnCourse

\* Without keyframes the other sensors leave the window, and its polynomials at most go.
LEMMA OthersOnCourse ==
    ASSUME IInv, IInv', OnCourse, Steadily, FeedOther PROVE OnCourse'
<1>1. keyframes = {} /\ fatal' = "none"
  BY DEF OnCourse, IInv, NoFatalExit
<1>2. ASSUME NEW s \in Gnss, NEW t \in SensorStamps, FeedGnss(s, t) PROVE clones' = clones
  BY <1>1, <1>2 DEF FeedGnss
<1>3. ASSUME NEW s \in Gnss, NEW t \in SensorStamps, NEW far \in BOOLEAN, NEW success \in BOOLEAN,
             FeedGnssToInit(s, t, far, success)
      PROVE  clones' = clones
  BY <1>1, <1>3 DEF FeedGnssToInit, Stop
<1>4. clones' = clones
  BY <1>2, <1>3 DEF FeedOther, CacheGnss, CacheGnssInit, CacheWheel, FeedWheel
<1>5. UNCHANGED <<initialized, imuPose>>
  BY LidarStepsOfWindow, OtherHandlers
<1>6. Poses' = Poses
  BY <1>4, <1>5 DEF Poses
<1>7. DOMAIN fej' \subseteq DOMAIN fej
  BY DEF FeedOther, CacheGnss, CacheGnssInit, CacheWheel, Interpolates, Refitted, Nothing
<1>8. anchor' = anchor /\ stopped' = stopped
  BY DEF FeedOther, lidarVars
<1>9. Anchored' = Anchored
  BY <1>8 DEF Anchored, Steadily
<1>10. AnchorBetween'
  BY <1>4, <1>6, <1>9 DEF OnCourse, AnchorBetween
<1> QED BY <1>4, <1>5, <1>6, <1>7, <1>8, <1>10 DEF OnCourse, Steadily

\* After an IMU message the polynomials are those of its poses.
LEMMA PolynomialsOfPoses ==
    ASSUME IInv, IInv', CacheInv, CacheInv', CacheImu, initialized' PROVE DOMAIN fej' \subseteq Poses'
<1> DEFINE S == clones \cup clones'
           fej1 == IF clones' \ clones = {} THEN fej ELSE Added(fej, S, {})
<1>1. fej' = Added(fej1, clones' \cup imuPose', imuPose')
  <2>1. clones \cup (clones' \ clones) = S
    OBVIOUS
  <2> QED BY <2>1 DEF CacheImu, ImuPolynomials
<1>2. /\ clones' \in SUBSET Int /\ imuPose' \in SUBSET Int /\ IsFiniteSet(clones') /\ IsFiniteSet(imuPose')
      /\ S \in SUBSET Int /\ IsFiniteSet(S)
  <2>1. IsFiniteSet({stateTime'})
    BY FS_Singleton
  <2>2. IsFiniteSet(imuPose') /\ IsFiniteSet(clones') /\ IsFiniteSet(clones)
    BY <2>1, FS_Subset DEF IInv, ImuPoseIsNow, CacheInv
  <2> QED BY <2>2, FS_Union DEF IInv, TypeOK
<1>3. Polynomials(fej1)
  <2>1. Polynomials(fej)
    BY DEF CacheInv
  <2> HIDE DEF S
  <2>2. Polynomials(Added(fej, S, {}))
    BY <1>2, <2>1, AddedFacts
  <2> QED BY <2>1, <2>2
<1>4. clones' \cup imuPose' \in SUBSET Int /\ IsFiniteSet(clones' \cup imuPose')
  BY <1>2, FS_Union
<1> HIDE DEF fej1
<1> QED BY <1>1, <1>2, <1>3, <1>4, AddedIsOfPoses DEF Poses

\* Without keyframes there is a third clone among three.
LEMMA ThirdClone ==
    ASSUME keyframes = {}, NEW S \in SUBSET Int, IsFiniteSet(S), Cardinality(S) \in Nat, Cardinality(S) >= 3
    PROVE  From(S, 3) # {}
<1>1. S # {}
  <2>1. Cardinality({}) = 0
    BY FS_EmptySet
  <2> QED BY <2>1
<1>2. Min(S) \in S \ keyframes /\ \A c \in S : Min(S) <= c
  BY <1>1, MinOfFinite
<1> QED BY <1>2, ThirdPose

\* A message is in the buffer afterwards, and was not before.
LEMMA MessageIsBuffered ==
    ASSUME IInv, initialized, NEW m \in ImuStamps, ImuMessage(m) PROVE imu' # imu
<1>1. NewImu(m) /\ imu' = Buffered(m)
  BY DEF ImuMessage, InitFails, Initialize, FeedImuFirstClone, FeedImuClone, FeedImuOnly
<1>2. stateTime \in imu /\ stateTime \in Poses /\ stateTime < m
  BY <1>1 DEF IInv, CaughtUp, NewImu
<1>3. stateTime \in Int /\ m \in Int /\ KeepTime \in Nat
  BY StampsAreTimes, LimitsAreNatural DEF IInv, TypeOK
<1>4. m \in Buffered(m)
  BY <1>2, <1>3 DEF Buffered
<1>5. m \notin imu
  BY <1>1, <1>3 DEF NewImu
<1> QED BY <1>1, <1>4, <1>5

\* The IMU handler moves the anchor in time.
LEMMA ImuOnCourse ==
    ASSUME IInv, IInv', NoGt, CacheInv, CacheInv', LidarInv, LidarInv', OnCourse, Steadily, FeedImu
    PROVE  OnCourse'
<1> USE LidarAssumption
<1>1. CacheImu /\ ImuStep /\ offset' = offset /\ stopped = "none" /\ keyframes = {}
  BY LidarStepsOfWindow, ImuKeepsOffsets DEF OnCourse
<1>2. PICK m \in ImuStamps : ImuMessage(m)
  BY <1>1 DEF ImuStep
<1>3. initialized => initialized' /\ stateTime <= stateTime'
  BY <1>1, StepsAreNext, StepPreserves DEF Preserved
<1>4. /\ clones \in SUBSET Int /\ clones' \in SUBSET Int /\ Poses \in SUBSET Int /\ Poses' \in SUBSET Int
      /\ clones' \subseteq Poses' /\ stateTime \in Int /\ stateTime' \in Int
  BY DEF IInv, TypeOK, Poses
<1>5. offset[Lidar] \in Int /\ anchor \in SUBSET Int /\ Anchored \in SUBSET Int
  <2>1. offset[Lidar] \in Offsets
    BY DEF IInv, TypeOK, Drivers
  <2>2. offset[Lidar] \in Int /\ anchor \in SUBSET Int
    BY <2>1, StampsAreTimes DEF LidarInv, Stacks, IsAnchor
  <2> QED BY <2>2 DEF Anchored
<1>6. ASSUME initialized, NEW a \in Anchored PROVE stateTime' \in Poses' /\ a <= stateTime'
  <2>1. PICK c \in Poses : a <= c
    BY DEF OnCourse, AnchorBetween
  <2>2. c <= stateTime /\ stateTime <= stateTime' /\ stateTime' \in Poses'
    BY <1>3, <1>6 DEF IInv, CaughtUp
  <2> QED BY <1>4, <1>5, <2>1, <2>2
<1>7. initialized' => DOMAIN fej' \subseteq Poses'
  BY <1>1, PolynomialsOfPoses
<1>8. CASE clones' \ clones = {}
  <2>1. anchor' = anchor /\ stopped' = stopped /\ Anchored' = Anchored
    BY <1>1, <1>8 DEF FeedImu, Anchored
  <2>2. CASE InitFails(m)
    <3>1. ~initialized /\ ~initialized' /\ clones' = clones /\ imuPose' = imuPose /\ fej' = fej
      BY <1>1, <2>2 DEF InitFails, CacheImu, ImuPolynomials
    <3>2. anchor' = {} /\ Anchored' = {} /\ Poses' = Poses
      BY <2>1, <3>1 DEF OnCourse, Anchored, Poses
    <3> QED BY <2>1, <3>1, <3>2 DEF OnCourse, AnchorBetween, Steadily
  <2>3. CASE initialized /\ initialized' /\ clones' = clones /\ clones # {}
    <3>1. AnchorBetween'
      BY <1>6, <2>1, <2>3 DEF OnCourse, AnchorBetween
    <3> QED BY <1>7, <2>1, <2>3, <3>1 DEF OnCourse, Steadily
  <2> QED BY <1>2, <1>8, <2>2, <2>3, TailOfHandler
<1>9. CASE clones' \ clones # {}
  <2> DEFINE S == clones \cup clones'
  <2>1. initialized' /\ MapMoved(S)
    BY <1>9, WindowWidens DEF FeedImu
  <2>2. PICK ct \in Int : Widened(S, ct)
    BY <1>9, WindowWidens
  <2>3. clones' # {}
    BY <1>9
  <2>4. CASE anchor = {}
    <3>1. anchor' = {} /\ stopped' = stopped
      BY <2>1, <2>4 DEF MapMoved
    <3>2. AnchorBetween'
      BY <3>1 DEF AnchorBetween, Anchored
    <3> QED BY <1>1, <1>7, <2>1, <2>3, <3>1, <3>2 DEF OnCourse, Steadily
  <2>5. CASE anchor # {}
    <3>1. PICK a \in Int : anchor = {a}
      BY <2>5 DEF LidarInv, Stacks, IsAnchor
    <3>2. initialized /\ clones # {}
      BY <2>5 DEF OnCourse
    <3>3. \/ UNCHANGED <<anchor, stopped>>
          \/ MapWays(S, a)
      <4> HIDE DEF S
      <4> QED BY <2>1, <3>1, MapMovedWays
    <3>4. /\ S \in SUBSET Int /\ IsFiniteSet(S) /\ Cardinality(S) \in Nat /\ S = clones \cup {ct}
          /\ \A c \in clones : c < ct
          /\ ct \in clones' /\ ct <= stateTime' /\ stateTime' \in Poses'
      <4> HIDE DEF S
      <4>1. stateTime' \in Poses' /\ \A c \in Poses' : c <= stateTime'
        BY <2>1 DEF IInv, CaughtUp
      <4> QED BY <1>4, <2>2, <4>1 DEF Widened
    <3>5. stopped' # "no_third_clone"
      <4>1. Cardinality(S) >= 3 => From(S, 3) # {}
        <5> HIDE DEF S
        <5> QED BY <1>1, <3>4, ThirdClone
      <4> HIDE DEF S
      <4> QED BY <1>1, <3>3, <4>1 DEF MapWays
    <3>6. anchor' = anchor \/ anchor' = {Max(S) - offset[Lidar]}
      <4> HIDE DEF S
      <4> QED BY <3>3 DEF MapWays
    <3>7. Max(S) = ct
      <4>1. Max(S) \in S /\ \A c \in S : c <= Max(S)
        <5> HIDE DEF S
        <5> QED BY <3>4, MaxOfFinite
      <4>2. Max(S) \in Int /\ ct \in S /\ ct \in Int /\ ct <= Max(S)
        BY <3>4, <4>1
      <4>3. Max(S) = ct \/ Max(S) < ct
        <5> HIDE DEF S
        <5> QED BY <3>4, <4>1
      <4> HIDE DEF S
      <4> QED BY <4>2, <4>3
    <3>8. ASSUME NEW t \in Anchored', anchor' = {Max(S) - offset[Lidar]} PROVE t = ct
      <4>1. t = (ct - offset[Lidar]) + offset[Lidar]
        BY <1>1, <3>7, <3>8 DEF Anchored
      <4> QED BY <1>5, <4>1
    <3>9. ASSUME NEW t \in Anchored', anchor' = anchor PROVE t \in Anchored
      BY <1>1, <3>9 DEF Anchored
    <3>10. ASSUME NEW t \in Anchored' PROVE \E c \in Poses' : t <= c
      <4>1. CASE anchor' = anchor
        BY <1>6, <3>2, <3>9, <4>1
      <4>2. CASE anchor' = {Max(S) - offset[Lidar]}
        BY <3>4, <3>8, <4>2
      <4> QED BY <3>6, <4>1, <4>2
    <3>11. ASSUME NEW t \in Anchored' PROVE \E c \in clones' : c <= t
      <4>1. CASE clones \ clones' = {}
        <5>1. clones \subseteq clones'
          BY <4>1
        <5>2. CASE anchor' = anchor
          BY <3>9, <5>1, <5>2 DEF OnCourse, AnchorBetween
        <5>3. CASE anchor' = {Max(S) - offset[Lidar]}
          <6>1. ct \in clones' /\ t = ct /\ ct <= ct
            BY <3>4, <3>8, <5>3
          <6> QED BY <6>1
        <5> QED BY <3>6, <5>2, <5>3
      <4>2. CASE clones \ clones' # {}
        <5>1. imu' # imu
          BY <1>2, <3>2, MessageIsBuffered
        <5>2. \A b \in Anchored : b >= Min(Poses)
          <6>1. Poses \in SUBSET Int /\ IsFiniteSet(Poses)
            BY PosesAreFinite DEF CacheInv
          <6> SUFFICES ASSUME NEW b \in Anchored PROVE b >= Min(Poses)
            OBVIOUS
          <6>2. PICK c \in clones : c <= b
            BY DEF OnCourse, AnchorBetween
          <6>3. c \in Poses
            BY DEF Poses
          <6>4. Min(Poses) \in Poses /\ Min(Poses) <= c
            BY <6>1, <6>3, MinOfFinite
          <6>5. Min(Poses) \in Int /\ c \in Int /\ b \in Int
            BY <1>4, <1>5, <6>4
          <6> QED BY <6>2, <6>4, <6>5
        <5>3. AtMostTwoLeave
          BY <4>2, <5>1, <5>2 DEF AtMostTwoLeave, Steadily
        <5> QED BY <5>3, AnchorStays
      <4> QED BY <4>1, <4>2
    <3>12. AnchorBetween'
      BY <3>10, <3>11 DEF AnchorBetween
    <3>13. stopped' = "none"
      BY <1>7, <2>1, <3>5, <3>12, NothingStops
    <3> QED BY <1>7, <2>1, <2>3, <3>12, <3>13 DEF OnCourse, Steadily
  <2> QED BY <2>4, <2>5
<1> QED BY <1>8, <1>9

\* As long as the time offset of the LiDAR stays, no clone is held as a keyframe, and a
\* message takes at most two clones from a window with enough of them, none of the exits
\* and assertions of the LiDAR code is reached, whatever the scans, their matches and the
\* messages of other sensors.
THEOREM SteadyCourseNeverStops ==
    ASSUME NoGt PROVE LidarSpec /\ [][Steadily]_allVars => []NoLidarExit
<1>1. LidarInit => OnCourse
  <2> SUFFICES ASSUME LidarInit PROVE OnCourse
    OBVIOUS
  <2>1. initialized = FALSE /\ keyframes = {} /\ anchor = {} /\ stopped = "none" /\ DOMAIN fej = {}
    BY DEF LidarInit, CacheInit, Init, Nothing
  <2> QED BY <2>1 DEF OnCourse, AnchorBetween, Anchored
<1>2. ASSUME IInv, IInv', CacheInv, CacheInv', LidarInv, LidarInv', OnCourse,
             [LidarNext]_allVars, [Steadily]_allVars
      PROVE  OnCourse'
  <2>1. CASE UNCHANGED allVars
    <3>1. /\ keyframes' = keyframes /\ initialized' = initialized /\ clones' = clones /\ imuPose' = imuPose
          /\ anchor' = anchor /\ fej' = fej /\ offset' = offset /\ stopped' = stopped
      BY <2>1 DEF allVars, cacheVars, vars
    <3> QED BY <1>2, <3>1 DEF OnCourse, AnchorBetween, Anchored, Poses
  <2>2. CASE LidarNext /\ Steadily
    BY <1>2, <2>2, ScanOnCourse, OthersOnCourse, ImuOnCourse DEF LidarNext
  <2> QED BY <1>2, <2>1, <2>2
<1>3. OnCourse => NoLidarExit
  BY DEF OnCourse, NoLidarExit
<1> QED BY <1>1, <1>2, <1>3, LidarInvariance, PTL DEF LidarSpec

-----------------------------------------------------------------------------
(* No scan is lost *)

\* No scan bears the value last_up_time has before a map has been placed.
NoStampIsUnset == -1 \notin SensorStamps

\* The time of the last placed scan changes when a scan of the stacks replaces it.
LEMMA NewLastUp ==
    ASSUME LidarInv, NoStampIsUnset, NEW y \in SensorStamps, ScanIsNew(y),
           NEW v \in raw \cup ready \cup {y}
    PROVE  v # lastUp
<1>1. lastUp = -1 \/ (lastUp \notin raw \cup ready /\ lastUp # y)
  BY DEF LidarInv, ScansHeard, ScanIsNew
<1>2. v \in SensorStamps
  BY DEF LidarInv, Stacks
<1> QED BY <1>1, <1>2 DEF NoStampIsUnset

\* The ways out of the stacks.
ScanMayLeave(x) ==
    \/ x \in matched'
    \/ x \notin ready /\ lastUp' # lastUp /\ \E a \in anchor' : x = a \/ x + Patience < a
    \/ \A c \in Poses \ keyframes : x + offset[Lidar] < c
    \/ ~initialized' /\ \E i \in imu' : i - x > InitWindow

\* A scan that a message of the LiDAR takes out of the stacks has corrected the filter, has
\* started a map, or is older than the window.
LEMMA ScansLeave ==
    ASSUME IInv, IInv', NoGt, CacheInv, LidarInv, NoStampIsUnset, NEW y \in SensorStamps, FeedLidar(y),
           NEW x \in (raw \cup ready \cup (hist'[Lidar] \ hist[Lidar])) \ (raw' \cup ready')
    PROVE  ScanMayLeave(x)
<1> DEFINE st == Received(y)
<1>1. ScanIsNew(y) /\ ScanReceived(st, y)
  BY FeedLidarFacts
<1> HIDE DEF st
<1>2. x \in raw \cup ready \cup {y} /\ x \in Int /\ offset[Lidar] \in Int
  <2>1. offset[Lidar] \in Offsets
    BY LidarAssumption DEF IInv, TypeOK, Drivers
  <2>2. x \in raw \cup ready \cup {y}
    BY <1>1 DEF ScanIsNew
  <2>3. x \in SensorStamps
    BY <2>2 DEF LidarInv, Stacks
  <2> QED BY <2>1, <2>2, <2>3, StampsAreTimes
<1>3. Receives(st, y) /\ anchor' = st.anchor /\ raw' = st.raw
  BY <1>1 DEF ScanReceived
<1>4. CASE x \notin st.raw \cup st.ready
  <2>1. x \in (raw \cup ready \cup {y}) \ (st.raw \cup st.ready)
    BY <1>2, <1>4
  <2>2. CASE ~InWindow(x + offset[Lidar])
    <3>1. x + offset[Lidar] \in Int
      BY <1>2
    <3>2. \A c \in Poses \ keyframes : x + offset[Lidar] < c
      BY <2>2, <3>1, BeforeWindow DEF CacheInv
    <3> QED BY <3>2 DEF ScanMayLeave
  <2>3. CASE x \notin ready /\ st.lastUp \in raw \cup {y} /\ st.anchor = {st.lastUp} /\ Gives(x, st.lastUp)
    <3>1. \E a \in anchor' : x = a \/ x + Patience < a
      BY <1>3, <2>3 DEF Gives
    <3>2. lastUp' \in raw \cup ready \cup {y}
      <4>1. CASE ~initialized
        BY <1>1, <2>3, <4>1 DEF ScanReceived
      <4>2. CASE initialized
        <5>1. PICK up : Results(st, up)
          BY <1>1, <4>2 DEF ScanReceived
        <5>2. up.used \in SUBSET (raw \cup ready \cup {y})
          BY <1>3, <5>1 DEF Results, Matched, Receives
        <5>3. PICK placed \in SUBSET up.used : lastUp' = IF placed = {} THEN st.lastUp ELSE Max(placed)
          BY <5>1 DEF Results, ScanUpdate
        <5>4. ASSUME placed # {} PROVE Max(placed) \in placed
          <6>1. placed \in SUBSET SensorStamps /\ IsFiniteSet(placed)
            BY <1>1, <5>2, FS_Subset DEF ScanReceived
          <6> QED BY <5>4, <6>1, StampsAreTimes, MaxOfFinite
        <5> QED BY <2>3, <5>2, <5>3, <5>4
      <4> QED BY <4>1, <4>2
    <3>3. lastUp' # lastUp
      BY <1>1, <3>2, NewLastUp
    <3> QED BY <2>3, <3>1, <3>3 DEF ScanMayLeave
  <2> QED BY <1>3, <2>1, <2>2, <2>3 DEF Receives
<1>5. CASE x \in st.raw \cup st.ready
  <2>1. x \in st.ready /\ x \notin ready'
    BY <1>3, <1>5
  <2>2. initialized
    BY <1>1, <2>1 DEF ScanReceived
  <2>3. PICK up : Results(st, up)
    BY <1>1, <2>2 DEF ScanReceived
  <2>4. x \in up.used /\ matched' = up.matched /\ up.matched = up.used
    BY <2>1, <2>3 DEF Results, ScanUpdate, Matched
  <2> QED BY <2>4 DEF ScanMayLeave
<1> QED BY <1>4, <1>5

\* No step loses a scan.
LEMMA ScansStay ==
    ASSUME IInv, IInv', NoGt, CacheInv, LidarInv, NoStampIsUnset, [LidarNext]_allVars,
           NEW x \in (raw \cup ready \cup (hist'[Lidar] \ hist[Lidar])) \ (raw' \cup ready')
    PROVE  ScanMayLeave(x)
<1>1. ~UNCHANGED allVars
  BY DEF allVars, cacheVars, vars
<1>2. ~FeedOther
  <2> SUFFICES ASSUME FeedOther PROVE FALSE
    OBVIOUS
  <2>1. hist'[Lidar] = hist[Lidar]
    <3>1. hist \in [Drivers -> SUBSET SensorStamps] /\ Lidar \in Drivers /\ Lidar \notin Gnss
      BY LidarAssumption DEF IInv, TypeOK, Drivers
    <3>2. ASSUME NEW s \in Gnss, NEW t \in SensorStamps, hist' = Recorded(s, t) PROVE hist'[Lidar] = hist[Lidar]
      BY <3>1, <3>2 DEF Recorded
    <3>3. hist' = hist \/ \E s \in Gnss, t \in SensorStamps : hist' = Recorded(s, t)
      BY DEF FeedOther, CacheGnss, CacheGnssInit, CacheWheel, FeedGnss, FeedGnssToInit, FeedWheel
    <3> QED BY <3>2, <3>3
  <2> QED BY <2>1 DEF FeedOther, lidarVars
<1>3. CASE FeedImu
  <2>1. hist' = hist
    BY <1>3, LidarStepsOfWindow, ImuKeepsOffsets
  <2>2. x \in raw \ raw'
    BY <1>3, <2>1 DEF FeedImu
  <2>3. ~initialized' /\ \E i \in imu' : ~(i - x <= InitWindow)
    BY <1>3, <2>2 DEF FeedImu
  <2>4. imu' \in SUBSET Int /\ x \in Int
    BY <2>2, StampsAreTimes DEF IInv, TypeOK, LidarInv, Stacks
  <2>5. \E i \in imu' : i - x > InitWindow
    BY <2>3, <2>4, LimitsAreNatural
  <2> QED BY <2>3, <2>5 DEF ScanMayLeave
<1>4. CASE \E y \in SensorStamps : FeedLidar(y)
  BY <1>4, ScansLeave
<1> QED BY <1>1, <1>2, <1>3, <1>4 DEF LidarNext

\* A scan that is gone has corrected the filter, has started the map, is older than the
\* window, or was too old to initialize with: one that waits for its pose or has matched
\* nothing is still there.
THEOREM ScansAreKept == ASSUME NoGt, NoStampIsUnset PROVE LidarSpec => NoScanLost
<1>1. IInv /\ IInv' /\ CacheInv /\ LidarInv /\ [LidarNext]_allVars =>
        [\A x \in (raw \cup ready \cup (hist'[Lidar] \ hist[Lidar])) \ (raw' \cup ready') :
            \/ x \in matched'
            \/ x \notin ready /\ lastUp' # lastUp /\ \E a \in anchor' : x = a \/ x + Patience < a
            \/ \A c \in Poses \ keyframes : x + offset[Lidar] < c
            \/ ~initialized' /\ \E i \in imu' : i - x > InitWindow]_allVars
  BY ScansStay DEF ScanMayLeave
<1> QED BY <1>1, LidarInvariance, LidarImplementsWindow, Invariance, PTL DEF LidarSpec, NoScanLost
=============================================================================
