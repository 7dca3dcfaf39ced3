----------------------------- MODULE UpdaterProofs -----------------------------
(***************************************************************************)
(* Theorems about what updaters keep beside the sliding window: the stacks *)
(* of GnssStack and WheelChain and the preintegrations of CpiWindow, for   *)
(* all stamps, offsets, window sizes and interpolation orders.             *)
(***************************************************************************)
EXTENDS CpiWindow, GnssStack, WheelChain, InterpolationCacheProofs

-----------------------------------------------------------------------------
(* Loops that keep a part of a stack *)

\* Each measurement is in the stack once.
Distinct(s) == \A i, j \in DOMAIN s : s[i] = s[j] => i = j

\* The stacks a loop over s goes through when it keeps the entries at the places in kept.
IsSieve(run, s, M, kept) ==
    /\ run \in [0 .. Len(s) -> Seq(M)]
    /\ run[0] = <<>>
    /\ \A i \in 1 .. Len(s) : run[i] = IF i \in kept THEN Append(run[i - 1], s[i]) ELSE run[i - 1]

\* The entries of s up to place i that are kept.
KeptOf(s, kept, i) == {s[j] : j \in kept \cap 1 .. i}

\* What such a loop leaves: the entries it keeps, each once if they were.
LEMMA SieveKeeps ==
    ASSUME NEW M, NEW s \in Seq(M), NEW kept, NEW run, IsSieve(run, s, M, kept)
    PROVE  /\ Members(run[Len(s)]) = KeptOf(s, kept, Len(s))
           /\ Distinct(s) => Distinct(run[Len(s)])
<1> DEFINE n == Len(s)
           Q == {i \in 0 .. n : /\ Members(run[i]) = KeptOf(s, kept, i)
                                /\ Distinct(s) => Distinct(run[i])}
<1>1. n \in Nat /\ DOMAIN s = 1 .. n /\ \A i \in 1 .. n : s[i] \in M
  OBVIOUS
<1> HIDE DEF n
<1>2. 0 \in Q
  <2>1. KeptOf(s, kept, 0) = {}
    BY DEF KeptOf
  <2>2. Members(run[0]) = {} /\ Distinct(run[0])
    BY DEF IsSieve, Members, Distinct
  <2>3. 0 \in 0 .. n /\ Members(run[0]) = KeptOf(s, kept, 0)
    BY <1>1, <2>1, <2>2
  <2> QED BY <2>2, <2>3
<1>3. ASSUME NEW i \in 1 .. n, i - 1 \in Q PROVE i \in Q
  <2> DEFINE old == run[i - 1]
             new == run[i]
  <2>1. /\ i - 1 \in 0 .. n /\ old \in Seq(M)
        /\ Members(old) = KeptOf(s, kept, i - 1) /\ (Distinct(s) => Distinct(old))
        /\ new = IF i \in kept THEN Append(old, s[i]) ELSE old
    BY <1>1, <1>3 DEF IsSieve, n
  <2> HIDE DEF old, new
  <2>2. ASSUME i \notin kept
        PROVE  Members(new) = KeptOf(s, kept, i) /\ (Distinct(s) => Distinct(new))
    <3>1. kept \cap 1 .. i = kept \cap 1 .. (i - 1)
      BY <1>1, <2>2
    <3> QED BY <2>1, <2>2, <3>1 DEF KeptOf
  <2>3. ASSUME i \in kept
        PROVE  Members(new) = KeptOf(s, kept, i) /\ (Distinct(s) => Distinct(new))
    <3>1. kept \cap 1 .. i = (kept \cap 1 .. (i - 1)) \cup {i}
      BY <1>1, <2>3
    <3>2. KeptOf(s, kept, i) = KeptOf(s, kept, i - 1) \cup {s[i]}
      BY <3>1 DEF KeptOf
    <3>3. /\ DOMAIN old = 1 .. Len(old) /\ DOMAIN new = 1 .. Len(old) + 1 /\ Len(old) \in Nat
          /\ new[Len(old) + 1] = s[i] /\ \A j \in 1 .. Len(old) : new[j] = old[j]
      BY <1>1, <2>1, <2>3
    <3>4. Members(new) = Members(old) \cup {s[i]}
      BY <3>3 DEF Members
    <3>5. ASSUME Distinct(s) PROVE Distinct(new)
      <4>1. s[i] \notin Members(old)
        <5> SUFFICES ASSUME NEW j \in kept \cap 1 .. (i - 1), s[j] = s[i] PROVE FALSE
          BY <2>1 DEF KeptOf
        <5>1. j = i
          BY <1>1, <3>5 DEF Distinct
        <5> QED BY <1>1, <5>1
      <4>2. \A j \in 1 .. Len(old) : old[j] # s[i]
        BY <3>3, <4>1 DEF Members
      <4>3. \A j, k \in 1 .. Len(old) : old[j] = old[k] => j = k
        BY <2>1, <3>3, <3>5 DEF Distinct
      <4> QED BY <3>3, <4>2, <4>3 DEF Distinct
    <3> QED BY <2>1, <3>2, <3>4, <3>5
  <2>4. i \in 0 .. n /\ run[i] = new
    BY <1>1 DEF new
  <2> QED BY <2>2, <2>3, <2>4
<1>4. n \in Q
  <2> HIDE DEF Q
  <2>1. \A i \in 0 .. n : i \in Q
    BY <1>1, <1>2, <1>3, CountUp
  <2> QED BY <1>1, <2>1
<1> QED BY <1>4 DEF n

\* The loop that takes a set out of a stack.
LEMMA WithoutSieves ==
    ASSUME NEW M, NEW s \in Seq(M), NEW S
    PROVE  \E run : /\ IsSieve(run, s, M, {i \in 1 .. Len(s) : s[i] \notin S})
                    /\ Without(s, S) = run[Len(s)]
<1> DEFINE n == Len(s)
           T == Seq(M)
           base == <<>>
           turn(left, m) == IF m \in S THEN left ELSE Append(left, m)
           step == [i \in 1 .. n |-> [left \in T |-> turn(left, s[i])]]
<1>1. n \in Nat /\ DOMAIN s = 1 .. n /\ \A i \in 1 .. n : s[i] \in M
  OBVIOUS
<1>2. base \in T
  OBVIOUS
<1>3. ASSUME NEW left \in T, NEW m \in M PROVE turn(left, m) \in T
  OBVIOUS
<1> HIDE DEF turn, T, base, n
<1>4. step \in [1 .. n -> [T -> T]]
  BY <1>1, <1>3
<1>5. PICK g : IsFold(g, n, T, base, step)
  <2> HIDE DEF step
  <2> QED BY <1>1, <1>2, <1>4, FoldExists
<1>6. g = [R \in SUBSET (1 .. n) |-> IF R = {} THEN base ELSE turn(g[R \ {Max(R)}], s[Max(R)])]
  <2>1. \A R \in SUBSET (1 .. n) : R # {} => g[R] = turn(g[R \ {Max(R)}], s[Max(R)])
    BY <1>5 DEF IsFold
  <2> QED BY <1>5, <2>1 DEF IsFold
<1>7. PICK h :
         /\ h = [R \in SUBSET (1 .. n) |-> IF R = {} THEN base ELSE turn(h[R \ {Max(R)}], s[Max(R)])]
         /\ Without(s, S) = h[1 .. n]
  BY <1>1, <1>6 DEF Without, FoldLeft, MapThenFoldSet, turn, base
<1>8. Unfolds(h, n, T, base, step)
  BY <1>5, <1>7 DEF IsFold, Unfolds
<1>9. PICK run : IsRun(run, n, T, base, step) /\ run[n] = h[1 .. n]
  <2> HIDE DEF step
  <2>1. n \in Nat
    BY <1>1
  <2> QED BY <2>1, <1>2, <1>4, <1>8, FoldSteps, SMTT(30)
<1>10. ASSUME NEW i \in 1 .. n
       PROVE  run[i] = IF i \in {j \in 1 .. n : s[j] \notin S} THEN Append(run[i - 1], s[i]) ELSE run[i - 1]
  <2>1. run[i - 1] \in T /\ run[i] = step[i][run[i - 1]]
    <3> HIDE DEF step
    <3> QED BY <1>1, <1>9 DEF IsRun
  <2> QED BY <2>1 DEF turn
<1>11. IsSieve(run, s, M, {j \in 1 .. n : s[j] \notin S})
  BY <1>9, <1>10 DEF IsRun, IsSieve, T, base, n
<1> QED BY <1>7, <1>9, <1>11 DEF n

\* What it leaves: what was not to be taken, in the same order.
LEMMA WithoutFacts ==
    ASSUME NEW M, NEW s \in Seq(M), NEW S
    PROVE  /\ Without(s, S) \in Seq(M)
           /\ Members(Without(s, S)) = Members(s) \ S
           /\ Distinct(s) => Distinct(Without(s, S))
<1> DEFINE kept == {i \in 1 .. Len(s) : s[i] \notin S}
<1>1. PICK run : IsSieve(run, s, M, kept) /\ Without(s, S) = run[Len(s)]
  BY WithoutSieves
<1>2. Len(s) \in Nat /\ DOMAIN s = 1 .. Len(s) /\ kept \cap 1 .. Len(s) = kept
  OBVIOUS
<1>3. KeptOf(s, kept, Len(s)) = Members(s) \ S
  <2>1. {s[j] : j \in kept} = Members(s) \ S
    BY <1>2 DEF Members
  <2> QED BY <1>2, <2>1 DEF KeptOf
<1> HIDE DEF kept
<1>4. run[Len(s)] \in Seq(M)
  BY <1>1, <1>2 DEF IsSieve
<1> QED BY <1>1, <1>3, <1>4, SieveKeeps

-----------------------------------------------------------------------------
(* UpdaterGPS::try_update *)

Measurements == Gnss \X SensorStamps

\* The states of its loop.
UpdateStates == [left : Seq(Measurements), used : SUBSET Measurements, asked : SUBSET (Drivers \X Int)]

\* The offsets before and after the first update of the loop.
AreOffsets(offs) == offs[1] \in [Drivers -> Offsets] /\ offs[2] \in [Drivers -> Offsets]

\* The time of a measurement is a time.
LEMMA AtIsTime ==
    ASSUME NEW m \in Measurements, NEW off \in [Drivers -> Offsets]
    PROVE  /\ At(m, off) \in Int /\ m[1] \in Gnss /\ m[1] \in Drivers /\ m[2] \in SensorStamps
           /\ m = <<m[1], m[2]>>
<1>1. m[1] \in Gnss /\ m[1] \in Drivers /\ m[2] \in SensorStamps /\ m = <<m[1], m[2]>>
  BY DEF Measurements, Drivers
<1>2. m[2] \in Int /\ off[m[1]] \in Int
  BY <1>1, StampsAreTimes
<1> QED BY <1>1, <1>2 DEF At

\* The states the loop goes through.
IsUpdateRun(run, s, accepted, offs) ==
    /\ run \in [0 .. Len(s) -> UpdateStates]
    /\ run[0] = [left |-> <<>>, used |-> {}, asked |-> {}]
    /\ \A i \in 1 .. Len(s) : run[i] = Tried(run[i - 1], s[i], accepted, offs)
    /\ Updated(s, accepted, offs) = run[Len(s)]

\* It has such states.
LEMMA UpdatedRuns ==
    ASSUME NEW s \in Seq(Measurements), NEW accepted, NEW offs, AreOffsets(offs)
    PROVE  \E run : IsUpdateRun(run, s, accepted, offs)
<1> DEFINE n == Len(s)
           T == UpdateStates
           base == [left |-> <<>>, used |-> {}, asked |-> {}]
           step == [i \in 1 .. n |-> [st \in T |-> Tried(st, s[i], accepted, offs)]]
<1>1. n \in Nat /\ DOMAIN s = 1 .. n /\ \A i \in 1 .. n : s[i] \in Measurements
  OBVIOUS
<1>2. base \in T
  BY DEF UpdateStates
<1>3. ASSUME NEW st \in T, NEW m \in Measurements PROVE Tried(st, m, accepted, offs) \in T
  <2> DEFINE off == offs[IF st.used = {} THEN 1 ELSE 2]
  <2>1. off \in [Drivers -> Offsets]
    BY DEF AreOffsets
  <2> HIDE DEF off
  <2>2. At(m, off) \in Int /\ m[1] \in Drivers
    BY <2>1, AtIsTime
  <2>3. Append(st.left, m) \in Seq(Measurements) /\ st.used \cup {m} \in SUBSET Measurements
        /\ st.asked \cup {<<m[1], At(m, off)>>} \in SUBSET (Drivers \X Int)
        /\ st.left \in Seq(Measurements) /\ st.used \in SUBSET Measurements
    BY <2>2 DEF UpdateStates
  <2> QED BY <2>3 DEF Tried, UpdateStates, off
<1> HIDE DEF T, base, n
<1>4. step \in [1 .. n -> [T -> T]]
  BY <1>1, <1>3
<1>5. PICK g : IsFold(g, n, T, base, step)
  <2> HIDE DEF step
  <2> QED BY <1>1, <1>2, <1>4, FoldExists
<1>6. g = [R \in SUBSET (1 .. n) |->
             IF R = {} THEN base ELSE Tried(g[R \ {Max(R)}], s[Max(R)], accepted, offs)]
  <2>1. \A R \in SUBSET (1 .. n) : R # {} => g[R] = Tried(g[R \ {Max(R)}], s[Max(R)], accepted, offs)
    BY <1>5 DEF IsFold
  <2> QED BY <1>5, <2>1 DEF IsFold
<1>7. PICK h :
         /\ h = [R \in SUBSET (1 .. n) |->
                   IF R = {} THEN base ELSE Tried(h[R \ {Max(R)}], s[Max(R)], accepted, offs)]
         /\ Updated(s, accepted, offs) = h[1 .. n]
  BY <1>1, <1>6 DEF Updated, FoldLeft, MapThenFoldSet, base
<1>8. Unfolds(h, n, T, base, step)
  BY <1>5, <1>7 DEF IsFold, Unfolds
<1>9. PICK run : IsRun(run, n, T, base, step) /\ run[n] = h[1 .. n]
  <2> HIDE DEF step
  <2>1. n \in Nat
    BY <1>1
  <2> QED BY <2>1, <1>2, <1>4, <1>8, FoldSteps, SMTT(30)
<1>10. ASSUME NEW i \in 1 .. n PROVE run[i] = Tried(run[i - 1], s[i], accepted, offs)
  <2>1. run[i - 1] \in T /\ run[i] = step[i][run[i - 1]]
    <3> HIDE DEF step
    <3> QED BY <1>1, <1>9 DEF IsRun
  <2> QED BY <2>1
<1> QED BY <1>7, <1>9, <1>10 DEF n, IsRun, T, base, IsUpdateRun

\* What the loop does: a measurement stays in the stack or constrains the filter, never
\* both; one that does neither is older than every pose; all are asked for, with the
\* offsets as they are then; without enough poses nothing is used.
LEMMA UpdatedFacts ==
    ASSUME NEW s \in Seq(Measurements), Distinct(s), NEW accepted, NEW offs, AreOffsets(offs)
    PROVE  LET up == Updated(s, accepted, offs)
               times(m) == {At(m, offs[1]), At(m, offs[2])}
           IN  /\ up \in UpdateStates
               /\ Members(up.left) \subseteq Members(s) /\ Distinct(up.left)
               /\ up.used \subseteq Members(s) /\ up.used \cap Members(up.left) = {}
               /\ \A m \in Members(s) \ Members(up.left) : m \in up.used \/ \E t \in times(m) : t < Min(Poses)
               /\ \A m \in Members(s) : \E t \in times(m) : <<m[1], t>> \in up.asked
               /\ up.used # {} => Cardinality(Poses) >= Order + 1
<1> DEFINE n == Len(s)
           up == Updated(s, accepted, offs)
           times(m) == {At(m, offs[1]), At(m, offs[2])}
<1>1. n \in Nat /\ DOMAIN s = 1 .. n /\ \A i \in 1 .. n : s[i] \in Measurements
  OBVIOUS
<1>2. PICK run \in [0 .. n -> UpdateStates] :
         /\ run[0] = [left |-> <<>>, used |-> {}, asked |-> {}]
         /\ \A i \in 1 .. n : run[i] = Tried(run[i - 1], s[i], accepted, offs)
         /\ up = run[n]
  <2>1. PICK run : IsUpdateRun(run, s, accepted, offs)
    BY UpdatedRuns
  <2> QED BY <2>1 DEF IsUpdateRun
<1> HIDE DEF n, up
<1> DEFINE off(i) == offs[IF run[i - 1].used = {} THEN 1 ELSE 2]
           can(i) == Interpolable(s[i], off(i)) /\ PolynomialReady(At(s[i], off(i)))
           done(i) == can(i) /\ s[i] \in accepted
           kept == {i \in 1 .. n : ~(done(i) \/ At(s[i], off(i)) < Min(Poses))}
<1>3. ASSUME NEW i \in 1 .. n
      PROVE  /\ i - 1 \in 0 .. n /\ i \in 0 .. n /\ run[i - 1] \in UpdateStates /\ run[i] \in UpdateStates
             /\ run[i].left = IF i \in kept THEN Append(run[i - 1].left, s[i]) ELSE run[i - 1].left
             /\ run[i].used = IF done(i) THEN run[i - 1].used \cup {s[i]} ELSE run[i - 1].used
             /\ run[i].asked = run[i - 1].asked \cup {<<s[i][1], At(s[i], off(i))>>}
             /\ At(s[i], off(i)) \in times(s[i])
  <2>1. i - 1 \in 0 .. n /\ i \in 0 .. n
    BY <1>1
  <2>2. run[i] = Tried(run[i - 1], s[i], accepted, offs)
    BY <1>2
  <2>3. (i \in kept) <=> ~(done(i) \/ At(s[i], off(i)) < Min(Poses))
    OBVIOUS
  <2> HIDE DEF kept
  <2>4. /\ run[i].left = IF i \in kept THEN Append(run[i - 1].left, s[i]) ELSE run[i - 1].left
        /\ run[i].used = IF done(i) THEN run[i - 1].used \cup {s[i]} ELSE run[i - 1].used
        /\ run[i].asked = run[i - 1].asked \cup {<<s[i][1], At(s[i], off(i))>>}
    BY <2>2, <2>3 DEF Tried
  <2> QED BY <1>2, <2>1, <2>4
<1> HIDE DEF kept, done, can, off, times
<1>4. up \in UpdateStates
  BY <1>1, <1>2
<1>5. Members(up.left) = KeptOf(s, kept, n) /\ Distinct(up.left)
  <2> DEFINE lefts == [i \in 0 .. n |-> run[i].left]
  <2>1. lefts \in [0 .. n -> Seq(Measurements)]
    BY <1>2 DEF UpdateStates
  <2>2. lefts[0] = <<>> /\ lefts[n] = up.left
    BY <1>1, <1>2
  <2>3. \A i \in 1 .. n : lefts[i] = IF i \in kept THEN Append(lefts[i - 1], s[i]) ELSE lefts[i - 1]
    BY <1>3
  <2> HIDE DEF lefts
  <2>4. IsSieve(lefts, s, Measurements, kept)
    BY <2>1, <2>2, <2>3 DEF IsSieve, n
  <2> QED BY <2>2, <2>4, SieveKeeps DEF n
<1>6. up.used = {s[i] : i \in {j \in 1 .. n : done(j)}}
  <2> DEFINE Q == {i \in 0 .. n : run[i].used = {s[j] : j \in {k \in 1 .. i : done(k)}}}
  <2>1. 0 \in Q
    BY <1>1, <1>2
  <2>2. ASSUME NEW i \in 1 .. n, i - 1 \in Q PROVE i \in Q
    <3> DEFINE before == {k \in 1 .. (i - 1) : done(k)}
               now == {k \in 1 .. i : done(k)}
    <3>1. now = IF done(i) THEN before \cup {i} ELSE before
      BY <1>1
    <3>2. run[i - 1].used = {s[j] : j \in before}
      BY <2>2
    <3> HIDE DEF before, now
    <3>3. run[i].used = {s[j] : j \in now}
      <4>1. CASE done(i)
        <5>1. {s[j] : j \in before \cup {i}} = {s[j] : j \in before} \cup {s[i]}
          OBVIOUS
        <5> QED BY <1>3, <3>1, <3>2, <4>1, <5>1
      <4>2. CASE ~done(i)
        BY <1>3, <3>1, <3>2, <4>2
      <4> QED BY <4>1, <4>2
    <3> QED BY <1>3, <3>3 DEF now
  <2> HIDE DEF Q
  <2>3. n \in Q
    BY <1>1, <2>1, <2>2, CountUp, SMTT(30)
  <2> QED BY <1>2, <2>3 DEF Q
<1>7. ASSUME NEW i \in 1 .. n PROVE <<s[i][1], At(s[i], off(i))>> \in up.asked
  <2> DEFINE pair == <<s[i][1], At(s[i], off(i))>>
             Q == {k \in 0 .. n : k >= i => pair \in run[k].asked}
  <2>1. 0 \in Q
    BY <1>1
  <2>2. ASSUME NEW k \in 1 .. n, k - 1 \in Q PROVE k \in Q
    <3>1. k >= i => k = i \/ k - 1 >= i
      BY <1>1
    <3>2. k >= i => pair \in run[k].asked
      BY <1>3, <2>2, <3>1
    <3> QED BY <1>3, <3>2
  <2> HIDE DEF Q
  <2>3. n \in Q
    BY <1>1, <2>1, <2>2, CountUp, SMTT(30)
  <2> QED BY <1>1, <1>2, <2>3 DEF Q
<1>8. \A m \in Members(s) : \E i \in 1 .. n : m = s[i]
  BY <1>1 DEF Members
<1>9. \A i, j \in 1 .. n : s[i] = s[j] => i = j
  BY <1>1 DEF Distinct
<1>10. Members(up.left) = {s[i] : i \in kept} /\ kept \subseteq 1 .. n
  <2>1. kept \subseteq 1 .. n /\ kept \cap 1 .. n = kept
    BY DEF kept
  <2> QED BY <1>5, <2>1 DEF KeptOf
<1>11. \A i \in kept : ~done(i)
  BY DEF kept
<1>12. \A i \in 1 .. n : i \in kept \/ done(i) \/ At(s[i], off(i)) < Min(Poses)
  BY DEF kept
<1>13. Members(up.left) \subseteq Members(s) /\ up.used \subseteq Members(s)
  BY <1>1, <1>6, <1>10 DEF Members
<1>14. up.used \cap Members(up.left) = {}
  <2> SUFFICES ASSUME NEW i \in 1 .. n, done(i), NEW j \in kept, s[i] = s[j] PROVE FALSE
    BY <1>6, <1>10
  <2>1. i = j
    BY <1>9, <1>10
  <2> QED BY <1>11, <2>1
<1>15. ASSUME NEW m \in Members(s) \ Members(up.left)
       PROVE  m \in up.used \/ \E t \in times(m) : t < Min(Poses)
  <2>1. PICK i \in 1 .. n : m = s[i]
    BY <1>8
  <2>2. i \notin kept
    BY <1>10, <2>1
  <2> QED BY <1>3, <1>6, <1>12, <2>1, <2>2
<1>16. \A m \in Members(s) : \E t \in times(m) : <<m[1], t>> \in up.asked
  BY <1>3, <1>7, <1>8
<1>17. up.used # {} => Cardinality(Poses) >= Order + 1
  BY <1>6 DEF done, can, Interpolable
<1> QED BY <1>4, <1>5, <1>13, <1>14, <1>15, <1>16, <1>17 DEF up, times

-----------------------------------------------------------------------------
(* What a GNSS handler does to the window and to the caches *)

\* A step of the composed system is a step of its window.
LEMMA GnssStepsOfWindow ==
    /\ FeedOther => ImuStep \/ OtherStep
    /\ \A s \in Gnss, t \in SensorStamps : FeedUpdate(s, t) => OtherStep
    /\ \A s \in Gnss, t \in SensorStamps, far \in BOOLEAN :
          FeedWaiting(s, t, far) \/ FeedRefused(s, t, far) \/ FeedInitialize(s, t, far) => OtherStep
    /\ [GnssNext]_gnssVars => [Next]_vars
<1>1. FeedOther => ImuStep \/ OtherStep
  BY StepsOfWindow DEF FeedOther
<1>2. \A s \in Gnss, t \in SensorStamps : FeedUpdate(s, t) => OtherStep
  BY DEF FeedUpdate, OtherStep, SensorStep
<1>3. \A s \in Gnss, t \in SensorStamps, far \in BOOLEAN :
         FeedWaiting(s, t, far) \/ FeedRefused(s, t, far) \/ FeedInitialize(s, t, far) => OtherStep
  BY ZenonT(60) DEF FeedWaiting, FeedRefused, FeedInitialize, OtherStep, SensorStep
<1>4. [GnssNext]_gnssVars => [Next]_vars
  BY <1>1, <1>2, <1>3, StepsAreNext DEF GnssNext, gnssVars, cacheVars
<1> QED BY <1>1, <1>2, <1>3, <1>4

\* The GNSS updater implements the sliding window: everything proved of SlidingWindow
\* holds in it.
THEOREM GnssImplementsWindow == GnssSpec => Spec
<1>1. GnssInit => Init
  BY DEF GnssInit, CacheInit
<1> QED BY <1>1, GnssStepsOfWindow, PTL DEF GnssSpec, Spec

\* What the requests at the pairs Q leave in the cache.
LEMMA CachedAllFacts ==
    ASSUME IInv, IsFiniteSet(clones), JacobiansOK, NEW Q \in SUBSET (Drivers \X Int),
           jacobians' = CachedAll(Q)
    PROVE  /\ JacobiansOK'
           /\ DOMAIN jacobians \subseteq DOMAIN jacobians'
           /\ \A k \in DOMAIN jacobians' \ DOMAIN jacobians : k[2] \in Int /\ Around(k[2]) # {}
           /\ \A k \in Q : Computes(k[1], k[2]) => k \in DOMAIN jacobians'
<1> DEFINE new == {k \in Q : Computes(k[1], k[2])}
<1>1. jacobians' = [k \in DOMAIN jacobians \cup new |->
                      IF k \in new THEN Fit(Around(k[2]), imuPose) ELSE jacobians[k]]
  BY DEF CachedAll
<1>2. \A k \in new : k[1] \in Drivers /\ k[2] \in Int /\ Around(k[2]) # {}
  BY DEF Computes, PolynomialReady, PolynomialIn, Around
<1>3. \A k \in Q : Computes(k[1], k[2]) => k \in new
  OBVIOUS
<1>4. ASSUME NEW t PROVE Fit(Around(t), imuPose) \in Fits
  <2>1. Around(t) \in SUBSET Int
    BY AroundIsRun, PosesAreFinite
  <2> QED BY <2>1 DEF Fit, Fits
<1> HIDE DEF new
<1>5. DOMAIN jacobians' = DOMAIN jacobians \cup new
  BY <1>1
<1>6. JacobiansOK'
  BY <1>1, <1>2, <1>4 DEF JacobiansOK
<1> QED BY <1>2, <1>3, <1>5, <1>6

-----------------------------------------------------------------------------
(* The inductive invariant of the GNSS updater *)

\* Before the frame is known no first estimate is of a pose that has left, and every cached
\* Jacobian is inside the window, the tolerance allowed for.
Inside ==
    /\ DOMAIN fej \subseteq Poses
    /\ \A k \in DOMAIN jacobians : /\ \E c \in clones : c <= k[2] + DtExp
                                   /\ \E c \in Poses : k[2] <= c + DtExp

\* What waits or was used is not newer than the last stamp of its receiver.
Heard == \A m \in Members(waiting) \cup spent : \E u \in hist[m[1]] : m[2] <= u

\* The inductive invariant, on top of those of the window and the caches.
GnssInv ==
    /\ waiting \in Seq(Measurements) /\ Distinct(waiting)
    /\ spent \subseteq Measurements /\ Members(waiting) \cap spent = {}
    /\ Heard
    /\ failed = FALSE
    /\ ~gpsInit => Inside

\* The stack with the message: it is new, as its stamp is newer than all heard before.
LEMMA AppendedFacts ==
    ASSUME IInv, GnssInv, NEW s \in Gnss, NEW t \in SensorStamps,
           NewStamp(s, t), hist' = Recorded(s, t)
    PROVE  LET all == Append(waiting, <<s, t>>)
           IN  /\ all \in Seq(Measurements) /\ Distinct(all) /\ Len(all) = Len(waiting) + 1
               /\ Members(all) = Members(waiting) \cup {<<s, t>>}
               /\ Members(all) \cap spent = {}
               /\ \A m \in Members(all) \cup spent : \E u \in hist'[m[1]] : m[2] <= u
<1> USE StampsAreTimes
<1> DEFINE m0 == <<s, t>>
           all == Append(waiting, m0)
           n == Len(waiting)
<1>1. waiting \in Seq(Measurements) /\ Distinct(waiting) /\ spent \subseteq Measurements /\ m0 \in Measurements
  BY DEF GnssInv, Measurements
<1>2. s \in Drivers /\ hist \in [Drivers -> SUBSET SensorStamps]
  BY DEF Drivers, IInv, TypeOK
<1>3. m0 \notin Members(waiting) \cup spent
  <2> SUFFICES ASSUME m0 \in Members(waiting) \cup spent PROVE FALSE
    OBVIOUS
  <2>1. PICK u \in hist[s] : t <= u
    BY DEF GnssInv, Heard
  <2>2. u < t
    BY DEF NewStamp
  <2> QED BY <1>2, <2>1, <2>2
<1>4. /\ n \in Nat /\ DOMAIN waiting = 1 .. n /\ DOMAIN all = 1 .. n + 1 /\ all[n + 1] = m0
      /\ \A i \in 1 .. n : all[i] = waiting[i]
      /\ all \in Seq(Measurements) /\ Len(all) = n + 1
  BY <1>1
<1>5. Members(all) = Members(waiting) \cup {m0}
  BY <1>4 DEF Members
<1>6. Distinct(all)
  <2>1. \A i \in 1 .. n : waiting[i] # m0
    BY <1>3, <1>4 DEF Members
  <2>2. \A i, j \in 1 .. n : waiting[i] = waiting[j] => i = j
    BY <1>1, <1>4 DEF Distinct
  <2> QED BY <1>4, <2>1, <2>2 DEF Distinct
<1>7. Members(all) \cap spent = {}
  BY <1>3, <1>5 DEF GnssInv
<1>8. ASSUME NEW m \in Members(all) \cup spent PROVE \E u \in hist'[m[1]] : m[2] <= u
  <2>1. t \in hist'[s] /\ \A r \in Drivers : \A u \in hist[r] : \E v \in hist'[r] : u <= v
    BY <1>2, RecordedGrows
  <2>2. CASE m = m0
    BY <2>1, <2>2
  <2>3. CASE m # m0
    <3>1. m \in Members(waiting) \cup spent
      BY <1>5, <2>3
    <3>2. m \in Measurements
      BY <1>1, <1>4, <3>1 DEF Members
    <3>3. PICK u \in hist[m[1]] : m[2] <= u
      BY <3>1 DEF GnssInv, Heard
    <3>4. m[1] \in Drivers /\ m[2] \in Int
      BY <3>2 DEF Measurements, Drivers
    <3>5. PICK v \in hist'[m[1]] : u <= v
      BY <2>1, <3>3, <3>4
    <3>6. u \in Int /\ v \in Int
      <4>1. hist'[m[1]] \subseteq hist[m[1]] \cup {t}
        BY <1>2, <3>4 DEF Recorded
      <4> QED BY <1>2, <3>3, <3>4, <3>5, <4>1
    <3> QED BY <3>3, <3>4, <3>5, <3>6
  <2> QED BY <2>2, <2>3
<1> QED BY <1>4, <1>5, <1>6, <1>7, <1>8

\* The loop over the stack s after the measurements of M have initialized the frame.
LEMMA UpdateAllFacts ==
    ASSUME IInv, IsFiniteSet(clones), JacobiansOK, initialized,
           NEW s \in Seq(Measurements), Distinct(s), NEW M \in SUBSET Measurements,
           Members(s) \cap (spent \cup M) = {}, spent \subseteq Measurements,
           M # {} => Cardinality(Poses) >= Order + 1,
           NEW offs, AreOffsets(offs), UpdateAll(s, M, offs), fej' = fej
    PROVE  LET times(m) == {At(m, offs[1]), At(m, offs[2])}
           IN  /\ waiting' \in Seq(Measurements) /\ Distinct(waiting') /\ Members(waiting') \subseteq Members(s)
               /\ spent' \subseteq spent \cup M \cup Members(s) /\ M \subseteq spent'
               /\ spent' \subseteq Measurements /\ Members(waiting') \cap spent' = {}
               /\ JacobiansOK'
               /\ UNCHANGED <<fej, est>> \/ Refitted
               /\ \A m \in Members(s) \ Members(waiting') : m \in spent' \/ \E t \in times(m) : t < Min(Poses)
               /\ DOMAIN jacobians \subseteq DOMAIN jacobians'
               /\ \A m \in Members(s) : \E t \in times(m) :
                     Computes(m[1], t) => <<m[1], t>> \in DOMAIN jacobians'
<1> DEFINE times(m) == {At(m, offs[1]), At(m, offs[2])}
           inits == {<<m[1], At(m, offset)>> : m \in M}
<1>1. PICK accepted \in SUBSET Members(s) :
         LET up == Updated(s, accepted, offs)
         IN  /\ waiting' = up.left
             /\ spent' = spent \cup up.used \cup M
             /\ jacobians' = CachedAll(up.asked \cup inits)
             /\ est' = IF M \cup up.used = {} THEN est ELSE Rebuilt(Poses, imuPose)
  BY DEF UpdateAll
<1> DEFINE up == Updated(s, accepted, offs)
<1>2. /\ up \in UpdateStates
      /\ Members(up.left) \subseteq Members(s) /\ Distinct(up.left)
      /\ up.used \subseteq Members(s) /\ up.used \cap Members(up.left) = {}
      /\ \A m \in Members(s) \ Members(up.left) : m \in up.used \/ \E t \in times(m) : t < Min(Poses)
      /\ \A m \in Members(s) : \E t \in times(m) : <<m[1], t>> \in up.asked
      /\ up.used # {} => Cardinality(Poses) >= Order + 1
  BY UpdatedFacts
<1>3. /\ waiting' = up.left
      /\ spent' = spent \cup up.used \cup M
      /\ jacobians' = CachedAll(up.asked \cup inits)
      /\ est' = IF M \cup up.used = {} THEN est ELSE Rebuilt(Poses, imuPose)
  BY <1>1
<1> HIDE DEF up, times
<1>4. up.left \in Seq(Measurements) /\ up.used \in SUBSET Measurements /\ up.asked \in SUBSET (Drivers \X Int)
  BY <1>2 DEF UpdateStates
<1>5. inits \in SUBSET (Drivers \X Int)
  <2>1. offset \in [Drivers -> Offsets]
    BY DEF IInv, TypeOK
  <2>2. \A m \in M : At(m, offset) \in Int /\ m[1] \in Drivers
    BY <2>1, AtIsTime
  <2> QED BY <2>2
<1> DEFINE Q == up.asked \cup inits
<1>6. Q \in SUBSET (Drivers \X Int) /\ jacobians' = CachedAll(Q) /\ up.asked \subseteq Q
  BY <1>3, <1>4, <1>5
<1> HIDE DEF Q, inits
<1>7. /\ JacobiansOK'
      /\ DOMAIN jacobians \subseteq DOMAIN jacobians'
      /\ \A k \in Q : Computes(k[1], k[2]) => k \in DOMAIN jacobians'
  BY <1>6, CachedAllFacts
<1>8. ASSUME NEW m \in Members(s)
      PROVE  \E t \in times(m) : Computes(m[1], t) => <<m[1], t>> \in DOMAIN jacobians'
  <2>1. PICK t \in times(m) : <<m[1], t>> \in up.asked
    BY <1>2
  <2>2. <<m[1], t>> \in Q
    BY <1>6, <2>1
  <2> QED BY <1>7, <2>2
<1>9. UNCHANGED <<fej, est>> \/ Refitted
  <2>1. CASE M \cup up.used = {}
    BY <1>3, <2>1
  <2>2. CASE M \cup up.used # {}
    <3>1. Cardinality(Poses) >= Order + 1
      BY <1>2, <2>2
    <3>2. Cardinality(Poses) \in Nat
      BY PosesAreFinite, FS_CardinalityType
    <3>3. ~(Cardinality(Poses) < Order + 1)
      BY <3>1, <3>2, OrderIsOdd
    <3> QED BY <1>3, <2>2, <3>3 DEF Refitted
  <2> QED BY <2>1, <2>2
<1>10. Members(waiting') \cap spent' = {} /\ spent' \subseteq spent \cup M \cup Members(s)
       /\ M \subseteq spent' /\ spent' \subseteq Measurements
  BY <1>2, <1>3, <1>4
<1>11. \A m \in Members(s) \ Members(waiting') : m \in spent' \/ \E t \in times(m) : t < Min(Poses)
  BY <1>2, <1>3
<1> QED BY <1>2, <1>3, <1>4, <1>7, <1>8, <1>9, <1>10, <1>11 DEF times

\* The entry that has a Jacobian can be interpolated: what an initialization would be made
\* of passes the assertions.
LEMMA UsableAsserted ==
    ASSUME IInv, CacheInv, GnssInv, ~gpsInit, NEW s \in Seq(Measurements)
    PROVE  Asserted(Usable(s))
<1> SUFFICES ASSUME NEW m \in Members(s), Interpolable(m, offset)
             PROVE  BoundingIndex(Poses, At(m, offset), DtExp) # 0 /\ PolynomialReady(At(m, offset))
  BY DEF Asserted, Usable
<1> DEFINE t == At(m, offset)
<1>1. t \in Int
  <2>1. m \in Measurements /\ offset \in [Drivers -> Offsets]
    BY DEF Members, IInv, TypeOK
  <2> QED BY <2>1, AtIsTime
<1>2. /\ Cardinality(Poses) >= Order + 1
      /\ HasJacobian(m[1], t) \/ PolynomialReady(t)
  BY DEF Interpolable
<1> HIDE DEF t
<1>3. IsFiniteSet(clones) /\ Inside
  BY DEF CacheInv, GnssInv
<1>4. CASE PolynomialReady(t)
  <2>1. Around(t) # {}
    BY <1>4 DEF PolynomialReady, PolynomialIn, Around
  <2> QED BY <1>1, <1>3, <1>4, <2>1, WindowHolds DEF t
<1>5. CASE HasJacobian(m[1], t)
  <2>1. <<m[1], t>> \in DOMAIN jacobians
    BY <1>5 DEF HasJacobian
  <2>2. (\E c \in Poses : c <= t + DtExp) /\ (\E c \in Poses : t <= c + DtExp) /\ DOMAIN fej \subseteq Poses
    BY <1>3, <2>1 DEF Inside, Poses
  <2>3. Around(t) # {}
    BY <1>1, <1>2, <1>3, <2>2, WindowHolds
  <2>4. BoundingIndex(Poses, t, DtExp) # 0
    BY <1>1, <1>3, <2>3, WindowHolds
  <2> QED BY <2>2, <2>3, <2>4, WindowIsReady DEF t
<1> QED BY <1>2, <1>4, <1>5

\* What the requests Q of one sensor leave in the cache.
LEMMA CachedFacts ==
    ASSUME IInv, IInv', NEW s \in Drivers, Interpolates(s)
    PROVE  \A k \in DOMAIN jacobians' \ DOMAIN jacobians : k[2] \in Int /\ Around(k[2]) # {}
<1>1. PICK Q \in SUBSET Wanted(s) : jacobians' = Cached(s, Q)
  BY DEF Interpolates
<1> DEFINE new == {<<s, t>> : t \in {u \in Q : Computes(s, u)}}
<1>2. \A k \in new : k[2] \in Int /\ Around(k[2]) # {}
  BY WantedAreTimes DEF Computes, PolynomialReady, PolynomialIn, Around
<1>3. DOMAIN jacobians' = DOMAIN jacobians \cup new
  BY <1>1 DEF Cached
<1> HIDE DEF new
<1> QED BY <1>2, <1>3

\* Entries made inside the window keep the cache inside.
LEMMA InsideKept ==
    ASSUME IInv, CacheInv, Inside, UNCHANGED <<clones, imuPose>>, UNCHANGED <<fej, est>> \/ Refitted,
           \A k \in DOMAIN jacobians' \ DOMAIN jacobians : k[2] \in Int /\ Around(k[2]) # {}
    PROVE  Inside'
<1>1. Poses' = Poses /\ clones' = clones
  BY DEF Poses
<1>2. DOMAIN fej' \subseteq Poses'
  <2>1. fej' = fej \/ fej' = Nothing
    BY DEF Refitted
  <2>2. DOMAIN Nothing = {}
    BY DEF Nothing
  <2> QED BY <1>1, <2>1, <2>2 DEF Inside
<1>3. ASSUME NEW k \in DOMAIN jacobians'
      PROVE  (\E c \in clones : c <= k[2] + DtExp) /\ \E c \in Poses : k[2] <= c + DtExp
  <2>1. CASE k \in DOMAIN jacobians
    BY <2>1 DEF Inside
  <2>2. CASE k \notin DOMAIN jacobians
    BY <2>2, WindowHolds DEF CacheInv
  <2> QED BY <2>1, <2>2
<1> QED BY <1>1, <1>2, <1>3 DEF Inside

\* The IMU handler keeps the cache inside: it flushes what the window leaves behind, and
\* the newest pose only moves on.
LEMMA InsideAfterImu ==
    ASSUME IInv, IInv', NoGt, CacheInv, Inside, CacheImu PROVE Inside'
<1> USE ToleranceIsNatural
<1>1. PICK m \in ImuStamps : ImuMessage(m)
  BY DEF CacheImu, ImuStep
<1>2. ImuStep
  BY DEF CacheImu
<1>3. /\ clones \in SUBSET Int /\ clones' \in SUBSET Int /\ stateTime \in Int /\ stateTime' \in Int
      /\ IsFiniteSet(clones) /\ IsFiniteSet(clones')
  BY <1>2, FiniteStays DEF IInv, TypeOK, CacheInv
<1>4. initialized => initialized' /\ stateTime <= stateTime'
  BY <1>2, StepsAreNext, StepPreserves DEF Preserved
<1>5. CASE ~initialized'
  <2>1. ~initialized /\ clones = {} /\ Poses = {} /\ clones' = {}
    BY <1>4, <1>5 DEF IInv, EmptyBeforeInit, Poses
  <2>2. DOMAIN fej' = {}
    BY <1>5, <2>1 DEF CacheImu, ImuPolynomials, CacheInv
  <2>3. jacobians' = jacobians /\ DOMAIN jacobians = {}
    BY <2>1 DEF CacheImu, Inside
  <2> QED BY <2>2, <2>3 DEF Inside
<1>6. CASE initialized'
  <2>1. Poses' = clones' \cup imuPose' /\ Poses' \in SUBSET Int /\ IsFiniteSet(Poses')
        /\ imuPose' \in SUBSET Int
    <3>1. IsFiniteSet({stateTime'})
      BY FS_Singleton
    <3>2. IsFiniteSet(imuPose')
      BY <3>1, FS_Subset DEF IInv, ImuPoseIsNow
    <3>3. Poses' = clones' \cup imuPose'
      BY DEF Poses
    <3> QED BY <1>3, <3>2, <3>3, FS_Union DEF IInv, TypeOK
  <2>2. DOMAIN fej' \subseteq Poses'
    <3> DEFINE added == clones' \ clones
               fej1 == IF added = {} THEN fej ELSE Added(fej, clones \cup added, {})
    <3>1. fej' = Added(fej1, clones' \cup imuPose', imuPose')
      BY <1>6 DEF CacheImu, ImuPolynomials
    <3>2. Polynomials(fej1)
      <4>1. clones \cup added = clones \cup clones' /\ IsFiniteSet(clones \cup clones')
        BY <1>3, FS_Union
      <4>2. clones \cup clones' \in SUBSET Int /\ {} \in SUBSET Int
        BY <1>3
      <4>3. Polynomials(Added(fej, clones \cup clones', {}))
        BY <4>1, <4>2, AddedFacts DEF CacheInv
      <4> QED BY <4>1, <4>3 DEF CacheInv
    <3> HIDE DEF fej1
    <3> QED BY <2>1, <3>1, <3>2, AddedIsOfPoses
  <2>3. \A k \in DOMAIN jacobians' : k \in DOMAIN jacobians
    BY DEF CacheImu, FlushedJacobians, Restrict
  <2>4. ASSUME NEW k \in DOMAIN jacobians' PROVE \E c \in clones' : c <= k[2] + DtExp
    <3>1. CASE clones' \ clones # {}
      <4>1. k[2] + DtExp >= Min(clones') /\ k[2] \in Int
        BY <2>3, <3>1, JacobiansAfterImu DEF CacheInv, JacobiansOK
      <4>2. Min(clones') \in clones'
        BY <1>3, <3>1, MinOfFinite
      <4>3. Min(clones') \in Int
        BY <1>3, <4>2
      <4>4. Min(clones') <= k[2] + DtExp
        BY <4>1, <4>3
      <4> QED BY <4>2, <4>4
    <3>2. CASE clones' \ clones = {}
      <4>1. clones' = clones
        BY <1>1, <1>6, <3>2, TailOfHandler DEF InitFails
      <4> QED BY <2>3, <4>1 DEF Inside
    <3> QED BY <3>1, <3>2
  <2>5. ASSUME NEW k \in DOMAIN jacobians' PROVE \E c \in Poses' : k[2] <= c + DtExp
    <3>1. PICK c \in Poses : k[2] <= c + DtExp
      BY <2>3 DEF Inside
    <3>2. initialized
      BY <3>1 DEF IInv, EmptyBeforeInit, Poses
    <3>3. c <= stateTime /\ c \in Int /\ k[2] \in Int
      BY <2>3, <3>2 DEF IInv, CaughtUp, TypeOK, Poses, CacheInv, JacobiansOK
    <3>4. stateTime' \in Poses' /\ stateTime <= stateTime'
      BY <1>4, <1>6, <3>2 DEF IInv, CaughtUp
    <3>5. k[2] <= stateTime' + DtExp
      BY <1>3, <3>1, <3>3, <3>4
    <3> QED BY <3>4, <3>5
  <2> QED BY <2>2, <2>4, <2>5 DEF Inside
<1> QED BY <1>5, <1>6

-----------------------------------------------------------------------------
(* Every GNSS step preserves the invariant *)

\* What a refused initialization leaves was there before, each once.
LEMMA EveryOtherFacts ==
    ASSUME NEW M, NEW s \in Seq(M), Distinct(s)
    PROVE  /\ EveryOther(s) \in Seq(M) /\ Distinct(EveryOther(s))
           /\ Members(EveryOther(s)) \subseteq Members(s)
<1> DEFINE n == Len(s)
           h == n \div 2
<1>1. n \in Nat /\ DOMAIN s = 1 .. n /\ \A i \in 1 .. n : s[i] \in M
  OBVIOUS
<1>2. h \in Nat /\ \A i \in 1 .. h : 2 * i \in 1 .. n
  <2> HIDE DEF n
  <2> QED BY <1>1
<1>3. EveryOther(s) = [i \in 1 .. h |-> s[2 * i]]
  BY DEF EveryOther
<1> HIDE DEF n, h
<1>4. EveryOther(s) \in Seq(M) /\ DOMAIN EveryOther(s) = 1 .. h
  BY <1>1, <1>2, <1>3
<1>5. Members(EveryOther(s)) \subseteq Members(s)
  BY <1>1, <1>2, <1>3, <1>4 DEF Members
<1>6. ASSUME NEW i \in 1 .. h, NEW j \in 1 .. h, EveryOther(s)[i] = EveryOther(s)[j] PROVE i = j
  <2>1. s[2 * i] = s[2 * j] /\ 2 * i \in 1 .. n /\ 2 * j \in 1 .. n
    BY <1>2, <1>3, <1>6
  <2>2. 2 * i = 2 * j
    BY <1>1, <2>1 DEF Distinct
  <2> QED BY <1>2, <2>2
<1> QED BY <1>4, <1>5, <1>6 DEF Distinct

\* Stamps that stay, or give way to newer ones, keep what was heard so.
LEMMA HeardStays ==
    ASSUME IInv, IInv', ImuStep \/ OtherStep, GnssInv, UNCHANGED <<waiting, spent>>
    PROVE  Heard'
<1> USE StampsAreTimes
<1>1. \A r \in Drivers : \A u \in hist[r] : \E v \in hist'[r] : u <= v
  BY HistGrows DEF IInv, NoFatalExit
<1> SUFFICES ASSUME NEW m \in Members(waiting) \cup spent PROVE \E u \in hist'[m[1]] : m[2] <= u
  BY DEF Heard
<1>2. m \in Measurements
  BY DEF GnssInv, Members
<1>3. m[1] \in Drivers /\ m[2] \in Int
  BY <1>2 DEF Measurements, Drivers
<1>4. PICK u \in hist[m[1]] : m[2] <= u
  BY DEF GnssInv, Heard
<1>5. PICK v \in hist'[m[1]] : u <= v
  BY <1>1, <1>3, <1>4
<1>6. u \in Int /\ v \in Int
  BY <1>3, <1>4, <1>5 DEF IInv, TypeOK
<1> QED BY <1>3, <1>4, <1>5, <1>6

\* The messages of the IMU, the wheels and the other sensors.
LEMMA FeedOtherStep ==
    ASSUME IInv, IInv', NoGt, CacheInv, GnssInv, FeedOther PROVE CacheInv' /\ GnssInv'
<1>1. ImuStep \/ OtherStep
  BY GnssStepsOfWindow
<1>2. waiting' = waiting /\ spent' = spent /\ failed' = failed
  BY DEF FeedOther
<1>3. CacheInv'
  BY CacheImuStep, CacheOtherStep DEF FeedOther
<1>4. Heard'
  BY <1>1, <1>2, HeardStays
<1>5. ASSUME ~gpsInit' PROVE Inside'
  <2>1. CASE CacheImu
    <3>1. ~gpsInit
      BY <1>5, <2>1 DEF CacheImu, ImuStep, ImuMessage, InitFails, Initialize, FeedImuFirstClone,
         FeedImuClone, FeedImuOnly
    <3> QED BY <2>1, <3>1, InsideAfterImu DEF GnssInv
  <2>2. CASE CacheSensor
    <3>1. PICK s \in Sensors, t \in SensorStamps : FeedSensor(s, t) /\ Interpolates(s)
      BY <2>2 DEF CacheSensor
    <3>2. s \in Drivers
      BY DEF Drivers
    <3>3. \A k \in DOMAIN jacobians' \ DOMAIN jacobians : k[2] \in Int /\ Around(k[2]) # {}
      BY <3>1, <3>2, CachedFacts
    <3>4. UNCHANGED <<clones, imuPose, gpsInit>> /\ (UNCHANGED <<fej, est>> \/ Refitted)
      BY <3>1 DEF FeedSensor, Interpolates
    <3> QED BY <1>5, <3>3, <3>4, InsideKept DEF GnssInv
  <2>3. CASE CacheWheel
    <3>1. UNCHANGED <<clones, imuPose, gpsInit, jacobians>> /\ (UNCHANGED <<fej, est>> \/ Refitted)
      BY <2>3 DEF CacheWheel, FeedWheel
    <3>2. DOMAIN jacobians' \ DOMAIN jacobians = {}
      BY <3>1
    <3> QED BY <1>5, <3>1, <3>2, InsideKept DEF GnssInv
  <2> QED BY <2>1, <2>2, <2>3 DEF FeedOther
<1> QED BY <1>2, <1>3, <1>4, <1>5 DEF GnssInv, Distinct, Members

\* The invariant after a loop over the stack s, made of the messages there are.
LEMMA AfterLoop ==
    ASSUME IInv, IInv', NoGt, CacheInv, GnssInv, OtherStep, initialized, gpsInit', failed' = FALSE,
           NEW s \in Seq(Measurements), Distinct(s), NEW M \in SUBSET Measurements,
           Members(s) \cap (spent \cup M) = {},
           \A m \in Members(s) \cup spent \cup M : \E u \in hist'[m[1]] : m[2] <= u,
           M # {} => Cardinality(Poses) >= Order + 1,
           NEW offs, AreOffsets(offs), UpdateAll(s, M, offs), fej' = fej
    PROVE  CacheInv' /\ GnssInv'
<1>1. /\ waiting' \in Seq(Measurements) /\ Distinct(waiting')
      /\ Members(waiting') \subseteq Members(s)
      /\ spent' \subseteq spent \cup M \cup Members(s)
      /\ spent' \subseteq Measurements /\ Members(waiting') \cap spent' = {}
      /\ JacobiansOK'
      /\ UNCHANGED <<fej, est>> \/ Refitted
  <2>1. IsFiniteSet(clones) /\ JacobiansOK /\ spent \subseteq Measurements
    BY DEF CacheInv, GnssInv
  <2> QED BY <2>1, UpdateAllFacts
<1>2. CacheInv'
  BY <1>1, CacheInvKept
<1>3. \A m \in Members(waiting') \cup spent' : \E u \in hist'[m[1]] : m[2] <= u
  BY <1>1
<1> QED BY <1>1, <1>2, <1>3 DEF GnssInv, Heard, Distinct, Members

\* The offsets of a loop are offsets.
LEMMA OffsetTypes ==
    ASSUME IInv, IInv' PROVE AreOffsets(<<offset, offset'>>) /\ AreOffsets(<<offset', offset'>>)
<1>1. offset \in [Drivers -> Offsets] /\ offset' \in [Drivers -> Offsets]
  BY DEF IInv, TypeOK
<1> QED BY <1>1 DEF AreOffsets

\* A message once the frame is known.
LEMMA FeedUpdateStep ==
    ASSUME IInv, IInv', NoGt, CacheInv, GnssInv,
           NEW s \in Gnss, NEW t \in SensorStamps, FeedUpdate(s, t)
    PROVE  CacheInv' /\ GnssInv'
<1> DEFINE all == Append(waiting, <<s, t>>)
<1>1. /\ NewStamp(s, t) /\ hist' = Recorded(s, t) /\ initialized /\ gpsInit' /\ failed' = FALSE
      /\ UpdateAll(all, {}, <<offset, offset'>>) /\ fej' = fej /\ OtherStep
  BY GnssStepsOfWindow DEF FeedUpdate, FeedGnss, GnssInv
<1>2. /\ all \in Seq(Measurements) /\ Distinct(all)
      /\ Members(all) \cap spent = {}
      /\ \A m \in Members(all) \cup spent : \E u \in hist'[m[1]] : m[2] <= u
  BY <1>1, AppendedFacts
<1> HIDE DEF all
<1>3. /\ {} \in SUBSET Measurements /\ Members(all) \cap (spent \cup {}) = {}
      /\ \A m \in Members(all) \cup spent \cup {} : \E u \in hist'[m[1]] : m[2] <= u
      /\ {} # {} => Cardinality(Poses) >= Order + 1
  BY <1>2
<1>4. AreOffsets(<<offset, offset'>>)
  BY OffsetTypes
<1> QED BY <1>1, <1>2, <1>3, <1>4, AfterLoop

\* A message that initializes the frame.
LEMMA FeedInitializeStep ==
    ASSUME IInv, IInv', NoGt, CacheInv, GnssInv,
           NEW s \in Gnss, NEW t \in SensorStamps, NEW far \in BOOLEAN, FeedInitialize(s, t, far)
    PROVE  CacheInv' /\ GnssInv'
<1> DEFINE all == Append(waiting, <<s, t>>)
           M == Usable(all)
           rest == Without(all, M)
<1>1. FeedGnssToInit(s, t, far, TRUE) /\ fatal' = "none" /\ OtherStep
  BY GnssStepsOfWindow DEF FeedInitialize
<1>2. /\ NewStamp(s, t) /\ hist' = Recorded(s, t) /\ initialized /\ gpsInit'
      /\ failed' = FALSE /\ UpdateAll(rest, M, <<offset', offset'>>) /\ fej' = fej
  BY <1>1, ToInitFacts DEF FeedInitialize, GnssInv
<1>3. /\ all \in Seq(Measurements) /\ Distinct(all)
      /\ Members(all) \cap spent = {}
      /\ \A m \in Members(all) \cup spent : \E u \in hist'[m[1]] : m[2] <= u
  BY <1>2, AppendedFacts
<1> HIDE DEF all
<1>4. M \subseteq Members(all) /\ Members(all) \in SUBSET Measurements
  BY <1>3 DEF Usable, Members
<1>5. M # {} => Cardinality(Poses) >= Order + 1
  BY DEF Usable, Interpolable
<1>6. rest \in Seq(Measurements) /\ Members(rest) = Members(all) \ M /\ Distinct(rest)
  BY <1>3, WithoutFacts
<1> HIDE DEF M, rest
<1>7. AreOffsets(<<offset', offset'>>)
  BY OffsetTypes
<1>8. /\ M \in SUBSET Measurements /\ Members(rest) \cap (spent \cup M) = {}
      /\ \A m \in Members(rest) \cup spent \cup M : \E u \in hist'[m[1]] : m[2] <= u
  BY <1>3, <1>4, <1>6
<1> QED BY <1>1, <1>2, <1>5, <1>6, <1>7, <1>8, AfterLoop

\* A message that waits, or whose initialization is refused.
LEMMA FeedToInitStep ==
    ASSUME IInv, IInv', NoGt, CacheInv, GnssInv,
           NEW s \in Gnss, NEW t \in SensorStamps, NEW far \in BOOLEAN,
           FeedWaiting(s, t, far) \/ FeedRefused(s, t, far)
    PROVE  CacheInv' /\ GnssInv'
<1> DEFINE all == Append(waiting, <<s, t>>)
           Q == {<<m[1], At(m, offset)>> : m \in Members(all)}
<1>1. /\ FeedGnssToInit(s, t, far, FALSE) /\ fatal' = "none" /\ OtherStep
      /\ jacobians' = CachedAll(Q) /\ UNCHANGED <<fej, est, spent>>
  BY GnssStepsOfWindow DEF FeedWaiting, FeedRefused
<1>2. /\ NewStamp(s, t) /\ hist' = Recorded(s, t) /\ initialized /\ ~gpsInit /\ gpsInit' = FALSE
      /\ UNCHANGED <<clones, imuPose>>
  BY <1>1, ToInitFacts
<1>3. /\ all \in Seq(Measurements) /\ Distinct(all)
      /\ Members(all) \cap spent = {}
      /\ \A m \in Members(all) \cup spent : \E u \in hist'[m[1]] : m[2] <= u
  BY <1>2, AppendedFacts
<1>4. /\ waiting' = all \/ waiting' = EveryOther(all)
      /\ failed' \in {FALSE} \cup (IF ~Asserted(Usable(all)) THEN {TRUE} ELSE {})
  BY DEF FeedWaiting, FeedRefused, GnssInv
<1> HIDE DEF all
<1>5. failed' = FALSE
  BY <1>2, <1>3, <1>4, UsableAsserted
<1>6. /\ waiting' \in Seq(Measurements) /\ Distinct(waiting') /\ Members(waiting') \subseteq Members(all)
  BY <1>3, <1>4, EveryOtherFacts
<1>7. Q \in SUBSET (Drivers \X Int)
  <2>1. offset \in [Drivers -> Offsets]
    BY DEF IInv, TypeOK
  <2>2. \A m \in Members(all) : m \in Measurements
    BY <1>3 DEF Members
  <2>3. \A m \in Members(all) : At(m, offset) \in Int /\ m[1] \in Drivers
    BY <2>1, <2>2, AtIsTime
  <2> QED BY <2>3
<1> HIDE DEF Q
<1>8. /\ JacobiansOK'
      /\ \A k \in DOMAIN jacobians' \ DOMAIN jacobians : k[2] \in Int /\ Around(k[2]) # {}
  BY <1>1, <1>7, CachedAllFacts DEF CacheInv
<1>9. CacheInv'
  BY <1>1, <1>8, CacheInvKept
<1>10. Inside'
  BY <1>1, <1>2, <1>8, InsideKept DEF GnssInv
<1>11. /\ spent' \subseteq Measurements /\ Members(waiting') \cap spent' = {}
       /\ \A m \in Members(waiting') \cup spent' : \E u \in hist'[m[1]] : m[2] <= u
  BY <1>1, <1>3, <1>6 DEF GnssInv
<1> QED BY <1>5, <1>6, <1>9, <1>10, <1>11 DEF GnssInv, Heard, Distinct, Members

-----------------------------------------------------------------------------
(* The theorems about the GNSS updater *)

\* Nothing waits at the start.
LEMMA GnssInitInv == ASSUME GnssInit PROVE CacheInv /\ GnssInv
<1>1. CacheInv
  BY CacheInitInv DEF GnssInit
<1>2. /\ waiting = <<>> /\ spent = {} /\ failed = FALSE
      /\ DOMAIN fej = {} /\ DOMAIN jacobians = {}
  BY DEF GnssInit, CacheInit, Nothing
<1>3. Members(waiting) = {} /\ Distinct(waiting)
  BY <1>2 DEF Members, Distinct
<1> QED BY <1>1, <1>2, <1>3 DEF GnssInv, Heard, Inside

\* One step of the GNSS updater.
LEMMA GnssInvStep ==
    ASSUME IInv, IInv', NoGt, CacheInv, GnssInv, [GnssNext]_gnssVars PROVE CacheInv' /\ GnssInv'
<1>1. CASE UNCHANGED gnssVars
  <2>1. CacheInv'
    <3>1. /\ fej' = fej /\ est' = est /\ jacobians' = jacobians /\ clones' = clones
          /\ imuPose' = imuPose /\ keyframes' = keyframes /\ stateTime' = stateTime
          /\ initialized' = initialized /\ Poses' = Poses
      BY <1>1 DEF gnssVars, cacheVars, vars, Poses
    <3> QED BY <3>1 DEF CacheInv, JacobiansOK, KeyframesBehind, Polynomials, FitsOver, CompleteOver,
                        FitOf, Unbroken, Newer
  <2>2. /\ waiting' = waiting /\ spent' = spent /\ failed' = failed /\ hist' = hist /\ gpsInit' = gpsInit
        /\ fej' = fej /\ jacobians' = jacobians /\ clones' = clones /\ Poses' = Poses
    BY <1>1 DEF gnssVars, cacheVars, vars, Poses
  <2> QED BY <2>1, <2>2 DEF GnssInv, Heard, Inside, Distinct, Members
<1>2. CASE GnssNext
  BY <1>2, FeedOtherStep, FeedUpdateStep, FeedInitializeStep, FeedToInitStep DEF GnssNext
<1> QED BY <1>1, <1>2

\* The invariants of the window, the caches and the stack hold throughout.
THEOREM GnssInvariance == ASSUME NoGt PROVE GnssSpec => [](IInv /\ CacheInv /\ GnssInv)
<1>1. GnssSpec => []IInv
  BY GnssImplementsWindow, Invariance, PTL
<1>2. GnssInit => CacheInv /\ GnssInv
  BY GnssInitInv
<1>3. IInv /\ IInv' /\ CacheInv /\ GnssInv /\ [GnssNext]_gnssVars => CacheInv' /\ GnssInv'
  BY GnssInvStep
<1> QED BY <1>1, <1>2, <1>3, PTL DEF GnssSpec

\* Type correctness of the stack: no measurement constrains the filter twice.
THEOREM GnssTypeCorrect == ASSUME NoGt PROVE GnssSpec => []GnssTypeOK
<1>1. ASSUME GnssInv PROVE GnssTypeOK
  <2>1. Members(waiting) \cup spent \subseteq Measurements
    BY <1>1 DEF GnssInv, Members
  <2>2. \A i, j \in DOMAIN waiting : waiting[i] = waiting[j] => i = j
    BY <1>1 DEF GnssInv, Distinct
  <2> QED BY <1>1, <2>1, <2>2 DEF GnssInv, GnssTypeOK, Measurements
<1> QED BY <1>1, GnssInvariance, PTL

\* The assertions of the GNSS initialization never fail: what had a Jacobian can be
\* interpolated.
THEOREM InitAssertionsNeverFail == ASSUME NoGt PROVE GnssSpec => []InitAssertionsHold
<1>1. GnssInv => InitAssertionsHold
  BY DEF GnssInv, InitAssertionsHold
<1> QED BY <1>1, GnssInvariance, PTL

\* A stack has no more members than entries.
LEMMA MembersBound ==
    ASSUME NEW M, NEW s \in Seq(M)
    PROVE  IsFiniteSet(Members(s)) /\ Cardinality(Members(s)) <= Len(s)
<1>1. s \in Surjection(1 .. Len(s), Members(s))
  BY DEF Surjection, Members
<1>2. IsFiniteSet(1 .. Len(s)) /\ Cardinality(1 .. Len(s)) = Len(s)
  <2>1. Len(s) \in Nat /\ 1 \in Int
    OBVIOUS
  <2> HIDE DEF Surjection
  <2>2. /\ IsFiniteSet(1 .. Len(s))
        /\ Cardinality(1 .. Len(s)) = IF 1 > Len(s) THEN 0 ELSE Len(s) - 1 + 1
    BY <2>1, FS_Interval
  <2> QED BY <2>1, <2>2
<1> QED BY <1>1, <1>2, FS_Surjection

\* A measurement leaves the stack for one of the three reasons.
THEOREM MeasurementsAreKept == ASSUME NoGt PROVE GnssSpec => NoMeasurementLost
<1> DEFINE Kept == \A m \in Members(waiting) \ Members(waiting') :
        \/ m \in spent'
        \/ gpsInit' /\ \E off \in {offset, offset'} : \A c \in Poses : At(m, off) < c
        \/ ~gpsInit' /\ Len(waiting) + 1 >= Needed
<1>1. ASSUME IInv, IInv', CacheInv, GnssInv, GnssNext PROVE Kept
  <2> SUFFICES ASSUME NEW m \in Members(waiting), m \notin Members(waiting')
               PROVE  \/ m \in spent'
                      \/ gpsInit' /\ \E off \in {offset, offset'} : \A c \in Poses : At(m, off) < c
                      \/ ~gpsInit' /\ Len(waiting) + 1 >= Needed
    OBVIOUS
  <2>1. /\ offset \in [Drivers -> Offsets] /\ offset' \in [Drivers -> Offsets]
        /\ IsFiniteSet(clones) /\ JacobiansOK /\ spent \subseteq Measurements
        /\ m \in Measurements /\ Len(waiting) \in Nat /\ Needed \in Nat
    BY <1>1, NeededIsPositive DEF IInv, TypeOK, CacheInv, GnssInv, Members
  <2>2. ASSUME NEW off \in {offset, offset'}, At(m, off) < Min(Poses), initialized
        PROVE  \A c \in Poses : At(m, off) < c
    <3>1. At(m, off) \in Int
      BY <2>1, AtIsTime
    <3> QED BY <1>1, <2>1, <2>2, <3>1, OlderThanAll
  <2>3. CASE FeedOther
    BY <2>3 DEF FeedOther
  <2>4. ASSUME NEW s \in Gnss, NEW t \in SensorStamps, FeedUpdate(s, t)
        PROVE  m \in spent' \/ (gpsInit' /\ \E off \in {offset, offset'} : \A c \in Poses : At(m, off) < c)
    <3> DEFINE all == Append(waiting, <<s, t>>)
               offs == <<offset, offset'>>
    <3>1. /\ NewStamp(s, t) /\ hist' = Recorded(s, t) /\ initialized /\ gpsInit'
          /\ UpdateAll(all, {}, offs) /\ fej' = fej
      BY <2>4 DEF FeedUpdate, FeedGnss
    <3>2. all \in Seq(Measurements) /\ Distinct(all) /\ Members(all) \cap spent = {} /\ m \in Members(all)
      BY <1>1, <3>1, AppendedFacts
    <3> HIDE DEF all
    <3>3. /\ {} \in SUBSET Measurements /\ Members(all) \cap (spent \cup {}) = {} /\ AreOffsets(offs)
          /\ {} # {} => Cardinality(Poses) >= Order + 1
      BY <1>1, <3>2, OffsetTypes
    <3>5. offs[1] = offset /\ offs[2] = offset'
      OBVIOUS
    <3> HIDE DEF offs
    <3>6. IsFiniteSet(clones) /\ JacobiansOK /\ spent \subseteq Measurements
      BY <2>1
    <3>7. \A k \in Members(all) \ Members(waiting') :
             k \in spent' \/ \E t1 \in {At(k, offs[1]), At(k, offs[2])} : t1 < Min(Poses)
      BY <1>1, <3>1, <3>2, <3>3, <3>6, UpdateAllFacts
    <3>4. m \notin spent' => \E t1 \in {At(m, offs[1]), At(m, offs[2])} : t1 < Min(Poses)
      BY <3>2, <3>7
    <3> QED BY <2>2, <3>1, <3>4, <3>5
  <2>5. ASSUME NEW s \in Gnss, NEW t \in SensorStamps, NEW far \in BOOLEAN, FeedInitialize(s, t, far)
        PROVE  m \in spent' \/ (gpsInit' /\ \E off \in {offset, offset'} : \A c \in Poses : At(m, off) < c)
    <3> DEFINE all == Append(waiting, <<s, t>>)
               M == Usable(all)
               rest == Without(all, M)
               offs == <<offset', offset'>>
    <3>1. /\ FeedGnssToInit(s, t, far, TRUE) /\ fatal' = "none"
          /\ UpdateAll(rest, M, offs) /\ fej' = fej
      BY <2>5 DEF FeedInitialize
    <3>2. NewStamp(s, t) /\ hist' = Recorded(s, t) /\ initialized /\ gpsInit'
      BY <3>1, ToInitFacts
    <3>3. all \in Seq(Measurements) /\ Distinct(all) /\ Members(all) \cap spent = {} /\ m \in Members(all)
      BY <1>1, <3>2, AppendedFacts
    <3> HIDE DEF all
    <3>4. M \subseteq Members(all) /\ Members(all) \in SUBSET Measurements
          /\ (M # {} => Cardinality(Poses) >= Order + 1)
      BY <3>3 DEF Usable, Members, Interpolable
    <3>5. rest \in Seq(Measurements) /\ Members(rest) = Members(all) \ M /\ Distinct(rest)
      BY <3>3, WithoutFacts
    <3> HIDE DEF M, rest
    <3>6. M \in SUBSET Measurements /\ Members(rest) \cap (spent \cup M) = {} /\ AreOffsets(offs)
      BY <1>1, <3>3, <3>4, <3>5, OffsetTypes
    <3>9. offs[1] = offset' /\ offs[2] = offset'
      OBVIOUS
    <3> HIDE DEF offs
    <3>10. IsFiniteSet(clones) /\ JacobiansOK /\ spent \subseteq Measurements
      BY <2>1
    <3>11. /\ UpdateAll(rest, M, offs) /\ fej' = fej /\ initialized
           /\ rest \in Seq(Measurements) /\ Distinct(rest) /\ M \in SUBSET Measurements
           /\ Members(rest) \cap (spent \cup M) = {} /\ AreOffsets(offs)
           /\ M # {} => Cardinality(Poses) >= Order + 1
      BY <3>1, <3>2, <3>4, <3>5, <3>6
    <3>7. /\ M \subseteq spent'
          /\ \A k \in Members(rest) \ Members(waiting') :
                k \in spent' \/ \E t1 \in {At(k, offs[1]), At(k, offs[2])} : t1 < Min(Poses)
      <4>1. M \subseteq spent'
        BY <1>1, <3>10, <3>11, UpdateAllFacts
      <4>2. \A k \in Members(rest) \ Members(waiting') :
                k \in spent' \/ \E t1 \in {At(k, offs[1]), At(k, offs[2])} : t1 < Min(Poses)
        BY <1>1, <3>10, <3>11, UpdateAllFacts, ZenonT(60)
      <4> QED BY <4>1, <4>2
    <3>8. m \notin spent' => \E t1 \in {At(m, offs[1]), At(m, offs[2])} : t1 < Min(Poses)
      BY <3>3, <3>5, <3>7
    <3> QED BY <2>2, <3>2, <3>8, <3>9
  <2>6. ASSUME NEW s \in Gnss, NEW t \in SensorStamps, NEW far \in BOOLEAN, FeedWaiting(s, t, far)
        PROVE  FALSE
    <3> DEFINE all == Append(waiting, <<s, t>>)
    <3>1. FeedGnssToInit(s, t, far, FALSE) /\ fatal' = "none" /\ waiting' = all
      BY <2>6 DEF FeedWaiting
    <3>2. NewStamp(s, t) /\ hist' = Recorded(s, t)
      BY <3>1, ToInitFacts
    <3>3. m \in Members(all)
      BY <1>1, <3>2, AppendedFacts
    <3> QED BY <3>1, <3>3
  <2>7. ASSUME NEW s \in Gnss, NEW t \in SensorStamps, NEW far \in BOOLEAN, FeedRefused(s, t, far)
        PROVE  ~gpsInit' /\ Len(waiting) + 1 >= Needed
    <3> DEFINE all == Append(waiting, <<s, t>>)
               M == Usable(all)
    <3>1. FeedGnssToInit(s, t, far, FALSE) /\ fatal' = "none" /\ Cardinality(M) >= Needed
      BY <2>7 DEF FeedRefused
    <3>2. NewStamp(s, t) /\ hist' = Recorded(s, t) /\ gpsInit' = FALSE
      BY <3>1, ToInitFacts
    <3>3. all \in Seq(Measurements) /\ Len(all) = Len(waiting) + 1
      BY <1>1, <3>2, AppendedFacts
    <3> HIDE DEF all
    <3>4. M \subseteq Members(all)
      BY DEF Usable
    <3> HIDE DEF M
    <3>5. IsFiniteSet(Members(all)) /\ Cardinality(Members(all)) <= Len(all)
      BY <3>3, MembersBound
    <3>6. IsFiniteSet(M) /\ Cardinality(M) <= Cardinality(Members(all))
      BY <3>4, <3>5, FS_Subset
    <3>7. Cardinality(M) \in Nat /\ Cardinality(Members(all)) \in Nat
      BY <3>5, <3>6, FS_CardinalityType
    <3> QED BY <2>1, <3>1, <3>2, <3>3, <3>5, <3>6, <3>7
  <2> QED BY <1>1, <2>3, <2>4, <2>5, <2>6, <2>7 DEF GnssNext
<1>2. ASSUME UNCHANGED gnssVars PROVE Kept
  BY <1>2 DEF gnssVars
<1>3. (IInv /\ CacheInv /\ GnssInv) /\ (IInv /\ CacheInv /\ GnssInv)' /\ [GnssNext]_gnssVars => [Kept]_gnssVars
  BY <1>1, <1>2
<1> QED BY <1>3, GnssInvariance, PTL DEF GnssSpec, NoMeasurementLost

\* A measurement that can be interpolated is tried.
THEOREM InsideMeasurementsAreTried == ASSUME NoGt PROVE GnssSpec => InsideIsTried
<1> DEFINE TriedNow == waiting' # waiting /\ gpsInit =>
        \A m \in Members(waiting') :
            /\ Cardinality(Poses) >= Order + 1 /\ DOMAIN fej \subseteq Poses
            /\ Min(Poses) <= At(m, offset) /\ At(m, offset) <= Max(Poses)
            /\ offset' = offset
            => <<m[1], At(m, offset)>> \in DOMAIN jacobians'
<1>1. ASSUME IInv, IInv', CacheInv, GnssInv, GnssNext PROVE TriedNow
  <2> SUFFICES ASSUME waiting' # waiting, gpsInit, NEW m \in Members(waiting'),
                      Cardinality(Poses) >= Order + 1, DOMAIN fej \subseteq Poses,
                      Min(Poses) <= At(m, offset), At(m, offset) <= Max(Poses), offset' = offset
               PROVE  <<m[1], At(m, offset)>> \in DOMAIN jacobians'
    OBVIOUS
  <2>1. PICK s \in Gnss, t \in SensorStamps : FeedUpdate(s, t)
    BY <1>1 DEF GnssNext, FeedOther, FeedWaiting, FeedRefused, FeedInitialize, FeedGnssToInit
  <2> DEFINE all == Append(waiting, <<s, t>>)
             offs == <<offset, offset'>>
             time == At(m, offset)
  <2>2. /\ NewStamp(s, t) /\ hist' = Recorded(s, t) /\ initialized
        /\ UpdateAll(all, {}, offs) /\ fej' = fej
    BY <2>1 DEF FeedUpdate, FeedGnss
  <2>3. all \in Seq(Measurements) /\ Distinct(all) /\ Members(all) \cap spent = {}
    BY <1>1, <2>2, AppendedFacts
  <2> HIDE DEF all
  <2>4. /\ {} \in SUBSET Measurements /\ Members(all) \cap (spent \cup {}) = {} /\ AreOffsets(offs)
        /\ {} # {} => Cardinality(Poses) >= Order + 1
        /\ offs[1] = offset /\ offs[2] = offset
    BY <1>1, <2>3, OffsetTypes
  <2> HIDE DEF offs
  <2>5. IsFiniteSet(clones) /\ JacobiansOK /\ spent \subseteq Measurements
    BY <1>1 DEF CacheInv, GnssInv
  <2>6. /\ Members(waiting') \subseteq Members(all)
        /\ DOMAIN jacobians \subseteq DOMAIN jacobians'
        /\ \A k \in Members(all) : \E t1 \in {At(k, offs[1]), At(k, offs[2])} :
              Computes(k[1], t1) => <<k[1], t1>> \in DOMAIN jacobians'
    BY <1>1, <2>2, <2>3, <2>4, <2>5, UpdateAllFacts
  <2>7. m \in Measurements
    <3>1. m \in Members(all)
      BY <2>6
    <3> QED BY <2>3, <3>1 DEF Members
  <2>8. time \in Int
    BY <1>1, <2>7, AtIsTime DEF IInv, TypeOK
  <2>9. Computes(m[1], time) => <<m[1], time>> \in DOMAIN jacobians'
    <3>1. \E t1 \in {time} : Computes(m[1], t1) => <<m[1], t1>> \in DOMAIN jacobians'
      BY <2>4, <2>6
    <3> QED BY <3>1
  <2>10. Poses \in SUBSET Int /\ IsFiniteSet(Poses) /\ Poses # {}
    BY <1>1, <2>2, <2>5, PosesAreFinite DEF IInv, CaughtUp
  <2>11. /\ Min(Poses) \in Poses /\ Max(Poses) \in Poses /\ \A c \in Poses : c <= Max(Poses)
    BY <2>10, MinOfFinite, MaxOfFinite
  <2> HIDE DEF time
  <2>12. Min(Poses) <= time + DtExp /\ time <= Max(Poses) + DtExp
    <3>1. Min(Poses) \in Int /\ Max(Poses) \in Int /\ DtExp \in Nat
      BY <2>10, <2>11, ToleranceIsNatural
    <3> QED BY <2>8, <3>1 DEF time
  <2>13. Around(time) # {}
    BY <1>1, <2>5, <2>8, <2>11, <2>12, WindowHolds
  <2>14. PolynomialReady(time)
    BY <1>1, <2>13, WindowIsReady
  <2>15. ASSUME NEW c \in Poses, ~(time <= c) PROVE Cardinality({d \in Poses : d > c}) > 0
    <3> DEFINE newer == {d \in Poses : d > c}
    <3>1. Max(Poses) \in newer
      <4>1. Max(Poses) \in Int /\ c \in Int /\ time <= Max(Poses)
        BY <2>10, <2>11 DEF time
      <4> QED BY <2>8, <2>11, <2>15, <4>1
    <3>2. newer \in SUBSET Poses
      OBVIOUS
    <3> HIDE DEF newer
    <3>3. IsFiniteSet(newer) /\ newer # {}
      BY <2>10, <3>1, <3>2, FS_Subset
    <3>4. Cardinality(newer) \in Nat /\ Cardinality(newer) # 0
      BY <3>3, FS_CardinalityType, FS_EmptySet
    <3> QED BY <3>4 DEF newer
  <2>16. CASE HasJacobian(m[1], time)
    BY <2>6, <2>16 DEF HasJacobian, time
  <2>17. CASE ~HasJacobian(m[1], time)
    <3>1. Computes(m[1], time)
      BY <2>14, <2>15, <2>17 DEF Computes
    <3> QED BY <2>9, <3>1 DEF time
  <2> QED BY <2>16, <2>17
<1>2. ASSUME UNCHANGED gnssVars PROVE TriedNow
  BY <1>2 DEF gnssVars
<1>3. (IInv /\ CacheInv /\ GnssInv) /\ (IInv /\ CacheInv /\ GnssInv)' /\ [GnssNext]_gnssVars => [TriedNow]_gnssVars
  BY <1>1, <1>2
<1> QED BY <1>3, GnssInvariance, PTL DEF GnssSpec, InsideIsTried

-----------------------------------------------------------------------------
(* The stack of the wheel updater *)

\* The entries of a stack are in order, equal ones allowed; or strictly in order.
Rising(s) == \A i, j \in DOMAIN s : i <= j => s[i] <= s[j]
Ascends(s) == \A i, j \in DOMAIN s : i < j => s[i] < s[j]

\* A sequence over a set is one over a larger set.
LEMMA SeqOfLarger == ASSUME NEW N, NEW M \in SUBSET N, NEW s \in Seq(M) PROVE s \in Seq(N)
<1>1. Seq(N) = UNION {[1 .. n -> N] : n \in Nat}
  OBVIOUS
<1>2. s \in [1 .. Len(s) -> N] /\ Len(s) \in Nat
  OBVIOUS
<1> QED BY <1>1, <1>2

\* What a sequence is after one more entry.
LEMMA AppendFacts ==
    ASSUME NEW M, NEW s \in Seq(M), NEW x \in M
    PROVE  /\ Append(s, x) \in Seq(M) /\ Append(s, x) # <<>>
           /\ Len(s) \in Nat /\ Len(Append(s, x)) = Len(s) + 1
           /\ DOMAIN s = 1 .. Len(s) /\ DOMAIN Append(s, x) = 1 .. Len(s) + 1
           /\ \A i \in 1 .. Len(s) : Append(s, x)[i] = s[i]
           /\ Append(s, x)[Len(s) + 1] = x
           /\ Members(Append(s, x)) = Members(s) \cup {x}
<1>1. /\ Append(s, x) \in Seq(M) /\ Append(s, x) # <<>>
      /\ Len(s) \in Nat /\ Len(Append(s, x)) = Len(s) + 1
      /\ DOMAIN s = 1 .. Len(s) /\ DOMAIN Append(s, x) = 1 .. Len(s) + 1
      /\ \A i \in 1 .. Len(s) : Append(s, x)[i] = s[i]
      /\ Append(s, x)[Len(s) + 1] = x
  OBVIOUS
<1>2. Members(Append(s, x)) = Members(s) \cup {x}
  BY <1>1 DEF Members
<1> QED BY <1>1, <1>2

\* The entries of a sequence of times after one more.
LEMMA AppendTime ==
    ASSUME NEW s \in Seq(Int), NEW x \in Int
    PROVE  /\ Append(s, x) \in Seq(Int) /\ Len(Append(s, x)) = Len(s) + 1
           /\ Members(Append(s, x)) = Members(s) \cup {x}
BY AppendFacts

\* Two more entries at once.
LEMMA AppendTwo ==
    ASSUME NEW s \in Seq(Int), NEW x \in Int, NEW y \in Int
    PROVE  s \o <<x, y>> = Append(Append(s, x), y)
<1> DEFINE n == Len(s)
           a == s \o <<x, y>>
           b == Append(Append(s, x), y)
<1>1. n \in Nat
  OBVIOUS
<1>2. a \in Seq(Int) /\ b \in Seq(Int) /\ Len(a) = n + 2 /\ Len(b) = n + 2
  OBVIOUS
<1>3. \A i \in 1 .. n + 2 : a[i] = b[i]
  <2> SUFFICES ASSUME NEW i \in 1 .. n + 2 PROVE a[i] = b[i]
    OBVIOUS
  <2>1. CASE i \in 1 .. n
    BY <1>1, <2>1
  <2>2. CASE i = n + 1
    BY <1>1, <2>2
  <2>3. CASE i = n + 2
    BY <1>1, <2>3
  <2> QED BY <1>1, <2>1, <2>2, <2>3
<1> HIDE DEF a, b, n
<1>4. a = [i \in 1 .. n + 2 |-> a[i]] /\ b = [i \in 1 .. n + 2 |-> b[i]]
  BY <1>1, <1>2
<1>5. a = b
  BY <1>3, <1>4
<1> QED BY <1>5 DEF a, b

\* A later entry behind ordered ones leaves them in order.
LEMMA AppendRises ==
    ASSUME NEW s \in Seq(Int), NEW x \in Int, Rising(s), \A v \in Members(s) : v <= x
    PROVE  Rising(Append(s, x))
<1> DEFINE n == Len(s)
           a == Append(s, x)
<1>1. /\ n \in Nat /\ DOMAIN s = 1 .. n /\ DOMAIN a = 1 .. n + 1
      /\ (\A i \in 1 .. n : a[i] = s[i]) /\ a[n + 1] = x
  BY AppendFacts
<1> HIDE DEF n, a
<1>2. SUFFICES ASSUME NEW i \in 1 .. n + 1, NEW j \in 1 .. n + 1, i <= j PROVE a[i] <= a[j]
  BY <1>1 DEF Rising, a
<1>3. CASE j \in 1 .. n
  <2>1. i \in 1 .. n
    BY <1>1, <1>2, <1>3
  <2> QED BY <1>1, <1>2, <1>3, <2>1 DEF Rising
<1>4. CASE j = n + 1 /\ i \in 1 .. n
  <2>1. s[i] \in Members(s)
    BY <1>1, <1>4 DEF Members
  <2> QED BY <1>1, <1>4, <2>1
<1>5. CASE i = n + 1 /\ j = n + 1
  BY <1>1, <1>5
<1> QED BY <1>1, <1>2, <1>3, <1>4, <1>5

\* A loop that keeps a part of an ordered stack keeps the order.
LEMMA SieveRises ==
    ASSUME NEW M \in SUBSET Int, NEW s \in Seq(M), NEW kept, NEW run, IsSieve(run, s, M, kept), Rising(s)
    PROVE  Rising(run[Len(s)])
<1> DEFINE n == Len(s)
           Q == {i \in 0 .. n : /\ Rising(run[i])
                                /\ \A v \in Members(run[i]) : \A j \in 1 .. n : j > i => v <= s[j]}
<1>1. n \in Nat /\ DOMAIN s = 1 .. n /\ \A i \in 1 .. n : s[i] \in M
  OBVIOUS
<1> HIDE DEF n
<1>2. 0 \in Q
  <2>1. Rising(run[0]) /\ Members(run[0]) = {}
    BY DEF IsSieve, Rising, Members
  <2>2. 0 \in 0 .. n
    BY <1>1
  <2> QED BY <2>1, <2>2
<1>3. ASSUME NEW i \in 1 .. n, i - 1 \in Q PROVE i \in Q
  <2> DEFINE old == run[i - 1]
             new == run[i]
  <2>1. i - 1 \in 0 .. n /\ i \in 0 .. n
    BY <1>1
  <2>2. /\ old \in Seq(M) /\ Rising(old)
        /\ \A v \in Members(old) : \A j \in 1 .. n : j > i - 1 => v <= s[j]
        /\ new = IF i \in kept THEN Append(old, s[i]) ELSE old
    BY <1>3, <2>1 DEF IsSieve, n
  <2> HIDE DEF old, new
  <2>3. \A v \in Members(old) : v <= s[i] /\ \A j \in 1 .. n : j > i => v <= s[j]
    <3> SUFFICES ASSUME NEW v \in Members(old)
                 PROVE  v <= s[i] /\ \A j \in 1 .. n : j > i => v <= s[j]
      OBVIOUS
    <3>1. i > i - 1 /\ \A j \in 1 .. n : j > i => j > i - 1
      OBVIOUS
    <3> QED BY <2>2, <3>1
  <2>4. \A j \in 1 .. n : j > i => s[i] <= s[j]
    BY <1>1 DEF Rising
  <2>5. old \in Seq(Int) /\ s[i] \in Int
    BY <1>1, <2>2, SeqOfLarger
  <2>6. Rising(new)
    BY <2>2, <2>3, <2>5, AppendRises
  <2>7. Members(new) \subseteq Members(old) \cup {s[i]}
    BY <2>2, <2>5, AppendFacts
  <2>8. run[i] = new
    BY DEF new
  <2>9. \A v \in Members(new) : \A j \in 1 .. n : j > i => v <= s[j]
    BY <2>3, <2>4, <2>7
  <2> QED BY <2>1, <2>6, <2>8, <2>9
<1>4. n \in Q
  <2> HIDE DEF Q
  <2>1. \A i \in 0 .. n : i \in Q
    BY <1>1, <1>2, <1>3, CountUp
  <2> QED BY <1>1, <2>1
<1> QED BY <1>4 DEF n

\* UpdaterWheel::feed_measurement is such a loop.
LEMMA StackedSieves ==
    ASSUME readings \in Seq(WheelStamps), NEW w \in WheelStamps
    PROVE  LET s == Append(readings, w)
           IN  \E run : /\ IsSieve(run, s, WheelStamps, {i \in 1 .. Len(s) : ~(w - s[i] > Keep)})
                        /\ Stacked(w) = run[Len(s)]
<1> DEFINE s == Append(readings, w)
           n == Len(s)
           T == Seq(WheelStamps)
           base == <<>>
           turn(left, r) == IF w - r > Keep THEN left ELSE Append(left, r)
           step == [i \in 1 .. n |-> [left \in T |-> turn(left, s[i])]]
<1>1. n \in Nat /\ s \in T /\ DOMAIN s = 1 .. n /\ \A i \in 1 .. n : s[i] \in WheelStamps
  OBVIOUS
<1>2. base \in T
  OBVIOUS
<1>3. ASSUME NEW left \in T, NEW r \in WheelStamps PROVE turn(left, r) \in T
  OBVIOUS
<1> HIDE DEF turn, T, base, n, s
<1>4. step \in [1 .. n -> [T -> T]]
  BY <1>1, <1>3
<1>5. PICK g : IsFold(g, n, T, base, step)
  <2> HIDE DEF step
  <2> QED BY <1>1, <1>2, <1>4, FoldExists
<1>6. g = [R \in SUBSET (1 .. n) |-> IF R = {} THEN base ELSE turn(g[R \ {Max(R)}], s[Max(R)])]
  <2>1. \A R \in SUBSET (1 .. n) : R # {} => g[R] = turn(g[R \ {Max(R)}], s[Max(R)])
    BY <1>5 DEF IsFold
  <2> QED BY <1>5, <2>1 DEF IsFold
<1>7. PICK h :
         /\ h = [R \in SUBSET (1 .. n) |-> IF R = {} THEN base ELSE turn(h[R \ {Max(R)}], s[Max(R)])]
         /\ Stacked(w) = h[1 .. n]
  BY <1>1, <1>6 DEF Stacked, FoldLeft, MapThenFoldSet, turn, base, s
<1>8. Unfolds(h, n, T, base, step)
  BY <1>5, <1>7 DEF IsFold, Unfolds
<1>9. PICK run : IsRun(run, n, T, base, step) /\ run[n] = h[1 .. n]
  <2> HIDE DEF step
  <2>1. n \in Nat
    BY <1>1
  <2> QED BY <2>1, <1>2, <1>4, <1>8, FoldSteps, SMTT(30)
<1>10. ASSUME NEW i \in 1 .. n
       PROVE  run[i] = IF i \in {j \in 1 .. n : ~(w - s[j] > Keep)} THEN Append(run[i - 1], s[i]) ELSE run[i - 1]
  <2>1. run[i - 1] \in T /\ run[i] = step[i][run[i - 1]]
    <3> HIDE DEF step
    <3> QED BY <1>1, <1>9 DEF IsRun
  <2> QED BY <2>1 DEF turn
<1>11. IsSieve(run, s, WheelStamps, {j \in 1 .. n : ~(w - s[j] > Keep)})
  BY <1>9, <1>10 DEF IsRun, IsSieve, T, base, n
<1> QED BY <1>7, <1>9, <1>11 DEF n, s

\* The stack after a message: in order, with the reading the message brought.
LEMMA StackedFacts ==
    ASSUME readings \in Seq(WheelStamps), Rising(readings),
           NEW w \in WheelStamps, \A i \in DOMAIN readings : readings[i] <= w
    PROVE  Stacked(w) \in Seq(WheelStamps) /\ Rising(Stacked(w)) /\ Stacked(w) # <<>>
<1> DEFINE s == Append(readings, w)
           kept == {i \in 1 .. Len(s) : ~(w - s[i] > Keep)}
<1>1. WheelStamps \in SUBSET Int /\ w \in Int /\ Keep \in Nat /\ readings \in Seq(Int)
  BY WheelAssumption, SeqOfLarger
<1>2. s \in Seq(WheelStamps) /\ Len(s) \in Nat /\ Len(s) = Len(readings) + 1 /\ Len(readings) \in Nat
      /\ s[Len(s)] = w
  BY AppendFacts
<1>3. Rising(s)
  <2>1. \A v \in Members(readings) : v <= w
    BY DEF Members
  <2> QED BY <1>1, <2>1, AppendRises
<1>4. PICK run : IsSieve(run, s, WheelStamps, kept) /\ Stacked(w) = run[Len(s)]
  BY StackedSieves
<1>5. w \in KeptOf(s, kept, Len(s))
  <2>1. Len(s) \in kept
    BY <1>1, <1>2
  <2> QED BY <1>2, <2>1 DEF KeptOf
<1> HIDE DEF s, kept
<1>6. Stacked(w) \in Seq(WheelStamps)
  BY <1>2, <1>4 DEF IsSieve
<1>7. Rising(Stacked(w))
  BY <1>1, <1>2, <1>3, <1>4, SieveRises
<1>8. w \in Members(Stacked(w))
  BY <1>2, <1>4, <1>5, SieveKeeps
<1>9. Stacked(w) # <<>>
  BY <1>8 DEF Members
<1> QED BY <1>6, <1>7, <1>9

-----------------------------------------------------------------------------
(* UpdaterWheel::select_wheel_data *)

\* The states of its loop.
CollectStates == [done : BOOLEAN, times : Seq(Int)]

\* The states the loop goes through.
IsCollectRun(run, rd, t0, t1) ==
    /\ run \in [0 .. Len(rd) - 1 -> CollectStates]
    /\ run[0] = [done |-> FALSE, times |-> <<>>]
    /\ \A i \in 1 .. Len(rd) - 1 : run[i] = Collect(rd, t0, t1, run[i - 1], i)
    /\ Selected(rd, t0, t1) =
         LET all == run[Len(rd) - 1].times
         IN  IF rd[Len(rd)] <= t1 \/ rd[1] > t0 \/ Len(all) < 2 THEN <<>> ELSE Spread(all)

\* It has such states.
LEMMA CollectRuns ==
    ASSUME NEW rd \in Seq(Int), rd # <<>>, NEW t0 \in Int, NEW t1 \in Int
    PROVE  \E run : IsCollectRun(run, rd, t0, t1)
<1> DEFINE n == Len(rd) - 1
           T == CollectStates
           base == [done |-> FALSE, times |-> <<>>]
           places == [i \in 1 .. n |-> i]
           step == [i \in 1 .. n |-> [acc \in T |-> Collect(rd, t0, t1, acc, i)]]
           all == FoldLeft(LAMBDA acc, i : Collect(rd, t0, t1, acc, i), base, places)
<1>1. n \in Nat /\ Len(rd) = n + 1 /\ \A i \in 1 .. n + 1 : rd[i] \in Int
  OBVIOUS
<1>2. base \in T
  BY DEF CollectStates
<1>3. ASSUME NEW acc \in T, NEW i \in 1 .. n PROVE Collect(rd, t0, t1, acc, i) \in T
  <2>1. rd[i] \in Int /\ acc.times \in Seq(Int)
    BY <1>1 DEF CollectStates
  <2>2. /\ Append(acc.times, t0) \in Seq(Int) /\ Append(acc.times, rd[i]) \in Seq(Int)
        /\ acc.times \o <<t1>> \in Seq(Int) /\ acc.times \o <<rd[i], t1>> \in Seq(Int)
    BY <2>1
  <2> HIDE DEF n
  <2> QED BY <2>1, <2>2 DEF CollectStates, Collect
<1>4. Selected(rd, t0, t1) =
        IF rd[Len(rd)] <= t1 \/ rd[1] > t0 \/ Len(all.times) < 2 THEN <<>> ELSE Spread(all.times)
  BY DEF Selected
<1> HIDE DEF T, base, n
<1>5. step \in [1 .. n -> [T -> T]]
  BY <1>1, <1>3
<1>6. PICK g : IsFold(g, n, T, base, step)
  <2> HIDE DEF step
  <2> QED BY <1>1, <1>2, <1>5, FoldExists
<1>7. Len(places) = n /\ DOMAIN places = 1 .. n /\ \A i \in 1 .. n : places[i] = i
  BY <1>1
<1>8. g = [R \in SUBSET (1 .. n) |->
             IF R = {} THEN base ELSE Collect(rd, t0, t1, g[R \ {Max(R)}], places[Max(R)])]
  <2>1. \A R \in SUBSET (1 .. n) : R # {} => g[R] = Collect(rd, t0, t1, g[R \ {Max(R)}], Max(R))
    BY <1>6 DEF IsFold
  <2>2. \A R \in SUBSET (1 .. n) : R # {} => Max(R) \in 1 .. n
    BY <1>6 DEF IsFold
  <2> HIDE DEF places
  <2> QED BY <1>6, <1>7, <2>1, <2>2 DEF IsFold
<1> HIDE DEF places
<1>9. PICK h :
         /\ h = [R \in SUBSET (1 .. n) |->
                   IF R = {} THEN base ELSE Collect(rd, t0, t1, h[R \ {Max(R)}], places[Max(R)])]
         /\ all = h[1 .. n]
  BY <1>7, <1>8, ZenonT(60) DEF FoldLeft, MapThenFoldSet
<1>10. Unfolds(h, n, T, base, step)
  <2>1. h[{}] = base
    BY <1>9
  <2>2. ASSUME NEW R \in SUBSET (1 .. n), R # {}, h[R \ {Max(R)}] \in T
        PROVE  h[R] = step[Max(R)][h[R \ {Max(R)}]]
    <3>1. Max(R) \in 1 .. n
      BY <1>6, <2>2 DEF IsFold
    <3>2. h[R] = Collect(rd, t0, t1, h[R \ {Max(R)}], Max(R))
      BY <1>7, <1>9, <2>2, <3>1
    <3> QED BY <2>2, <3>1, <3>2
  <2> HIDE DEF step
  <2> QED BY <2>1, <2>2 DEF Unfolds
<1>11. PICK run : IsRun(run, n, T, base, step) /\ run[n] = h[1 .. n]
  <2> HIDE DEF step
  <2>1. n \in Nat
    BY <1>1
  <2> QED BY <2>1, <1>2, <1>5, <1>10, FoldSteps, SMTT(30)
<1>12. ASSUME NEW i \in 1 .. n PROVE run[i] = Collect(rd, t0, t1, run[i - 1], i)
  <2>1. run[i - 1] \in T /\ run[i] = step[i][run[i - 1]]
    <3> HIDE DEF step
    <3> QED BY <1>1, <1>11 DEF IsRun
  <2> QED BY <2>1
<1>13. run \in [0 .. n -> T] /\ run[0] = base
  BY <1>11 DEF IsRun
<1> HIDE DEF all
<1>14. Selected(rd, t0, t1) =
         IF rd[Len(rd)] <= t1 \/ rd[1] > t0 \/ Len(run[n].times) < 2 THEN <<>> ELSE Spread(run[n].times)
  BY <1>4, <1>9, <1>11
<1> QED BY <1>12, <1>13, <1>14 DEF IsCollectRun, n, T, base

\* The times taken in the first i turns, while the end is not reached.
TakenUpTo(rd, t0, i) ==
    {rd[j] : j \in {k \in 1 .. i : rd[k] >= t0}} \cup (IF t0 < rd[i + 1] THEN {t0} ELSE {})

\* Both ends and the readings in between.
Between(rd, t0, t1) == {t0, t1} \cup {r \in Members(rd) : t0 <= r /\ r <= t1}

\* What is known of the times taken in the first i turns, while the end is not reached.
Taking(rd, t0, t1, times, i) ==
    /\ Members(times) = TakenUpTo(rd, t0, i)
    /\ \A v \in Members(times) : v <= rd[i + 1] /\ v <= t1
    /\ \A j \in 1 .. i : rd[j] >= t0 => rd[j + 1] <= t1
    /\ i >= 1 /\ rd[i] < t0 => Len(times) <= 1

\* A sequence without an entry is empty.
LEMMA NoMembers == ASSUME NEW M, NEW s \in Seq(M), Members(s) = {} PROVE s = <<>> /\ Len(s) = 0
<1>1. DOMAIN s = 1 .. Len(s) /\ Len(s) \in Nat
  OBVIOUS
<1>2. ~(1 \in DOMAIN s)
  BY DEF Members
<1> QED BY <1>1, <1>2

\* The turn in which t0 lies between two readings: nothing was taken before.
LEMMA HalvesTurn ==
    ASSUME NEW rd \in Seq(Int), Rising(rd), NEW t0 \in Int, NEW t1 \in Int, t0 < t1,
           NEW i \in 1 .. Len(rd) - 1, NEW times \in Seq(Int), Taking(rd, t0, t1, times, i - 1),
           Halves(rd, i, t0)
    PROVE  Taking(rd, t0, t1, Append(times, t0), i)
<1> DEFINE n == Len(rd)
<1>1. n \in Nat /\ DOMAIN rd = 1 .. n /\ \A j \in 1 .. n : rd[j] \in Int
  OBVIOUS
<1>2. i \in 1 .. n /\ i + 1 \in 1 .. n /\ i - 1 + 1 = i /\ rd[i] < t0 /\ t0 < rd[i + 1]
  BY <1>1 DEF Halves
<1> HIDE DEF n
<1>3. \A j \in 1 .. i : j \in 1 .. n /\ rd[j] < t0
  <2> SUFFICES ASSUME NEW j \in 1 .. i PROVE j \in 1 .. n /\ rd[j] < t0
    OBVIOUS
  <2>1. j \in 1 .. n /\ j <= i
    BY <1>1, <1>2
  <2>2. rd[j] <= rd[i]
    BY <1>1, <1>2, <2>1 DEF Rising
  <2> QED BY <1>1, <1>2, <2>1, <2>2
<1>4. {k \in 1 .. i : rd[k] >= t0} = {} /\ {k \in 1 .. (i - 1) : rd[k] >= t0} = {}
  <2>1. \A j \in 1 .. (i - 1) : j \in 1 .. i
    BY <1>2
  <2>2. \A j \in 1 .. i : ~(rd[j] >= t0)
    BY <1>1, <1>3
  <2> QED BY <2>1, <2>2
<1>5. TakenUpTo(rd, t0, i - 1) = {} /\ TakenUpTo(rd, t0, i) = {t0}
  <2>1. ~(t0 < rd[i])
    BY <1>1, <1>2
  <2> QED BY <1>2, <1>4, <2>1 DEF TakenUpTo
<1>6. times = <<>> /\ Len(times) = 0
  BY <1>5, NoMembers DEF Taking
<1>7. Members(Append(times, t0)) = {t0} /\ Len(Append(times, t0)) = 1
  <2>1. Members(Append(times, t0)) = Members(times) \cup {t0} /\ Len(Append(times, t0)) = Len(times) + 1
    BY AppendTime
  <2>2. Members(times) = {}
    BY <1>5 DEF Taking
  <2> QED BY <1>6, <2>1, <2>2
<1>8. \A v \in Members(Append(times, t0)) : v <= rd[i + 1] /\ v <= t1
  BY <1>1, <1>2, <1>7
<1>9. \A j \in 1 .. i : rd[j] >= t0 => rd[j + 1] <= t1
  BY <1>1, <1>3
<1> QED BY <1>5, <1>7, <1>8, <1>9 DEF Taking

\* The turn in which a reading and the next one lie between t0 and t1.
LEMMA InsideTurn ==
    ASSUME NEW rd \in Seq(Int), Rising(rd), NEW t0 \in Int, NEW t1 \in Int, t0 < t1,
           NEW i \in 1 .. Len(rd) - 1, NEW times \in Seq(Int), Rising(times), Taking(rd, t0, t1, times, i - 1),
           rd[i] >= t0, rd[i + 1] <= t1
    PROVE  Rising(Append(times, rd[i])) /\ Taking(rd, t0, t1, Append(times, rd[i]), i)
<1> DEFINE n == Len(rd)
           new == Append(times, rd[i])
<1>1. n \in Nat /\ DOMAIN rd = 1 .. n /\ \A j \in 1 .. n : rd[j] \in Int
  OBVIOUS
<1>2. i \in 1 .. n /\ i + 1 \in 1 .. n /\ i - 1 + 1 = i /\ i <= i + 1 /\ rd[i] \in Int /\ rd[i + 1] \in Int
  BY <1>1
<1> HIDE DEF n
<1>3. rd[i] <= rd[i + 1]
  BY <1>1, <1>2 DEF Rising
<1>4. \A v \in Members(times) : v \in Int /\ v <= rd[i] /\ v <= t1
  BY <1>2, SMTT(30) DEF Taking, Members
<1>5. Rising(new)
  BY <1>2, <1>4, AppendRises
<1>6. Members(new) = Members(times) \cup {rd[i]}
  BY <1>2, AppendTime
<1> HIDE DEF new
<1>7. Members(new) = TakenUpTo(rd, t0, i)
  <2> DEFINE K(m) == {k \in 1 .. m : rd[k] >= t0}
  <2>1. K(i) = K(i - 1) \cup {i}
    BY <1>2
  <2>2. {rd[j] : j \in K(i)} = {rd[j] : j \in K(i - 1)} \cup {rd[i]}
    BY <2>1
  <2>3. Members(times) = {rd[j] : j \in K(i - 1)} \cup (IF t0 < rd[i] THEN {t0} ELSE {})
    BY <1>2 DEF Taking, TakenUpTo
  <2>4. TakenUpTo(rd, t0, i) = {rd[j] : j \in K(i)} \cup (IF t0 < rd[i + 1] THEN {t0} ELSE {})
    BY DEF TakenUpTo
  <2> HIDE DEF K
  <2>5. CASE t0 < rd[i]
    <3>1. t0 < rd[i + 1]
      BY <1>2, <1>3, <2>5
    <3> QED BY <1>6, <2>2, <2>3, <2>4, <2>5, <3>1
  <2>6. CASE t0 = rd[i]
    <3>1. ~(t0 < rd[i])
      BY <2>6
    <3> QED BY <1>6, <2>2, <2>3, <2>4, <2>6, <3>1
  <2> QED BY <1>2, <2>5, <2>6
<1>8. \A v \in Members(new) : v <= rd[i + 1] /\ v <= t1
  BY <1>2, <1>3, <1>4, <1>6
<1>9. \A j \in 1 .. i : rd[j] >= t0 => rd[j + 1] <= t1
  <2>1. \A j \in 1 .. i : j = i \/ j \in 1 .. (i - 1)
    BY <1>2
  <2> QED BY <2>1 DEF Taking
<1>10. ~(rd[i] < t0)
  BY <1>2
<1> QED BY <1>5, <1>7, <1>8, <1>9, <1>10 DEF Taking, new

\* The turn that takes nothing: both readings are before t0.
LEMMA BeforeTurn ==
    ASSUME NEW rd \in Seq(Int), Rising(rd), NEW t0 \in Int, NEW t1 \in Int, t0 < t1,
           NEW i \in 1 .. Len(rd) - 1, NEW times \in Seq(Int), Taking(rd, t0, t1, times, i - 1),
           ~Halves(rd, i, t0), ~(rd[i] >= t0 /\ rd[i + 1] <= t1), ~(rd[i + 1] > t1)
    PROVE  Taking(rd, t0, t1, times, i)
<1> DEFINE n == Len(rd)
<1>1. n \in Nat /\ DOMAIN rd = 1 .. n /\ \A j \in 1 .. n : rd[j] \in Int
  OBVIOUS
<1>2. i \in 1 .. n /\ i + 1 \in 1 .. n /\ i - 1 + 1 = i /\ i <= i + 1 /\ rd[i] \in Int /\ rd[i + 1] \in Int
  BY <1>1
<1>3. rd[i] < t0 /\ ~(t0 < rd[i + 1]) /\ ~(t0 < rd[i]) /\ rd[i] <= rd[i + 1]
  <2>1. rd[i] <= rd[i + 1]
    BY <1>1, <1>2 DEF Rising
  <2> QED BY <1>2, <2>1 DEF Halves
<1> HIDE DEF n
<1>4. \A j \in 1 .. i : ~(rd[j] >= t0)
  <2> SUFFICES ASSUME NEW j \in 1 .. i PROVE ~(rd[j] >= t0)
    OBVIOUS
  <2>1. j \in 1 .. n /\ j <= i
    BY <1>1, <1>2
  <2>2. rd[j] <= rd[i] /\ rd[j] \in Int
    BY <1>1, <1>2, <2>1 DEF Rising
  <2> QED BY <1>2, <1>3, <2>2
<1>5. \A j \in 1 .. (i - 1) : j \in 1 .. i
  BY <1>2
<1>6. TakenUpTo(rd, t0, i - 1) = {} /\ TakenUpTo(rd, t0, i) = {}
  <2>1. {k \in 1 .. i : rd[k] >= t0} = {} /\ {k \in 1 .. (i - 1) : rd[k] >= t0} = {}
    BY <1>4, <1>5
  <2> QED BY <1>2, <1>3, <2>1 DEF TakenUpTo
<1>7. Members(times) = {} /\ Len(times) = 0
  <2>1. Members(times) = {}
    BY <1>6 DEF Taking
  <2> QED BY <2>1, NoMembers
<1> QED BY <1>4, <1>6, <1>7 DEF Taking

\* The turn that reaches the end.
LEMMA EndTurn ==
    ASSUME NEW rd \in Seq(Int), Rising(rd), NEW t0 \in Int, NEW t1 \in Int, t0 < t1,
           NEW i \in 1 .. Len(rd) - 1, NEW times \in Seq(Int), Rising(times), Taking(rd, t0, t1, times, i - 1),
           ~Halves(rd, i, t0), rd[i + 1] > t1
    PROVE  LET new == times \o (IF rd[i] >= t1 THEN <<t1>> ELSE <<rd[i], t1>>)
           IN  new \in Seq(Int) /\ Rising(new) /\ Members(new) = Between(rd, t0, t1)
<1> DEFINE n == Len(rd)
           new == times \o (IF rd[i] >= t1 THEN <<t1>> ELSE <<rd[i], t1>>)
           mid == IF rd[i] >= t1 THEN times ELSE Append(times, rd[i])
<1>1. n \in Nat /\ DOMAIN rd = 1 .. n /\ \A j \in 1 .. n : rd[j] \in Int
  OBVIOUS
<1>2. i \in 1 .. n /\ i + 1 \in 1 .. n /\ i - 1 + 1 = i /\ i <= i + 1 /\ rd[i] \in Int /\ rd[i + 1] \in Int
  BY <1>1
<1>3. rd[i] >= t0
  BY <1>2 DEF Halves
<1>4. new = Append(mid, t1)
  <2>1. CASE rd[i] >= t1
    BY <2>1
  <2>2. CASE ~(rd[i] >= t1)
    <3>1. rd[i] \in Int
      BY <1>2
    <3>2. times \o <<rd[i], t1>> = Append(Append(times, rd[i]), t1)
      BY <3>1, AppendTwo
    <3> QED BY <2>2, <3>2
  <2> QED BY <2>1, <2>2
<1> HIDE DEF n
<1>5. \A v \in Members(times) : v \in Int /\ v <= rd[i] /\ v <= t1
  BY <1>2, SMTT(30) DEF Taking, Members
<1>6. mid \in Seq(Int) /\ Rising(mid) /\ Members(mid) = Members(times) \cup (IF rd[i] >= t1 THEN {} ELSE {rd[i]})
  <2>1. CASE rd[i] >= t1
    BY <2>1
  <2>2. CASE ~(rd[i] >= t1)
    <3>1. Append(times, rd[i]) \in Seq(Int) /\ Members(Append(times, rd[i])) = Members(times) \cup {rd[i]}
      BY <1>2, AppendTime
    <3>2. Rising(Append(times, rd[i]))
      BY <1>2, <1>5, AppendRises
    <3> QED BY <2>2, <3>1, <3>2
  <2> QED BY <2>1, <2>2
<1> HIDE DEF mid
<1>7. \A v \in Members(mid) : v <= t1
  BY <1>2, <1>5, <1>6
<1>8. new \in Seq(Int) /\ Members(new) = Members(mid) \cup {t1}
  BY <1>4, <1>6, AppendTime
<1>9. Rising(new)
  BY <1>4, <1>6, <1>7, AppendRises
<1>10. Members(times) = {rd[j] : j \in {k \in 1 .. (i - 1) : rd[k] >= t0}} \cup (IF t0 < rd[i] THEN {t0} ELSE {})
  BY <1>2 DEF Taking, TakenUpTo
<1> HIDE DEF new
<1>11. Members(new) \subseteq Between(rd, t0, t1)
  <2> SUFFICES ASSUME NEW v \in Members(new) PROVE v \in Between(rd, t0, t1)
    OBVIOUS
  <2>1. CASE v = t1
    BY <2>1 DEF Between
  <2>2. CASE v = rd[i] /\ ~(rd[i] >= t1)
    <3>1. rd[i] \in Members(rd) /\ t0 <= rd[i] /\ rd[i] <= t1
      BY <1>1, <1>2, <1>3, <2>2 DEF Members
    <3> QED BY <2>2, <3>1 DEF Between
  <2>3. CASE v = t0
    BY <2>3 DEF Between
  <2>4. ASSUME NEW j \in 1 .. (i - 1), rd[j] >= t0, v = rd[j] PROVE v \in Between(rd, t0, t1)
    <3>1. j \in 1 .. n
      BY <1>1, <1>2
    <3>2. v \in Members(times)
      BY <1>10, <2>4
    <3>3. rd[j] \in Members(rd) /\ t0 <= rd[j] /\ rd[j] <= t1
      BY <1>1, <1>5, <2>4, <3>1, <3>2 DEF Members
    <3> QED BY <2>4, <3>3 DEF Between
  <2>5. v = t1 \/ (v = rd[i] /\ ~(rd[i] >= t1)) \/ v \in Members(times)
    BY <1>6, <1>8
  <2> QED BY <1>10, <2>1, <2>2, <2>3, <2>4, <2>5
<1>12. Between(rd, t0, t1) \subseteq Members(new)
  <2>1. t1 \in Members(new)
    BY <1>8
  <2>2. ASSUME ~(rd[i] >= t1) PROVE rd[i] \in Members(new)
    BY <1>6, <1>8, <2>2
  <2>3. t0 \in Members(new)
    <3>1. CASE t0 < rd[i]
      BY <1>6, <1>8, <1>10, <3>1
    <3>2. CASE t0 = rd[i]
      BY <2>2, <3>2
    <3> QED BY <1>2, <1>3, <3>1, <3>2
  <2>4. ASSUME NEW j \in 1 .. n, t0 <= rd[j], rd[j] <= t1 PROVE rd[j] \in Members(new)
    <3>1. rd[j] \in Int /\ j <= i
      <4>1. CASE j >= i + 1
        <5>1. rd[i + 1] <= rd[j]
          BY <1>1, <1>2, <4>1 DEF Rising
        <5> QED BY <1>1, <1>2, <2>4, <5>1
      <4> QED BY <1>1, <1>2, <4>1
    <3>2. CASE j = i
      <4>1. CASE rd[i] >= t1
        BY <1>2, <2>1, <2>4, <3>2, <4>1
      <4>2. CASE ~(rd[i] >= t1)
        BY <2>2, <3>2, <4>2
      <4> QED BY <4>1, <4>2
    <3>3. CASE j \in 1 .. (i - 1)
      <4>1. rd[j] \in {rd[k] : k \in {l \in 1 .. (i - 1) : rd[l] >= t0}}
        BY <2>4, <3>1, <3>3
      <4> QED BY <1>6, <1>8, <1>10, <4>1
    <3> QED BY <1>2, <3>1, <3>2, <3>3
  <2> QED BY <1>1, <2>1, <2>3, <2>4 DEF Between, Members
<1> QED BY <1>8, <1>9, <1>11, <1>12 DEF new

\* What the loop has taken when it ends: nothing, one end, or all there is between the
\* ends; all of it when the last reading but one has reached the first end.
LEMMA CollectedFacts ==
    ASSUME NEW rd \in Seq(Int), rd # <<>>, Rising(rd), NEW t0 \in Int, NEW t1 \in Int, t0 < t1,
           rd[1] <= t0, t1 < rd[Len(rd)],
           NEW run, IsCollectRun(run, rd, t0, t1)
    PROVE  LET all == run[Len(rd) - 1].times
           IN  /\ all \in Seq(Int) /\ Rising(all)
               /\ Len(all) >= 2 => Members(all) = Between(rd, t0, t1)
               /\ Len(rd) >= 2 /\ rd[Len(rd) - 1] >= t0 => Len(all) >= 2
<1> DEFINE n == Len(rd)
           times(i) == run[i].times
           Q == {i \in 0 .. n - 1 :
                   /\ Rising(times(i))
                   /\ IF run[i].done THEN Members(times(i)) = Between(rd, t0, t1)
                      ELSE Taking(rd, t0, t1, times(i), i)}
<1>1. n \in Nat /\ n >= 1 /\ DOMAIN rd = 1 .. n /\ \A i \in 1 .. n : rd[i] \in Int
  OBVIOUS
<1>2. \A i \in 0 .. n - 1 : run[i] \in CollectStates /\ times(i) \in Seq(Int) /\ run[i].done \in BOOLEAN
  BY DEF IsCollectRun, CollectStates
<1>3. 0 \in Q
  <2>1. run[0].done = FALSE /\ times(0) = <<>>
    BY DEF IsCollectRun
  <2>2. Rising(<<>>) /\ Members(<<>>) = {} /\ Len(<<>>) = 0
    BY DEF Rising, Members
  <2>3. TakenUpTo(rd, t0, 0) = {}
    <3>1. ~(t0 < rd[0 + 1])
      BY <1>1
    <3> QED BY <3>1 DEF TakenUpTo
  <2>4. Taking(rd, t0, t1, <<>>, 0)
    <3>1. 1 .. 0 = {} /\ ~(0 >= 1)
      OBVIOUS
    <3> QED BY <2>2, <2>3, <3>1, Zenon DEF Taking
  <2>5. 0 \in 0 .. n - 1
    BY <1>1
  <2> QED BY <2>1, <2>2, <2>4, <2>5
<1>4. ASSUME NEW i \in 1 .. n - 1, i - 1 \in Q PROVE i \in Q
  <2>1. i - 1 \in 0 .. n - 1 /\ i \in 0 .. n - 1 /\ i \in 1 .. Len(rd) - 1
    BY <1>1
  <2>2. run[i] = Collect(rd, t0, t1, run[i - 1], i)
    BY DEF IsCollectRun
  <2>3. /\ times(i - 1) \in Seq(Int) /\ Rising(times(i - 1))
        /\ IF run[i - 1].done THEN Members(times(i - 1)) = Between(rd, t0, t1)
           ELSE Taking(rd, t0, t1, times(i - 1), i - 1)
        /\ rd[i] \in Int /\ rd[i + 1] \in Int
    <3>1. times(i - 1) \in Seq(Int)
      BY <1>2, <2>1
    <3>2. rd[i] \in Int /\ rd[i + 1] \in Int
      BY <1>1, <2>1
    <3>3. /\ Rising(times(i - 1))
          /\ IF run[i - 1].done THEN Members(times(i - 1)) = Between(rd, t0, t1)
             ELSE Taking(rd, t0, t1, times(i - 1), i - 1)
      <4> HIDE DEF times
      <4> QED BY <1>4
    <3> QED BY <3>1, <3>2, <3>3
  <2>4. CASE run[i - 1].done
    <3>1. run[i] = run[i - 1]
      BY <2>2, <2>4 DEF Collect
    <3> QED BY <2>1, <2>3, <2>4, <3>1
  <2>5. CASE ~run[i - 1].done /\ Halves(rd, i, t0)
    <3>1. run[i].done = run[i - 1].done /\ times(i) = Append(times(i - 1), t0)
      BY <1>2, <2>1, <2>2, <2>5 DEF Collect, CollectStates
    <3> HIDE DEF times, n
    <3>2. Taking(rd, t0, t1, Append(times(i - 1), t0), i)
      BY <2>1, <2>3, <2>5, HalvesTurn
    <3>3. Rising(Append(times(i - 1), t0))
      <4>1. \A v \in Members(times(i - 1)) : v \in Int /\ v <= t0
        <5> SUFFICES ASSUME NEW v \in Members(times(i - 1)) PROVE v \in Int /\ v <= t0
          OBVIOUS
        <5>1. v \in Int /\ v <= rd[i - 1 + 1] /\ i - 1 + 1 = i
          BY <2>1, <2>3, <2>5, SMTT(30) DEF Members, Taking
        <5> QED BY <2>3, <2>5, <5>1 DEF Halves
      <4> QED BY <2>3, <4>1, AppendRises
    <3> QED BY <2>1, <2>5, <3>1, <3>2, <3>3
  <2>6. CASE ~run[i - 1].done /\ ~Halves(rd, i, t0) /\ rd[i] >= t0 /\ rd[i + 1] <= t1
    <3>1. run[i].done = run[i - 1].done /\ times(i) = Append(times(i - 1), rd[i])
      BY <1>2, <2>1, <2>2, <2>6 DEF Collect, CollectStates
    <3> HIDE DEF times, n
    <3>2. Rising(Append(times(i - 1), rd[i])) /\ Taking(rd, t0, t1, Append(times(i - 1), rd[i]), i)
      BY <2>1, <2>3, <2>6, InsideTurn
    <3> QED BY <2>1, <2>6, <3>1, <3>2
  <2>7. CASE ~run[i - 1].done /\ ~Halves(rd, i, t0) /\ rd[i + 1] > t1
    <3>1. run[i].done /\ times(i) = times(i - 1) \o (IF rd[i] >= t1 THEN <<t1>> ELSE <<rd[i], t1>>)
      <4> DEFINE old == run[i - 1]
                 new == run[i]
                 more == IF rd[i] >= t1 THEN <<t1>> ELSE <<rd[i], t1>>
      <4>1. ~(rd[i + 1] <= t1)
        BY <2>3, <2>7
      <4>2. new = Collect(rd, t0, t1, old, i)
        BY <2>2
      <4> HIDE DEF old, new, more
      <4>3. new = [done |-> TRUE, times |-> old.times \o more]
        BY <2>7, <4>1, <4>2 DEF Collect, old, more
      <4>4. new.done /\ new.times = old.times \o more
        BY <4>3
      <4> QED BY <4>4 DEF old, new, more
    <3> HIDE DEF times, n
    <3>2. Rising(times(i)) /\ Members(times(i)) = Between(rd, t0, t1)
      BY <2>1, <2>3, <2>7, <3>1, EndTurn, SMTT(30)
    <3> QED BY <2>1, <3>1, <3>2
  <2>8. CASE /\ ~run[i - 1].done /\ ~Halves(rd, i, t0)
             /\ ~(rd[i] >= t0 /\ rd[i + 1] <= t1) /\ ~(rd[i + 1] > t1)
    <3>1. run[i] = run[i - 1]
      BY <2>2, <2>8 DEF Collect
    <3> HIDE DEF times, n
    <3>2. Taking(rd, t0, t1, times(i - 1), i)
      BY <2>1, <2>3, <2>8, BeforeTurn
    <3> QED BY <2>1, <2>3, <2>8, <3>1, <3>2 DEF times
  <2> QED BY <2>4, <2>5, <2>6, <2>7, <2>8
<1>5. n - 1 \in Q
  <2> HIDE DEF Q
  <2>1. n - 1 \in Nat /\ n - 1 \in 0 .. n - 1
    BY <1>1
  <2>2. \A i \in 0 .. n - 1 : i \in Q
    BY <1>3, <1>4, <2>1, CountUp
  <2> QED BY <2>1, <2>2
<1> DEFINE all == run[n - 1].times
<1>6. /\ all \in Seq(Int) /\ Rising(all)
      /\ IF run[n - 1].done THEN Members(all) = Between(rd, t0, t1)
         ELSE Taking(rd, t0, t1, all, n - 1)
  BY <1>1, <1>2, <1>5
<1>7. ASSUME ~run[n - 1].done PROVE Len(all) <= 1 /\ ~(n >= 2 /\ rd[n - 1] >= t0)
  <2>1. Taking(rd, t0, t1, all, n - 1)
    BY <1>6, <1>7
  <2>2. CASE n = 1
    <3>1. Members(all) = {}
      <4>1. ~(t0 < rd[1]) /\ n - 1 = 0 /\ 0 + 1 = 1
        BY <1>1, <2>2
      <4>2. TakenUpTo(rd, t0, 0) = {}
        BY <4>1 DEF TakenUpTo
      <4> QED BY <2>1, <4>1, <4>2 DEF Taking
    <3>2. Len(all) = 0
      BY <1>6, <3>1, NoMembers
    <3> QED BY <2>2, <3>2
  <2>3. CASE n >= 2
    <3>1. n - 1 \in 1 .. n - 1 /\ n - 1 + 1 = n /\ n - 1 \in 1 .. n /\ n \in 1 .. n
      BY <1>1, <2>3
    <3>2. rd[n - 1] \in Int /\ rd[n] \in Int /\ t1 < rd[n]
      BY <1>1, <3>1
    <3>3. rd[n - 1] >= t0 => rd[n] <= t1
      BY <2>1, <3>1 DEF Taking
    <3>4. rd[n - 1] < t0
      BY <3>2, <3>3
    <3>5. Len(all) <= 1
      BY <2>1, <2>3, <1>1, <3>4 DEF Taking
    <3> QED BY <3>2, <3>4, <3>5
  <2> QED BY <1>1, <2>2, <2>3
<1>8. ASSUME run[n - 1].done PROVE Len(all) >= 2
  <2>1. Members(all) = Between(rd, t0, t1)
    BY <1>6, <1>8
  <2>2. t0 \in Members(all) /\ t1 \in Members(all)
    BY <2>1 DEF Between
  <2>3. PICK i, j \in DOMAIN all : all[i] = t0 /\ all[j] = t1
    BY <2>2 DEF Members
  <2>4. DOMAIN all = 1 .. Len(all) /\ Len(all) \in Nat
    BY <1>6
  <2>5. i # j
    BY <2>3
  <2> HIDE DEF all
  <2> QED BY <2>4, <2>5
<1>9. Len(all) \in Nat
  BY <1>6
<1>10. Len(all) >= 2 => Members(all) = Between(rd, t0, t1)
  BY <1>6, <1>7, <1>9
<1>11. n >= 2 /\ rd[n - 1] >= t0 => Len(all) >= 2
  BY <1>7, <1>8
<1> QED BY <1>6, <1>10, <1>11

-----------------------------------------------------------------------------
(* Of neighbours at one time one is kept *)

\* The states that loop goes through.
IsSpreadRun(run, s) ==
    /\ run \in [0 .. Len(s) -> Seq(Int)]
    /\ run[0] = <<>>
    /\ \A i \in 1 .. Len(s) :
          run[i] = IF run[i - 1] # <<>> /\ Last(run[i - 1]) = s[i] THEN run[i - 1] ELSE Append(run[i - 1], s[i])
    /\ Spread(s) = run[Len(s)]

\* It has such states.
LEMMA SpreadRuns ==
    ASSUME NEW s \in Seq(Int)
    PROVE  \E run : IsSpreadRun(run, s)
<1> DEFINE n == Len(s)
           T == Seq(Int)
           base == <<>>
           turn(kept, r) == IF kept # <<>> /\ Last(kept) = r THEN kept ELSE Append(kept, r)
           step == [i \in 1 .. n |-> [left \in T |-> turn(left, s[i])]]
<1>1. n \in Nat /\ DOMAIN s = 1 .. n /\ \A i \in 1 .. n : s[i] \in Int
  OBVIOUS
<1>2. base \in T
  OBVIOUS
<1>3. ASSUME NEW left \in T, NEW m \in Int PROVE turn(left, m) \in T
  OBVIOUS
<1> HIDE DEF turn, T, base, n
<1>4. step \in [1 .. n -> [T -> T]]
  BY <1>1, <1>3
<1>5. PICK g : IsFold(g, n, T, base, step)
  <2> HIDE DEF step
  <2> QED BY <1>1, <1>2, <1>4, FoldExists
<1>6. g = [R \in SUBSET (1 .. n) |-> IF R = {} THEN base ELSE turn(g[R \ {Max(R)}], s[Max(R)])]
  <2>1. \A R \in SUBSET (1 .. n) : R # {} => g[R] = turn(g[R \ {Max(R)}], s[Max(R)])
    BY <1>5 DEF IsFold
  <2> QED BY <1>5, <2>1 DEF IsFold
<1>7. PICK h :
         /\ h = [R \in SUBSET (1 .. n) |-> IF R = {} THEN base ELSE turn(h[R \ {Max(R)}], s[Max(R)])]
         /\ Spread(s) = h[1 .. n]
  BY <1>1, <1>6 DEF Spread, FoldLeft, MapThenFoldSet, turn, base
<1>8. Unfolds(h, n, T, base, step)
  BY <1>5, <1>7 DEF IsFold, Unfolds
<1>9. PICK run : IsRun(run, n, T, base, step) /\ run[n] = h[1 .. n]
  <2> HIDE DEF step
  <2>1. n \in Nat
    BY <1>1
  <2> QED BY <2>1, <1>2, <1>4, <1>8, FoldSteps, SMTT(30)
<1>10. ASSUME NEW i \in 1 .. n
       PROVE  run[i] = IF run[i - 1] # <<>> /\ Last(run[i - 1]) = s[i] THEN run[i - 1]
                       ELSE Append(run[i - 1], s[i])
  <2>1. run[i - 1] \in T /\ run[i] = step[i][run[i - 1]]
    <3> HIDE DEF step
    <3> QED BY <1>1, <1>9 DEF IsRun
  <2> QED BY <2>1 DEF turn
<1> QED BY <1>7, <1>9, <1>10 DEF IsRun, IsSpreadRun, T, base, n

\* What it leaves of ordered entries: the same times, each once.
LEMMA SpreadFacts ==
    ASSUME NEW s \in Seq(Int), Rising(s)
    PROVE  Spread(s) \in Seq(Int) /\ Ascends(Spread(s)) /\ Members(Spread(s)) = Members(s)
<1>1. PICK run : IsSpreadRun(run, s)
  BY SpreadRuns
<1> DEFINE n == Len(s)
           Q == {i \in 0 .. n : /\ Ascends(run[i])
                                /\ Members(run[i]) = {s[j] : j \in 1 .. i}
                                /\ i >= 1 => run[i] # <<>> /\ Last(run[i]) = s[i]}
<1>2. n \in Nat /\ DOMAIN s = 1 .. n /\ \A i \in 1 .. n : s[i] \in Int
  OBVIOUS
<1> HIDE DEF n
<1>3. 0 \in Q
  <2>1. Ascends(run[0]) /\ Members(run[0]) = {}
    BY <1>1 DEF IsSpreadRun, Ascends, Members
  <2>2. 0 \in 0 .. n /\ ~(0 >= 1) /\ {s[j] : j \in 1 .. 0} = {}
    BY <1>2
  <2> QED BY <2>1, <2>2
<1>4. ASSUME NEW i \in 1 .. n, i - 1 \in Q PROVE i \in Q
  <2> DEFINE old == run[i - 1]
             new == run[i]
  <2>1. i - 1 \in 0 .. n /\ i \in 0 .. n /\ s[i] \in Int
    BY <1>2
  <2>2. /\ old \in Seq(Int) /\ Ascends(old) /\ Members(old) = {s[j] : j \in 1 .. (i - 1)}
        /\ i - 1 >= 1 => old # <<>> /\ Last(old) = s[i - 1]
        /\ new = IF old # <<>> /\ Last(old) = s[i] THEN old ELSE Append(old, s[i])
    BY <1>1, <1>4, <2>1 DEF IsSpreadRun, n
  <2> HIDE DEF old, new
  <2>3. {s[j] : j \in 1 .. i} = {s[j] : j \in 1 .. (i - 1)} \cup {s[i]}
    <3>1. 1 .. i = (1 .. (i - 1)) \cup {i}
      BY <2>1
    <3> QED BY <3>1
  <2>4. CASE old # <<>> /\ Last(old) = s[i]
    <3>1. new = old
      BY <2>2, <2>4
    <3>2. s[i] \in Members(old)
      <4>1. Len(old) \in DOMAIN old /\ Last(old) = old[Len(old)]
        BY <2>2, <2>4 DEF Last
      <4> QED BY <2>4, <4>1 DEF Members
    <3>3. Members(new) = {s[j] : j \in 1 .. i}
      BY <2>2, <2>3, <3>1, <3>2
    <3> QED BY <2>1, <2>2, <2>4, <3>1, <3>3 DEF new
  <2>5. CASE ~(old # <<>> /\ Last(old) = s[i])
    <3>1. new = Append(old, s[i])
      BY <2>2, <2>5
    <3>2. /\ Len(old) \in Nat /\ DOMAIN old = 1 .. Len(old) /\ DOMAIN new = 1 .. Len(old) + 1
          /\ (\A j \in 1 .. Len(old) : new[j] = old[j]) /\ new[Len(old) + 1] = s[i]
          /\ new # <<>> /\ Len(new) = Len(old) + 1 /\ Members(new) = Members(old) \cup {s[i]}
      BY <2>1, <2>2, <3>1, AppendFacts, SMTT(30)
    <3>3. ASSUME NEW j \in 1 .. Len(old) PROVE old[j] \in Int /\ old[j] < s[i]
      <4>1. old[j] \in Int /\ old[Len(old)] \in Int /\ Len(old) \in 1 .. Len(old) /\ old # <<>>
            /\ Last(old) = old[Len(old)]
        BY <2>2, <3>2 DEF Last
      <4>2. i - 1 >= 1
        <5>1. CASE i - 1 = 0
          <6>1. {s[k] : k \in 1 .. (i - 1)} = {}
            BY <2>1, <5>1
          <6>2. old = <<>>
            BY <2>2, <6>1, NoMembers
          <6> QED BY <4>1, <6>2
        <5> QED BY <2>1, <5>1
      <4>3. s[i - 1] <= s[i] /\ s[i - 1] \in Int
        <5>1. i - 1 \in 1 .. n /\ i \in 1 .. n /\ i - 1 <= i
          BY <2>1, <4>2
        <5> QED BY <1>2, <5>1 DEF Rising
      <4>4. old[Len(old)] < s[i]
        BY <2>1, <2>2, <2>5, <4>1, <4>2, <4>3
      <4>5. j = Len(old) \/ old[j] < old[Len(old)]
        <5> DEFINE m == Len(old)
        <5>1. m \in Nat
          BY <3>2
        <5> HIDE DEF m
        <5>2. j \in 1 .. m => j = m \/ j < m
          BY <5>1
        <5>3. j = Len(old) \/ j < Len(old)
          BY <5>2 DEF m
        <5>4. \A a, b \in 1 .. Len(old) : a < b => old[a] < old[b]
          BY <2>2, <3>2 DEF Ascends
        <5> QED BY <4>1, <5>3, <5>4
      <4> QED BY <2>1, <4>1, <4>4, <4>5
    <3>4. Ascends(new)
      <4> SUFFICES ASSUME NEW j \in 1 .. Len(old) + 1, NEW k \in 1 .. Len(old) + 1, j < k
                   PROVE  new[j] < new[k]
        BY <3>2 DEF Ascends
      <4>1. j \in 1 .. Len(old)
        BY <3>2
      <4>2. CASE k = Len(old) + 1
        BY <3>2, <3>3, <4>1, <4>2
      <4>3. CASE k \in 1 .. Len(old)
        BY <2>2, <3>2, <4>1, <4>3 DEF Ascends
      <4> QED BY <3>2, <4>2, <4>3, SMTT(30)
    <3>5. Last(new) = s[i]
      BY <3>2 DEF Last
    <3>6. Members(new) = {s[j] : j \in 1 .. i}
      BY <2>2, <2>3, <3>2
    <3> QED BY <2>1, <3>2, <3>4, <3>5, <3>6 DEF new
  <2> QED BY <2>4, <2>5
<1>5. n \in Q
  <2> HIDE DEF Q
  <2>1. \A i \in 0 .. n : i \in Q
    BY <1>2, <1>3, <1>4, CountUp
  <2> QED BY <1>2, <2>1
<1>6. Ascends(run[n]) /\ Members(run[n]) = {s[j] : j \in 1 .. n} /\ run[n] \in Seq(Int)
  BY <1>1, <1>2, <1>5 DEF IsSpreadRun, n
<1> QED BY <1>1, <1>2, <1>6 DEF IsSpreadRun, Members, n

\* The readings selected between two times: both ends and every reading in between, each
\* time once and in order; something is selected if the stack reaches around the two.
LEMMA SelectedFacts ==
    ASSUME NEW rd \in Seq(Int), rd # <<>>, Rising(rd), NEW t0 \in Int, NEW t1 \in Int, t0 < t1
    PROVE  LET times == Selected(rd, t0, t1)
           IN  /\ times \in Seq(Int)
               /\ times # <<>> => Ascends(times) /\ Members(times) = Between(rd, t0, t1)
               /\ Len(rd) >= 2 /\ rd[1] <= t0 /\ t0 <= rd[Len(rd) - 1] /\ t1 < rd[Len(rd)] => times # <<>>
<1> DEFINE n == Len(rd)
           times == Selected(rd, t0, t1)
<1>1. n \in Nat /\ n >= 1 /\ rd[1] \in Int /\ rd[n] \in Int
  OBVIOUS
<1>2. PICK run : IsCollectRun(run, rd, t0, t1)
  BY CollectRuns
<1> DEFINE all == run[n - 1].times
<1>3. times = IF rd[n] <= t1 \/ rd[1] > t0 \/ Len(all) < 2 THEN <<>> ELSE Spread(all)
  BY <1>2 DEF IsCollectRun
<1> HIDE DEF times
<1>4. CASE rd[n] <= t1 \/ rd[1] > t0
  <2>1. times = <<>>
    BY <1>3, <1>4
  <2>2. ~(rd[1] <= t0 /\ t1 < rd[n])
    BY <1>1, <1>4
  <2> QED BY <2>1, <2>2 DEF times
<1>5. CASE rd[1] <= t0 /\ t1 < rd[n]
  <2>1. /\ all \in Seq(Int) /\ Rising(all)
        /\ Len(all) >= 2 => Members(all) = Between(rd, t0, t1)
        /\ n >= 2 /\ rd[n - 1] >= t0 => Len(all) >= 2
    BY <1>2, <1>5, CollectedFacts
  <2> HIDE DEF all
  <2>2. Len(all) \in Nat
    BY <2>1
  <2>3. times = IF Len(all) < 2 THEN <<>> ELSE Spread(all)
    BY <1>1, <1>3, <1>5
  <2>4. CASE Len(all) < 2
    <3>1. times = <<>> /\ ~(n >= 2 /\ rd[n - 1] >= t0)
      BY <2>1, <2>2, <2>3, <2>4
    <3>2. n >= 2 => rd[n - 1] \in Int
      BY <1>1
    <3>3. ~(n >= 2 /\ t0 <= rd[n - 1])
      BY <3>1, <3>2
    <3> QED BY <3>1, <3>3 DEF times
  <2>5. CASE Len(all) >= 2
    <3>1. times = Spread(all)
      BY <2>2, <2>3, <2>5
    <3>2. times \in Seq(Int) /\ Ascends(times) /\ Members(times) = Between(rd, t0, t1)
      BY <2>1, <2>5, <3>1, SpreadFacts
    <3>3. t0 \in Members(times)
      BY <3>2 DEF Between
    <3>4. times # <<>>
      BY <3>3 DEF Members
    <3> QED BY <3>2, <3>4 DEF times
  <2> QED BY <2>2, <2>4, <2>5
<1> QED BY <1>1, <1>4, <1>5

-----------------------------------------------------------------------------
(* UpdaterWheel::update and try_update *)

\* The relative motions the updater integrates, and the states of its walk over the poses.
Motions == [from : Int, to : Int, dt : Int, times : Seq(Int)]
LinkStates == [last : Int, broken : BOOLEAN, used : Seq(Motions)]

\* What the updater is given: readings in order and the offset before and after an update.
IsStack(rd) == rd \in Seq(Int) /\ rd # <<>> /\ Rising(rd)
ArePair(dts) == dts[1] \in Int /\ dts[2] \in Int

\* One motion between two poses of the state.
IsMotion(m, rd, dts) ==
    /\ m.from \in Poses /\ m.to \in Poses /\ m.from < m.to
    /\ m.dt = dts[1] \/ m.dt = dts[2]
    /\ m.times = Selected(rd, m.from - m.dt, m.to - m.dt) /\ m.times # <<>>

\* Motions that follow each other from start to last.
IsChain(us, rd, dts, start, last) ==
    /\ us \in Seq(Motions)
    /\ \A k \in 1 .. Len(us) :
          IsMotion(us[k], rd, dts) /\ us[k].from = IF k = 1 THEN start ELSE us[k - 1].to
    /\ last = IF Len(us) = 0 THEN start ELSE us[Len(us)].to

\* A motion from where the chain ends makes it longer.
LEMMA ChainAppend ==
    ASSUME NEW us, NEW rd, NEW dts, NEW start, NEW last, IsChain(us, rd, dts, start, last),
           NEW m \in Motions, IsMotion(m, rd, dts), m.from = last
    PROVE  IsChain(Append(us, m), rd, dts, start, m.to)
<1> DEFINE n == Len(us)
           new == Append(us, m)
<1>1. us \in Seq(Motions)
  BY DEF IsChain
<1>2. /\ new \in Seq(Motions) /\ n \in Nat /\ Len(new) = n + 1
      /\ (\A k \in 1 .. n : new[k] = us[k]) /\ new[n + 1] = m
  BY <1>1, AppendFacts
<1>3. /\ \A k \in 1 .. n : IsMotion(us[k], rd, dts) /\ us[k].from = IF k = 1 THEN start ELSE us[k - 1].to
      /\ last = IF n = 0 THEN start ELSE us[n].to
  BY DEF IsChain
<1> HIDE DEF n, new
<1>4. ASSUME NEW k \in 1 .. n + 1
      PROVE  IsMotion(new[k], rd, dts) /\ new[k].from = IF k = 1 THEN start ELSE new[k - 1].to
  <2>1. CASE k \in 1 .. n
    <3>1. k = 1 \/ k - 1 \in 1 .. n
      BY <1>2, <2>1
    <3>2. k = 1 \/ new[k - 1] = us[k - 1]
      BY <1>2, <3>1
    <3> QED BY <1>2, <1>3, <2>1, <3>2
  <2>2. CASE k = n + 1 /\ n = 0
    <3>1. k = 1 /\ new[k] = m
      BY <1>2, <2>2
    <3> QED BY <1>3, <2>2, <3>1
  <2>3. CASE k = n + 1 /\ n # 0
    <3>1. k # 1 /\ k - 1 = n /\ n \in 1 .. n
      BY <1>2, <2>3
    <3>2. new[k] = m /\ new[k - 1] = us[n]
      BY <1>2, <2>3, <3>1
    <3>3. last = us[n].to
      BY <1>3, <2>3
    <3> QED BY <3>1, <3>2, <3>3
  <2> QED BY <1>2, <2>1, <2>2, <2>3
<1>5. m.to = IF Len(new) = 0 THEN start ELSE new[Len(new)].to
  <2>1. Len(new) # 0 /\ new[Len(new)] = m
    BY <1>2
  <2> QED BY <2>1
<1>6. \A k \in 1 .. Len(new) :
         IsMotion(new[k], rd, dts) /\ new[k].from = IF k = 1 THEN start ELSE new[k - 1].to
  BY <1>2, <1>4
<1> QED BY <1>2, <1>5, <1>6 DEF IsChain, new

\* The motion from the last pose to c that the walk tries next.
NextMotion(st, c, rd, dts) == Motion(st.last, c, dts[IF st.used = <<>> THEN 1 ELSE 2], rd)

\* A turn of the walk passes over a pose, stops, or goes on by a motion.
IsTurn(st, c, new, m, dts) ==
    /\ ~st.broken /\ st.last < c => m \in Motions /\ (m.dt = dts[1] \/ m.dt = dts[2])
    /\ \/ (st.broken \/ c <= st.last) /\ new = st
       \/ /\ ~st.broken /\ st.last < c /\ m.times = <<>>
          /\ new.last = st.last /\ new.broken /\ new.used = st.used
       \/ /\ ~st.broken /\ st.last < c /\ m.times # <<>>
          /\ new.last = c /\ ~new.broken /\ new.used = Append(st.used, m)

\* Every turn is of one of these kinds.
LEMMA LinkedTurn ==
    ASSUME NEW rd, IsStack(rd), NEW dts, ArePair(dts), NEW st \in LinkStates, NEW c \in Int
    PROVE  /\ Linked(st, c, rd, dts) \in LinkStates
           /\ IsTurn(st, c, Linked(st, c, rd, dts), NextMotion(st, c, rd, dts), dts)
<1> DEFINE dt == dts[IF st.used = <<>> THEN 1 ELSE 2]
           m == Motion(st.last, c, dt, rd)
           new == Linked(st, c, rd, dts)
<1>1. /\ st.last \in Int /\ st.broken \in BOOLEAN /\ st.used \in Seq(Motions)
      /\ st = [last |-> st.last, broken |-> st.broken, used |-> st.used]
  BY DEF LinkStates
<1>2. dt \in Int /\ (dt = dts[1] \/ dt = dts[2])
  BY DEF ArePair
<1>3. new = IF st.broken \/ c <= st.last THEN st
            ELSE IF m.times = <<>> THEN [st EXCEPT !.broken = TRUE]
            ELSE [st EXCEPT !.last = c, !.used = Append(@, m)]
  BY DEF Linked
<1> HIDE DEF dt, new
<1>4. CASE st.broken \/ c <= st.last
  <2>1. new = st
    BY <1>3, <1>4
  <2>2. ~(~st.broken /\ st.last < c)
    BY <1>1, <1>4
  <2> QED BY <1>4, <2>1, <2>2 DEF new, dt, IsTurn, NextMotion
<1>5. CASE ~(st.broken \/ c <= st.last)
  <2>1. ~st.broken /\ st.last < c
    BY <1>1, <1>5
  <2>2. m.dt = dt /\ m.times = Selected(rd, st.last - dt, c - dt) /\ m.from = st.last /\ m.to = c
    BY DEF Motion
  <2>3. m.times \in Seq(Int)
    <3>1. st.last - dt \in Int /\ c - dt \in Int /\ st.last - dt < c - dt
      BY <1>1, <1>2, <2>1
    <3> QED BY <2>2, <3>1, SelectedFacts DEF IsStack
  <2>4. m \in Motions
    BY <1>1, <1>2, <2>2, <2>3 DEF Motion, Motions
  <2> HIDE DEF m
  <2>5. CASE m.times = <<>>
    <3>1. new = [last |-> st.last, broken |-> TRUE, used |-> st.used]
      BY <1>1, <1>3, <1>5, <2>5
    <3> QED BY <1>1, <1>2, <2>1, <2>2, <2>4, <2>5, <3>1 DEF LinkStates, new, m, dt, IsTurn, NextMotion
  <2>6. CASE m.times # <<>>
    <3>1. new = [last |-> c, broken |-> st.broken, used |-> Append(st.used, m)]
      BY <1>1, <1>3, <1>5, <2>6
    <3>2. Append(st.used, m) \in Seq(Motions)
      BY <1>1, <2>4, AppendFacts
    <3> QED BY <1>1, <1>2, <2>1, <2>2, <2>4, <2>6, <3>1, <3>2 DEF LinkStates, new, m, dt, IsTurn, NextMotion
  <2> QED BY <2>5, <2>6
<1> QED BY <1>4, <1>5

\* The states the walk goes through.
IsLinkRun(run, rd, dts) ==
    /\ run \in [0 .. Len(Ascending(Poses)) -> LinkStates]
    /\ run[0] = [last |-> Max(Start), broken |-> FALSE, used |-> <<>>]
    /\ \A i \in 1 .. Len(Ascending(Poses)) : run[i] = Linked(run[i - 1], Ascending(Poses)[i], rd, dts)
    /\ Chained(rd, dts) = run[Len(Ascending(Poses))]

\* It has such states.
LEMMA LinkRuns ==
    ASSUME NEW rd, IsStack(rd), NEW dts, ArePair(dts),
           Poses \in SUBSET Int, IsFiniteSet(Poses), Start # {}, Max(Start) \in Int
    PROVE  \E run : IsLinkRun(run, rd, dts)
<1> DEFINE s == Ascending(Poses)
           n == Len(s)
           T == LinkStates
           base == [last |-> Max(Start), broken |-> FALSE, used |-> <<>>]
           step == [i \in 1 .. n |-> [st \in T |-> Linked(st, s[i], rd, dts)]]
<1>1. n \in Nat /\ DOMAIN s = 1 .. n /\ \A i \in 1 .. n : s[i] \in Int
  <2>1. Cardinality(Poses) \in Nat /\ s \in [1 .. Cardinality(Poses) -> Poses] /\ n = Cardinality(Poses)
    BY AscendingLists
  <2> HIDE DEF s, n
  <2> QED BY <2>1
<1>2. base \in T
  BY DEF LinkStates
<1>3. ASSUME NEW st \in T, NEW i \in 1 .. n PROVE Linked(st, s[i], rd, dts) \in T
  <2> HIDE DEF s, n
  <2> QED BY <1>1, LinkedTurn
<1>4. Chained(rd, dts) = FoldLeft(LAMBDA st, c : Linked(st, c, rd, dts), base, s)
  BY DEF Chained
<1> HIDE DEF T, base, n, s
<1>5. step \in [1 .. n -> [T -> T]]
  BY <1>1, <1>3
<1>6. PICK g : IsFold(g, n, T, base, step)
  <2> HIDE DEF step
  <2> QED BY <1>1, <1>2, <1>5, FoldExists
<1>7. g = [R \in SUBSET (1 .. n) |-> IF R = {} THEN base ELSE Linked(g[R \ {Max(R)}], s[Max(R)], rd, dts)]
  <2>1. \A R \in SUBSET (1 .. n) : R # {} => g[R] = Linked(g[R \ {Max(R)}], s[Max(R)], rd, dts)
    BY <1>6 DEF IsFold
  <2> QED BY <1>6, <2>1 DEF IsFold
<1>8. PICK h :
         /\ h = [R \in SUBSET (1 .. n) |->
                   IF R = {} THEN base ELSE Linked(h[R \ {Max(R)}], s[Max(R)], rd, dts)]
         /\ Chained(rd, dts) = h[1 .. n]
  BY <1>1, <1>4, <1>7 DEF FoldLeft, MapThenFoldSet, n
<1>9. Unfolds(h, n, T, base, step)
  BY <1>6, <1>8 DEF IsFold, Unfolds
<1>10. PICK run : IsRun(run, n, T, base, step) /\ run[n] = h[1 .. n]
  <2> HIDE DEF step
  <2>1. n \in Nat
    BY <1>1
  <2> QED BY <2>1, <1>2, <1>5, <1>9, FoldSteps, SMTT(30)
<1>11. ASSUME NEW i \in 1 .. n PROVE run[i] = Linked(run[i - 1], s[i], rd, dts)
  <2>1. run[i - 1] \in T /\ run[i] = step[i][run[i - 1]]
    <3> HIDE DEF step
    <3> QED BY <1>1, <1>10 DEF IsRun
  <2> QED BY <2>1
<1> QED BY <1>8, <1>10, <1>11 DEF IsRun, IsLinkRun, T, base, n, s

\* Where the chain goes on: at the pose it had reached, or a newer one.
LEMMA StartFacts ==
    ASSUME Poses \in SUBSET Int, IsFiniteSet(Poses), lastUp \in Int, \E c \in Poses : lastUp <= c
    PROVE  /\ Start = {Max(Start)} /\ Max(Start) \in Poses /\ lastUp <= Max(Start)
<1>1. CASE lastUp \in Poses
  <2>1. Start = {lastUp} /\ Max({lastUp}) = lastUp
    BY <1>1, MaxOfOne DEF Start
  <2> QED BY <1>1, <2>1
<1>2. CASE lastUp \notin Poses
  <2> DEFINE newer == {c \in Poses : c > lastUp}
  <2>1. PICK c \in Poses : lastUp <= c
    OBVIOUS
  <2>2. c \in newer
    BY <1>2, <2>1
  <2>3. IsFiniteSet(newer) /\ newer \in SUBSET Int /\ newer # {}
    BY <2>2, FS_Subset
  <2>4. Min(newer) \in newer
    BY <2>3, MinOfFinite
  <2>5. Start = {Min(newer)}
    BY <1>2, <2>3 DEF Start, ClosestNewer
  <2>6. Min(newer) \in Int /\ Max({Min(newer)}) = Min(newer)
    <3>1. Min(newer) \in Int
      BY <2>4
    <3> QED BY <3>1, MaxOfOne
  <2>7. \A x \in newer : x \in Poses /\ lastUp <= x
    OBVIOUS
  <2> HIDE DEF newer
  <2> QED BY <2>4, <2>5, <2>6, <2>7
<1> QED BY <1>1, <1>2

\* The list of the poses.
LEMMA PoseList ==
    ASSUME Poses \in SUBSET Int, IsFiniteSet(Poses)
    PROVE  LET s == Ascending(Poses)
           IN  /\ Len(s) \in Nat /\ \A i \in 1 .. Len(s) : s[i] \in Poses /\ s[i] \in Int
               /\ \A c \in Poses : \E i \in 1 .. Len(s) : s[i] = c
               /\ \A i, j \in 1 .. Len(s) : i < j <=> s[i] < s[j]
<1> DEFINE n == Cardinality(Poses)
           s == Ascending(Poses)
<1>1. /\ n \in Nat /\ s \in [1 .. n -> Poses] /\ Len(s) = n
      /\ \A c \in Poses : s[Rank(Poses, c) + 1] = c
      /\ \A i, j \in 1 .. n : i < j <=> s[i] < s[j]
  BY AscendingLists
<1>2. \A c \in Poses : Rank(Poses, c) \in 0 .. n - 1
  BY RankOrders
<1> HIDE DEF n, s
<1>3. \A c \in Poses : Rank(Poses, c) + 1 \in 1 .. n
  BY <1>1, <1>2
<1>4. \A i \in 1 .. n : s[i] \in Poses /\ s[i] \in Int
  BY <1>1
<1> QED BY <1>1, <1>3, <1>4 DEF s

\* What the walk over the poses links: motions that follow each other from where the
\* chain goes on.
LEMMA ChainedFacts ==
    ASSUME NEW rd, IsStack(rd), NEW dts, ArePair(dts),
           Poses \in SUBSET Int, IsFiniteSet(Poses), lastUp \in Int, \E c \in Poses : lastUp <= c,
           NEW run, IsLinkRun(run, rd, dts)
    PROVE  \A i \in 0 .. Len(Ascending(Poses)) :
              /\ IsChain(run[i].used, rd, dts, Max(Start), run[i].last)
              /\ run[i].last \in Poses /\ Max(Start) <= run[i].last
<1> DEFINE s == Ascending(Poses)
           n == Len(s)
           start == Max(Start)
           Q == {i \in 0 .. n : /\ IsChain(run[i].used, rd, dts, start, run[i].last)
                                /\ run[i].last \in Poses /\ start <= run[i].last}
<1>1. n \in Nat /\ \A i \in 1 .. n : s[i] \in Poses /\ s[i] \in Int
  BY PoseList
<1>2. start \in Poses /\ start \in Int
  BY StartFacts
<1>3. /\ \A i \in 0 .. n : run[i] \in LinkStates
      /\ run[0] = [last |-> start, broken |-> FALSE, used |-> <<>>]
      /\ \A i \in 1 .. n : run[i] = Linked(run[i - 1], s[i], rd, dts)
  BY DEF IsLinkRun
<1> HIDE DEF start, s, n
<1>4. 0 \in Q
  <2>1. run[0].used = <<>> /\ run[0].last = start
    BY <1>3
  <2>2. IsChain(<<>>, rd, dts, start, start)
    <3>1. <<>> \in Seq(Motions) /\ Len(<<>>) = 0 /\ 1 .. 0 = {}
      OBVIOUS
    <3> QED BY <3>1 DEF IsChain
  <2>3. 0 \in 0 .. n /\ start <= start
    BY <1>1, <1>2
  <2> QED BY <1>2, <2>1, <2>2, <2>3
<1>5. ASSUME NEW i \in 1 .. n, i - 1 \in Q PROVE i \in Q
  <2> DEFINE old == run[i - 1]
             new == run[i]
             c == s[i]
             m == NextMotion(old, c, rd, dts)
  <2>1. i - 1 \in 0 .. n /\ i \in 0 .. n /\ c \in Poses /\ c \in Int
    BY <1>1
  <2>2. /\ old \in LinkStates /\ new = Linked(old, c, rd, dts)
        /\ IsChain(old.used, rd, dts, start, old.last) /\ old.last \in Poses /\ start <= old.last
    BY <1>3, <1>5, <2>1
  <2> HIDE DEF old, new, c
  <2>0. IsTurn(old, c, new, m, dts)
    BY <2>1, <2>2, LinkedTurn
  <2>3. /\ ~old.broken /\ old.last < c => m \in Motions /\ (m.dt = dts[1] \/ m.dt = dts[2])
        /\ \/ (old.broken \/ c <= old.last) /\ new = old
           \/ /\ ~old.broken /\ old.last < c /\ m.times = <<>>
              /\ new.last = old.last /\ new.broken /\ new.used = old.used
           \/ /\ ~old.broken /\ old.last < c /\ m.times # <<>>
              /\ new.last = c /\ ~new.broken /\ new.used = Append(old.used, m)
    BY <2>0 DEF IsTurn
  <2>4. CASE new.used = old.used /\ new.last = old.last
    BY <2>1, <2>2, <2>4 DEF new
  <2>5. CASE /\ ~old.broken /\ old.last < c /\ m.times # <<>>
             /\ new.last = c /\ ~new.broken /\ new.used = Append(old.used, m)
    <3>1. m \in Motions /\ (m.dt = dts[1] \/ m.dt = dts[2])
      BY <2>3, <2>5
    <3>2. m.from = old.last /\ m.to = c /\ m.times = Selected(rd, m.from - m.dt, m.to - m.dt)
      BY DEF Motion, NextMotion
    <3> HIDE DEF m
    <3>3. IsMotion(m, rd, dts)
      BY <2>1, <2>2, <2>5, <3>1, <3>2 DEF IsMotion
    <3>4. IsChain(Append(old.used, m), rd, dts, start, c)
      BY <2>2, <3>1, <3>2, <3>3, ChainAppend
    <3>5. start <= c
      <4>1. old.last \in Int
        BY <2>2 DEF LinkStates
      <4> QED BY <1>2, <2>1, <2>2, <2>5, <4>1
    <3> QED BY <2>1, <2>5, <3>4, <3>5 DEF new
  <2> QED BY <2>3, <2>4, <2>5
<1>6. \A i \in 0 .. n : i \in Q
  <2> HIDE DEF Q
  <2> QED BY <1>1, <1>4, <1>5, CountUp
<1> QED BY <1>6 DEF n, s, start

\* What the readings reach: they begin before the chain does and their last two have
\* passed c, by either offset.
ReachesPose(rd, dts, c) ==
    /\ Len(rd) >= 2
    /\ \A dt \in {dts[1], dts[2]} :
          rd[1] <= Max(Start) - dt /\ c - dt <= rd[Len(rd) - 1] /\ c - dt < rd[Len(rd)]

\* The walk links every pose the readings reach.
LEMMA ChainedReaches ==
    ASSUME NEW rd, IsStack(rd), NEW dts, ArePair(dts),
           Poses \in SUBSET Int, IsFiniteSet(Poses), lastUp \in Int, \E c \in Poses : lastUp <= c,
           NEW run, IsLinkRun(run, rd, dts),
           NEW c \in Poses, Max(Start) < c, ReachesPose(rd, dts, c)
    PROVE  LET us == run[Len(Ascending(Poses))].used
           IN  us \in Seq(Motions) /\ \E i \in 1 .. Len(us) : us[i].to = c
<1> DEFINE s == Ascending(Poses)
           n == Len(s)
           start == Max(Start)
           ahead(i) == IF i >= 1 /\ s[i] > start THEN s[i] ELSE start
           got(i) == \E j \in 1 .. Len(run[i].used) : run[i].used[j].to = c
<1>1. /\ n \in Nat /\ \A i \in 1 .. n : s[i] \in Poses /\ s[i] \in Int
      /\ \A i, j \in 1 .. n : i < j <=> s[i] < s[j]
  BY PoseList
<1>2. start \in Poses /\ start \in Int /\ c \in Int
  BY StartFacts
<1>3. /\ \A i \in 0 .. n : run[i] \in LinkStates
      /\ run[0] = [last |-> start, broken |-> FALSE, used |-> <<>>]
      /\ \A i \in 1 .. n : run[i] = Linked(run[i - 1], s[i], rd, dts)
  BY DEF IsLinkRun
<1>4. PICK k \in 1 .. n : s[k] = c
  BY PoseList
<1> DEFINE Q == {i \in 0 .. n : /\ i <= k => ~run[i].broken /\ run[i].last = ahead(i)
                                /\ i >= k => got(i)}
<1> HIDE DEF start, s, n, ahead, got
<1>5. 0 \in Q
  <2>1. run[0].broken = FALSE /\ run[0].last = start
    BY <1>3
  <2>2. ahead(0) = start /\ 0 \in 0 .. n /\ ~(0 >= k)
    BY <1>1 DEF ahead
  <2> QED BY <2>1, <2>2
<1>6. ASSUME NEW i \in 1 .. n, i - 1 \in Q PROVE i \in Q
  <2> DEFINE old == run[i - 1]
             new == run[i]
             d == s[i]
             dt == dts[IF old.used = <<>> THEN 1 ELSE 2]
             m == NextMotion(old, d, rd, dts)
  <2>1. i - 1 \in 0 .. n /\ i \in 0 .. n /\ d \in Poses /\ d \in Int
    BY <1>1
  <2>2. /\ old \in LinkStates /\ new = Linked(old, d, rd, dts)
        /\ i - 1 <= k => ~old.broken /\ old.last = ahead(i - 1)
        /\ i - 1 >= k => got(i - 1)
    BY <1>3, <1>6, <2>1
  <2>3. dt \in Int /\ (dt = dts[1] \/ dt = dts[2])
    BY DEF ArePair
  <2> HIDE DEF old, new, d, dt, Q
  <2>0. IsTurn(old, d, new, m, dts)
    BY <2>1, <2>2, LinkedTurn
  <2>4. /\ ~old.broken /\ old.last < d => m \in Motions /\ (m.dt = dts[1] \/ m.dt = dts[2])
        /\ \/ (old.broken \/ d <= old.last) /\ new = old
           \/ /\ ~old.broken /\ old.last < d /\ m.times = <<>>
              /\ new.last = old.last /\ new.broken /\ new.used = old.used
           \/ /\ ~old.broken /\ old.last < d /\ m.times # <<>>
              /\ new.last = d /\ ~new.broken /\ new.used = Append(old.used, m)
    BY <2>0 DEF IsTurn
  <2>5. m.from = old.last /\ m.to = d /\ m.times = Selected(rd, old.last - dt, d - dt)
    BY DEF Motion, NextMotion, dt
  <2>6. old.last \in Int /\ old.used \in Seq(Motions)
    BY <2>2 DEF LinkStates
  <2> HIDE DEF m
  <2>7. CASE i <= k
    <3>1. ~old.broken /\ old.last = ahead(i - 1)
      BY <2>1, <2>2, <2>7
    <3>2. ahead(i - 1) = start \/ (i - 1 \in 1 .. n /\ ahead(i - 1) = s[i - 1] /\ start < s[i - 1])
      BY <1>1, <1>2, <2>1 DEF ahead
    <3>3. start <= old.last /\ d <= c
      <4>1. start <= old.last
        BY <1>1, <1>2, <3>1, <3>2
      <4>2. d <= c
        <5>1. i = k \/ i < k
          BY <2>7
        <5>2. i < k => s[i] < s[k]
          BY <1>1
        <5> QED BY <1>2, <1>4, <2>1, <5>1, <5>2 DEF d
      <4> QED BY <4>1, <4>2
    <3>4. CASE d <= old.last
      <4>1. old.last = start
        <5>1. CASE i - 1 \in 1 .. n /\ ahead(i - 1) = s[i - 1] /\ start < s[i - 1]
          <6>1. s[i - 1] < s[i]
            <7>1. i - 1 < i
              OBVIOUS
            <7> QED BY <1>1, <5>1, <7>1
          <6>2. s[i - 1] \in Int /\ s[i] \in Int /\ old.last = s[i - 1] /\ s[i] <= old.last
            BY <1>1, <3>1, <3>4, <5>1 DEF d
          <6> QED BY <6>1, <6>2
        <5> QED BY <3>1, <3>2, <5>1
      <4>2. new = old /\ ahead(i) = start
        <5>1. new = old
          BY <2>1, <2>4, <2>6, <3>4
        <5>2. ~(s[i] > start)
          BY <1>2, <2>1, <3>4, <4>1 DEF d
        <5> QED BY <5>1, <5>2 DEF ahead
      <4>3. i # k
        BY <1>2, <1>4, <2>1, <3>4, <4>1 DEF d, start
      <4>4. ~(i >= k)
        BY <2>7, <4>3
      <4> QED BY <2>1, <3>1, <4>1, <4>2, <4>4 DEF new, Q
    <3>5. CASE old.last < d
      <4>1. m.times # <<>>
        <5>1. /\ Len(rd) >= 2 /\ rd[1] <= start - dt
              /\ c - dt <= rd[Len(rd) - 1] /\ c - dt < rd[Len(rd)]
          BY <2>3 DEF ReachesPose, start
        <5>2. rd[1] \in Int /\ rd[Len(rd)] \in Int /\ rd[Len(rd) - 1] \in Int
          <6>1. rd \in Seq(Int) /\ Len(rd) \in Nat /\ Len(rd) >= 2
            BY <5>1 DEF IsStack
          <6>2. 1 \in 1 .. Len(rd) /\ Len(rd) \in 1 .. Len(rd) /\ Len(rd) - 1 \in 1 .. Len(rd)
            BY <6>1
          <6> QED BY <6>1, <6>2
        <5>3. /\ old.last - dt \in Int /\ d - dt \in Int /\ old.last - dt < d - dt
              /\ rd[1] <= old.last - dt /\ old.last - dt <= rd[Len(rd) - 1] /\ d - dt < rd[Len(rd)]
          <6> DEFINE a == rd[1]
                     b == rd[Len(rd) - 1]
                     z == rd[Len(rd)]
                     l == old.last
          <6>1. /\ a \in Int /\ b \in Int /\ z \in Int /\ l \in Int /\ d \in Int /\ dt \in Int /\ c \in Int
                /\ start \in Int /\ start <= l /\ d <= c /\ l < d /\ a <= start - dt /\ c - dt <= b /\ c - dt < z
            BY <1>2, <2>1, <2>3, <2>6, <3>3, <3>5, <5>1, <5>2
          <6> HIDE DEF a, b, z, l
          <6>2. /\ l - dt \in Int /\ d - dt \in Int /\ l - dt < d - dt
                /\ a <= l - dt /\ l - dt <= b /\ d - dt < z
            BY <6>1
          <6> QED BY <6>2 DEF a, b, z, l
        <5>4. rd \in Seq(Int) /\ rd # <<>> /\ Rising(rd)
          BY DEF IsStack
        <5>5. Selected(rd, old.last - dt, d - dt) # <<>>
          BY <5>1, <5>3, <5>4, SelectedFacts
        <5> QED BY <2>5, <5>5
      <4>2. new.last = d /\ ~new.broken /\ new.used = Append(old.used, m) /\ m \in Motions
        BY <2>1, <2>4, <2>6, <3>1, <3>5, <4>1
      <4>3. ahead(i) = d
        <5>1. s[i] > start /\ i >= 1
          BY <1>2, <2>1, <2>6, <3>3, <3>5 DEF d
        <5> QED BY <5>1 DEF ahead, d
      <4>4. i >= k => got(i)
        <5> HAVE i >= k
        <5>1. d = c
          BY <1>4, <2>7 DEF d
        <5>2. /\ Len(new.used) = Len(old.used) + 1 /\ Len(old.used) \in Nat
              /\ new.used[Len(old.used) + 1] = m
          BY <2>6, <4>2, AppendFacts
        <5>3. Len(new.used) \in 1 .. Len(new.used) /\ new.used[Len(new.used)].to = c
          BY <2>5, <5>1, <5>2
        <5> QED BY <5>3 DEF got, new
      <4> QED BY <2>1, <4>2, <4>3, <4>4 DEF new, Q
    <3> QED BY <2>1, <2>6, <3>4, <3>5
  <2>8. CASE i > k
    <3>1. got(i - 1) /\ ~(i <= k)
      BY <2>1, <2>2, <2>8
    <3>2. PICK j \in 1 .. Len(old.used) : old.used[j].to = c
      BY <3>1 DEF got, old
    <3>3. j \in 1 .. Len(new.used) /\ new.used[j] = old.used[j]
      <4>1. CASE new.used = old.used
        BY <3>2, <4>1
      <4>2. CASE new.used = Append(old.used, m) /\ m \in Motions
        BY <2>6, <3>2, <4>2, AppendFacts
      <4> QED BY <2>4, <4>1, <4>2
    <3>4. got(i)
      BY <3>2, <3>3 DEF got, new
    <3> QED BY <2>1, <3>1, <3>4 DEF Q
  <2> QED BY <2>7, <2>8
<1>7. n \in Q
  <2> HIDE DEF Q
  <2>1. \A i \in 0 .. n : i \in Q
    BY <1>1, <1>5, <1>6, CountUp
  <2> QED BY <1>1, <2>1
<1>8. got(n)
  BY <1>1, <1>7
<1>9. run[n].used \in Seq(Motions)
  BY <1>1, <1>3 DEF LinkStates
<1> QED BY <1>8, <1>9 DEF got, n, s

-----------------------------------------------------------------------------
(* What a wheel message does *)

\* A step of the composed system is a step of its window.
LEMMA WheelStepsOfWindow ==
    /\ Other => ImuStep \/ OtherStep
    /\ \A w \in WheelStamps : FeedReading(w) => OtherStep \/ UNCHANGED vars
    /\ [WheelNext]_wheelVars => [Next]_vars
<1>1. Other => ImuStep \/ OtherStep
  BY DEF Other, OtherStep
<1>2. \A w \in WheelStamps : FeedReading(w) => OtherStep \/ UNCHANGED vars
  <2> SUFFICES ASSUME NEW w \in WheelStamps, FeedReading(w) PROVE FeedWheel \/ UNCHANGED vars
    BY DEF OtherStep
  <2>1. PICK dt \in Offsets :
           LET up == IF ~initialized THEN [last |-> lastUp, used |-> <<>>]
                     ELSE IF reuse THEN Spanned(readings', wheelDt)
                     ELSE Chained(readings', <<wheelDt, dt>>)
           IN  IF up.used = <<>> THEN dt = wheelDt /\ UNCHANGED vars ELSE FeedWheel
    BY DEF FeedReading
  <2> QED BY <2>1
<1>3. [WheelNext]_wheelVars => [Next]_vars
  BY <1>1, <1>2, StepsAreNext DEF WheelNext, wheelVars
<1> QED BY <1>1, <1>2, <1>3

\* The wheel updater implements the sliding window: everything proved of SlidingWindow
\* holds in it.
THEOREM WheelImplementsWindow == WheelSpec => Spec
<1>1. WheelInit => Init
  BY DEF WheelInit
<1> QED BY <1>1, WheelStepsOfWindow, PTL DEF WheelSpec, Spec

\* Time stamps are counted from an epoch: -1, where last_updated_clone_time begins, is
\* before all of them.
StampsAreNatural == ImuStamps \subseteq Nat

\* The inductive invariant: the stack is in order, the chain has never run ahead of the
\* state, and what was integrated last spans what it should.
WheelInv ==
    /\ readings \in Seq(WheelStamps) /\ Rising(readings)
    /\ lastUp \in Int /\ wheelDt \in Offsets /\ reuse \in BOOLEAN
    /\ IsFiniteSet(clones)
    /\ IF initialized THEN lastUp <= stateTime ELSE lastUp = -1
    /\ SelectionSpans
    /\ TurnsBackAtKeyframes
    /\ threw \in BOOLEAN

\* The newer of two times.
LEMMA MaxOfPair == ASSUME NEW a \in Int, NEW b \in Int, a < b PROVE Max({a, b}) = b
<1>1. b \in {a, b} /\ \A x \in {a, b} : b >= x
  OBVIOUS
<1>2. \A y \in {a, b} : (\A x \in {a, b} : y >= x) => y = b
  OBVIOUS
<1> QED BY <1>1, <1>2 DEF Max

\* What SelectionSpans asks of one motion.
Spans(m, rd) ==
    LET ends == {m.from - m.dt, m.to - m.dt}
    IN  /\ \A j \in 2 .. Len(m.times) : m.times[j - 1] < m.times[j]
        /\ {m.times[j] : j \in DOMAIN m.times} =
             ends \cup {r \in {rd[j] : j \in DOMAIN rd} : Min(ends) <= r /\ r <= Max(ends)}

\* Every motion of a chain meets it.
LEMMA MotionSpans ==
    ASSUME NEW rd, IsStack(rd), NEW dts, NEW m \in Motions, IsMotion(m, rd, dts)
    PROVE  Spans(m, rd)
<1> DEFINE t0 == m.from - m.dt
           t1 == m.to - m.dt
           s == m.times
<1>1. /\ m.from \in Int /\ m.to \in Int /\ m.dt \in Int /\ m.from < m.to
      /\ s = Selected(rd, t0, t1) /\ s # <<>> /\ s \in Seq(Int)
  BY DEF Motions, IsMotion
<1>2. t0 \in Int /\ t1 \in Int /\ t0 < t1
  BY <1>1
<1> HIDE DEF t0, t1, s
<1>3. rd \in Seq(Int) /\ rd # <<>> /\ Rising(rd)
  BY DEF IsStack
<1>4. Ascends(s) /\ Members(s) = Between(rd, t0, t1)
  BY <1>1, <1>2, <1>3, SelectedFacts
<1>5. Max({t0, t1}) = t1
  BY <1>2, MaxOfPair
<1>6. Min({t0, t1}) = t0
  <2>1. t0 \in {t0, t1} /\ {t0, t1} \in SUBSET Int /\ \A y \in {t0, t1} : t0 <= y
    BY <1>2
  <2> QED BY <2>1, LeastIsMin
<1>7. \A j \in 2 .. Len(s) : s[j - 1] < s[j]
  <2> SUFFICES ASSUME NEW j \in 2 .. Len(s) PROVE s[j - 1] < s[j]
    OBVIOUS
  <2>1. DOMAIN s = 1 .. Len(s) /\ Len(s) \in Nat
    BY <1>1
  <2>2. j - 1 \in 1 .. Len(s) /\ j \in 1 .. Len(s) /\ j - 1 < j
    BY <2>1
  <2> QED BY <1>4, <2>1, <2>2 DEF Ascends
<1>8. {s[j] : j \in DOMAIN s} =
        {t0, t1} \cup {r \in {rd[j] : j \in DOMAIN rd} : Min({t0, t1}) <= r /\ r <= Max({t0, t1})}
  BY <1>4, <1>5, <1>6 DEF Members, Between
<1> QED BY <1>7, <1>8 DEF Spans, s, t0, t1

\* With reuse_of_information the chain ends at a pose as well, or where it was.
LEMMA SpannedLast ==
    ASSUME Poses \in SUBSET Int, IsFiniteSet(Poses), NEW rd, IsStack(rd), NEW dt \in Int
    PROVE  Spanned(rd, dt).last = lastUp \/ Spanned(rd, dt).last \in Poses
<1> DEFINE oldest == OldestPose
           t == rd[Len(rd)] + dt
           older == {c \in Poses : c < t}
           ends == ClosestOlder(Poses, t)
           m == Motion(Max(oldest), Max(ends), dt, rd)
           up == Spanned(rd, dt)
<1>1. up = IF oldest = {} \/ ends = {} THEN [last |-> lastUp, used |-> <<>>]
           ELSE IF Max(Poses) - Max(oldest) > Window \/ m.times = <<>> THEN [last |-> lastUp, used |-> <<>>]
           ELSE [last |-> m.to, used |-> <<m>>]
  BY DEF Spanned
<1>2. m.to = Max(ends)
  BY DEF Motion
<1>3. ends = IF older = {} THEN {} ELSE {Max(older)}
  BY DEF ClosestOlder
<1> HIDE DEF up, m, oldest, t, ends
<1>4. ASSUME ends # {} PROVE Max(ends) \in Poses
  <2>1. IsFiniteSet(older) /\ older \in SUBSET Int /\ older # {}
    BY <1>3, <1>4, FS_Subset
  <2>2. Max(older) \in older
    BY <2>1, MaxOfFinite
  <2>3. Max(older) \in Int /\ Max(older) \in Poses
    BY <2>2
  <2> HIDE DEF older
  <2>4. Max({Max(older)}) = Max(older)
    BY <2>3, MaxOfOne
  <2> QED BY <1>3, <1>4, <2>3, <2>4
<1>5. up.last = lastUp \/ (ends # {} /\ up.last = m.to)
  BY <1>1
<1> QED BY <1>2, <1>4, <1>5 DEF up

\* The pose k is older than the time t, which the window has overtaken.
Overtaken(k, t) == k < t /\ \A c \in Poses \ keyframes : t <= c

\* A last pose before t that is older than the oldest clone is a keyframe.
LEMMA BehindIsKeyframe ==
    ASSUME Poses \in SUBSET Int, IsFiniteSet(Poses), NEW t \in Int,
           NEW o \in OldestPose, NEW e \in ClosestOlder(Poses, t), e < o
    PROVE  e \in keyframes \cap Poses /\ Overtaken(e, t)
<1> DEFINE N == Poses \ keyframes
           older == {c \in Poses : c < t}
<1>1. N # {} /\ o = Min(N)
  BY DEF OldestPose
<1>2. older # {} /\ e = Max(older)
  BY DEF ClosestOlder
<1>3. N \in SUBSET Poses /\ older \in SUBSET Poses
  OBVIOUS
<1>4. \A c \in Poses : c \in older <=> c < t
  OBVIOUS
<1>5. \A c \in Poses : c \in N <=> c \notin keyframes
  OBVIOUS
<1> HIDE DEF N, older
<1>6. N \in SUBSET Int /\ IsFiniteSet(N) /\ older \in SUBSET Int /\ IsFiniteSet(older)
  BY <1>3, FS_Subset
<1>7. Min(N) \in N /\ \A c \in N : Min(N) <= c
  BY <1>1, <1>6, MinOfFinite
<1>8. Max(older) \in older /\ \A c \in older : c <= Max(older)
  BY <1>2, <1>6, MaxOfFinite
<1>9. e \in Poses /\ e \in Int /\ o \in Int /\ e < t
  BY <1>1, <1>2, <1>3, <1>4, <1>6, <1>7, <1>8
<1>10. ASSUME NEW c \in N PROVE c \in Poses /\ c \in Int /\ e < c
  <2>1. c \in Poses /\ c \in Int /\ o <= c
    BY <1>1, <1>3, <1>6, <1>7
  <2> QED BY <1>9, <2>1
<1>11. e \in keyframes
  <2>1. e \notin N
    <3>1. ~(e < e)
      BY <1>9
    <3> QED BY <1>10, <3>1
  <2> QED BY <1>5, <1>9, <2>1
<1>12. ASSUME NEW c \in N PROVE t <= c
  <2>1. ~(c < t)
    <3> SUFFICES ASSUME c < t PROVE FALSE
      OBVIOUS
    <3>1. c <= e
      BY <1>2, <1>4, <1>8, <1>10
    <3> QED BY <1>9, <1>10, <3>1
  <2> QED BY <1>10, <2>1
<1> QED BY <1>9, <1>11, <1>12 DEF Overtaken, N

\* A motion over the window that turns back ends at such a keyframe.
LEMMA SpannedTurnsBack ==
    ASSUME Poses \in SUBSET Int, IsFiniteSet(Poses), NEW rd, IsStack(rd), NEW dt \in Int
    PROVE  \/ Spanned(rd, dt).used = <<>>
           \/ \E m : /\ Spanned(rd, dt).used = <<m>> /\ m.dt = dt
                     /\ m.to < m.from => m.to \in keyframes /\ Overtaken(m.to, rd[Len(rd)] + dt)
<1> DEFINE oldest == OldestPose
           t == rd[Len(rd)] + dt
           ends == ClosestOlder(Poses, t)
           m == Motion(Max(oldest), Max(ends), dt, rd)
           up == Spanned(rd, dt)
<1>1. up = IF oldest = {} \/ ends = {} THEN [last |-> lastUp, used |-> <<>>]
           ELSE IF Max(Poses) - Max(oldest) > Window \/ m.times = <<>> THEN [last |-> lastUp, used |-> <<>>]
           ELSE [last |-> m.to, used |-> <<m>>]
  BY DEF Spanned
<1>2. m.from = Max(oldest) /\ m.to = Max(ends) /\ m.dt = dt
  BY DEF Motion
<1>3. t \in Int
  <2>1. Len(rd) \in 1 .. Len(rd) /\ rd \in Seq(Int)
    BY DEF IsStack
  <2> QED BY <2>1
<1>4. ASSUME oldest # {} PROVE Max(oldest) \in oldest
  <2>1. PICK o \in Int : oldest = {o}
    <3>1. Poses \ keyframes # {} /\ oldest = {Min(Poses \ keyframes)}
      BY <1>4 DEF OldestPose
    <3>2. Poses \ keyframes \in SUBSET Int /\ IsFiniteSet(Poses \ keyframes)
      BY FS_Subset
    <3> QED BY <3>1, <3>2, MinOfFinite
  <2>2. Max({o}) = o
    BY MaxOfOne
  <2> HIDE DEF oldest
  <2> QED BY <2>1, <2>2
<1>5. ASSUME ends # {} PROVE Max(ends) \in ends
  <2> DEFINE older == {c \in Poses : c < t}
  <2>1. older # {} /\ ends = {Max(older)}
    BY <1>5 DEF ClosestOlder
  <2>2. older \in SUBSET Int /\ IsFiniteSet(older)
    BY FS_Subset
  <2> HIDE DEF older
  <2>3. Max(older) \in Int
    BY <2>1, <2>2, MaxOfFinite
  <2>4. Max({Max(older)}) = Max(older)
    BY <2>3, MaxOfOne
  <2> HIDE DEF ends
  <2> QED BY <2>1, <2>4
<1> HIDE DEF m, up
<1>6. ASSUME oldest # {}, ends # {}, m.to < m.from PROVE m.to \in keyframes /\ Overtaken(m.to, t)
  <2>1. Max(oldest) \in OldestPose /\ Max(ends) \in ClosestOlder(Poses, t) /\ Max(ends) < Max(oldest)
    BY <1>2, <1>4, <1>5, <1>6
  <2> HIDE DEF oldest, ends, t
  <2>2. Max(ends) \in keyframes \cap Poses /\ Overtaken(Max(ends), t)
    BY <1>3, <2>1, BehindIsKeyframe
  <2> QED BY <1>2, <2>2
<1> HIDE DEF oldest, ends
<1>7. up.used = <<>> \/ (oldest # {} /\ ends # {} /\ up.used = <<m>>)
  BY <1>1
<1> QED BY <1>2, <1>6, <1>7 DEF up

\* So does one that throws, and its keyframe is older than every reading.
LEMMA ThrowsAtKeyframe ==
    ASSUME Poses \in SUBSET Int, IsFiniteSet(Poses), NEW rd, IsStack(rd), NEW dt \in Int, SpanThrows(rd, dt)
    PROVE  \E k \in keyframes \cap Poses :
              Overtaken(k, rd[Len(rd)] + dt) /\ \A i \in DOMAIN rd : k < rd[i] + dt
<1>1. Len(rd) \in 1 .. Len(rd) /\ 1 \in 1 .. Len(rd) /\ rd \in Seq(Int) /\ DOMAIN rd = 1 .. Len(rd)
  BY DEF IsStack
<1> DEFINE t == rd[Len(rd)] + dt
<1>2. t \in Int
  BY <1>1
<1>3. PICK o \in OldestPose, e \in ClosestOlder(Poses, t) : Throws(rd, o - dt, e - dt)
  BY DEF SpanThrows
<1>4. o \in Int /\ e \in Int
  <2>1. Poses \ keyframes \in SUBSET Int /\ IsFiniteSet(Poses \ keyframes)
    BY FS_Subset
  <2>2. {c \in Poses : c < t} \in SUBSET Int /\ IsFiniteSet({c \in Poses : c < t})
    BY FS_Subset
  <2>3. Poses \ keyframes # {} /\ o = Min(Poses \ keyframes)
    BY DEF OldestPose
  <2>4. {c \in Poses : c < t} # {} /\ e = Max({c \in Poses : c < t})
    BY DEF ClosestOlder
  <2> QED BY <2>1, <2>2, <2>3, <2>4, MinOfFinite, MaxOfFinite
<1> HIDE DEF t
<1>5. e - dt < rd[1] /\ rd[1] <= o - dt
  BY <1>3 DEF Throws
<1>6. rd[1] \in Int
  BY <1>1
<1>7. e < o
  BY <1>4, <1>5, <1>6
<1>8. e \in keyframes \cap Poses /\ Overtaken(e, t)
  BY <1>2, <1>7, BehindIsKeyframe
<1>9. ASSUME NEW i \in DOMAIN rd PROVE e < rd[i] + dt
  <2>1. i \in 1 .. Len(rd) /\ rd[i] \in Int /\ rd[1] <= rd[i]
    <3>1. i \in 1 .. Len(rd) /\ rd[i] \in Int
      BY <1>1
    <3>2. i = 1 \/ 1 < i
      BY <3>1
    <3> QED BY <1>1, <1>6, <3>1, <3>2 DEF IsStack, Rising
  <2> QED BY <1>4, <1>5, <1>6, <2>1
<1> QED BY <1>8, <1>9 DEF t

\* The updates are a chain from where it went on, which has every pose the readings reach.
IsLinked(rd, dts, up) ==
    /\ IsChain(up.used, rd, dts, Max(Start), up.last)
    /\ up.last \in Poses
    /\ \A c \in Poses : Max(Start) < c /\ ReachesPose(rd, dts, c) =>
          \E i \in 1 .. Len(up.used) : up.used[i].to = c

\* That is so after a wheel message without reuse_of_information.
LEMMA ChainAfterReading ==
    ASSUME NEW rd, IsStack(rd), NEW dts, ArePair(dts),
           Poses \in SUBSET Int, IsFiniteSet(Poses), lastUp \in Int, \E c \in Poses : lastUp <= c
    PROVE  IsLinked(rd, dts, Chained(rd, dts))
<1>1. Start # {} /\ Max(Start) \in Int
  BY StartFacts
<1>2. PICK run : IsLinkRun(run, rd, dts)
  BY <1>1, LinkRuns
<1>3. Chained(rd, dts) = run[Len(Ascending(Poses))]
  BY <1>2 DEF IsLinkRun
<1>4. Len(Ascending(Poses)) \in 0 .. Len(Ascending(Poses))
  <2>1. Len(Ascending(Poses)) \in Nat
    BY PoseList
  <2> QED BY <2>1
<1>5. /\ IsChain(Chained(rd, dts).used, rd, dts, Max(Start), Chained(rd, dts).last)
      /\ Chained(rd, dts).last \in Poses
  BY <1>2, <1>3, <1>4, ChainedFacts
<1>6. ASSUME NEW c \in Poses, Max(Start) < c, ReachesPose(rd, dts, c)
      PROVE  \E i \in 1 .. Len(Chained(rd, dts).used) : Chained(rd, dts).used[i].to = c
  BY <1>2, <1>3, <1>6, ChainedReaches
<1> QED BY <1>5, <1>6 DEF IsLinked

\* Both together: what a wheel message leaves.
IsFed ==
    /\ readings' \in Seq(WheelStamps) /\ IsStack(readings')
    /\ lastUp' \in Int /\ wheelDt' \in Offsets /\ reuse' = reuse
    /\ threw' \in BOOLEAN /\ (threw' => initialized /\ reuse)
    /\ initialized /\ reuse => TurnsBackAtKeyframes'
    /\ UNCHANGED <<initialized, stateTime, clones>>
    /\ ~initialized => lastUp' = lastUp /\ used' = <<>>
    /\ initialized => lastUp' = lastUp \/ lastUp' \in Poses
    /\ initialized /\ ~reuse =>
          /\ IsChain(used', readings', <<wheelDt, wheelDt'>>, Max(Start), lastUp')
          /\ \A c \in Poses : Max(Start) < c /\ ReachesPose(readings', <<wheelDt, wheelDt'>>, c) =>
                \E i \in 1 .. Len(used') : used'[i].to = c

\* That is so.
LEMMA ReadingFacts ==
    ASSUME IInv, WheelInv, NEW w \in WheelStamps, FeedReading(w)
    PROVE  IsFed
<1> DEFINE up(dt) == IF ~initialized THEN [last |-> lastUp, used |-> <<>>]
                     ELSE IF reuse THEN Spanned(readings', wheelDt)
                     ELSE Chained(readings', <<wheelDt, dt>>)
<1>1. /\ \A i \in DOMAIN readings : readings[i] <= w
      /\ readings' = Stacked(w) /\ reuse' = reuse
      /\ threw' = (initialized /\ reuse /\ SpanThrows(readings', wheelDt))
      /\ threw' \in BOOLEAN /\ (threw' => initialized /\ reuse)
  BY DEF FeedReading
<1>2. PICK dt \in Offsets :
         /\ IF up(dt).used = <<>> THEN dt = wheelDt /\ UNCHANGED vars ELSE FeedWheel
         /\ wheelDt' = dt /\ lastUp' = up(dt).last /\ used' = up(dt).used
  BY DEF FeedReading
<1>3. readings' \in Seq(WheelStamps) /\ IsStack(readings')
  <2>1. readings' \in Seq(WheelStamps) /\ Rising(readings') /\ readings' # <<>>
    BY <1>1, StackedFacts DEF WheelInv
  <2>2. WheelStamps \in SUBSET Int
    BY WheelAssumption
  <2>3. readings' \in Seq(Int)
    BY <2>1, <2>2, SeqOfLarger
  <2> QED BY <2>1, <2>3 DEF IsStack
<1>4. UNCHANGED <<initialized, stateTime, clones>>
  BY <1>2 DEF vars, FeedWheel
<1>5. wheelDt \in Int /\ dt \in Int /\ lastUp \in Int
  BY StampsAreTimes DEF WheelInv
<1> DEFINE dts == <<wheelDt, wheelDt'>>
<1>6. ArePair(dts) /\ dts = <<wheelDt, dt>>
  BY <1>2, <1>5 DEF ArePair
<1>7. Poses \in SUBSET Int /\ IsFiniteSet(Poses)
  BY PosesAreFinite DEF WheelInv
<1>8. initialized => \E c \in Poses : lastUp <= c
  BY DEF IInv, CaughtUp, WheelInv
<1>9. CASE ~initialized
  <2>1. lastUp' = lastUp /\ used' = <<>>
    BY <1>2, <1>9
  <2> QED BY <1>1, <1>2, <1>3, <1>4, <1>5, <1>9, <2>1 DEF IsFed
<1>10. CASE initialized /\ reuse
  <2>1. lastUp' = Spanned(readings', wheelDt).last
    BY <1>2, <1>10
  <2>2. lastUp' = lastUp \/ lastUp' \in Poses
    BY <1>3, <1>5, <1>7, <2>1, SpannedLast
  <2>3. lastUp' \in Int
    BY <1>5, <1>7, <2>2
  <2>4. used' = Spanned(readings', wheelDt).used /\ (used' = <<>> => wheelDt' = wheelDt)
    BY <1>2, <1>10
  <2>5. Poses' = Poses /\ keyframes' = keyframes
    BY <1>2 DEF vars, FeedWheel, Poses
  <2>6. TurnsBackAtKeyframes'
    <3> DEFINE d == IF used' = <<>> THEN wheelDt' ELSE used'[1].dt
               t == readings'[Len(readings')] + wheelDt
    <3>1. \/ used' = <<>>
          \/ \E m : /\ used' = <<m>> /\ m.dt = wheelDt
                    /\ m.to < m.from => m.to \in keyframes /\ Overtaken(m.to, t)
      BY <1>3, <1>5, <1>7, <2>4, SpannedTurnsBack
    <3>2. d = wheelDt
      BY <2>4, <3>1
    <3>3. ASSUME NEW i \in DOMAIN used', used'[i].to < used'[i].from
          PROVE  used'[i].to \in keyframes /\ Overtaken(used'[i].to, t)
      <4>1. PICK m : used' = <<m>> /\ (m.to < m.from => m.to \in keyframes /\ Overtaken(m.to, t))
        BY <3>1, <3>3
      <4>2. used'[i] = m
        BY <4>1
      <4> QED BY <3>3, <4>1, <4>2
    <3>4. ASSUME threw'
          PROVE  \E k \in keyframes \cap Poses :
                    Overtaken(k, t) /\ \A i \in DOMAIN readings' : k < readings'[i] + wheelDt
      BY <1>1, <1>3, <1>5, <1>7, <3>4, ThrowsAtKeyframe
    <3>5. reuse'
      BY <1>1, <1>10
    <3>6. ASSUME NEW k, Overtaken(k, t)
          PROVE  k < readings'[Len(readings')] + d /\ \A c \in Poses' \ keyframes' : readings'[Len(readings')] + d <= c
      BY <2>5, <3>2, <3>6 DEF Overtaken
    <3> HIDE DEF t
    <3>7. \A i \in DOMAIN used' : used'[i].to < used'[i].from =>
            /\ reuse' /\ used'[i].to \in keyframes'
            /\ used'[i].to < readings'[Len(readings')] + d
            /\ \A c \in Poses' \ keyframes' : readings'[Len(readings')] + d <= c
      BY <2>5, <3>3, <3>5, <3>6
    <3>8. threw' => reuse' /\ \E k \in keyframes' \cap Poses' :
            /\ k < readings'[Len(readings')] + d
            /\ \A c \in Poses' \ keyframes' : readings'[Len(readings')] + d <= c
            /\ \A i \in DOMAIN readings' : k < readings'[i] + d
      BY <2>5, <3>2, <3>4, <3>5, <3>6
    <3> QED BY <3>7, <3>8 DEF TurnsBackAtKeyframes
  <2> QED BY <1>1, <1>2, <1>3, <1>4, <1>10, <2>2, <2>3, <2>6 DEF IsFed
<1>11. CASE initialized /\ ~reuse
  <2>1. lastUp' = Chained(readings', dts).last /\ used' = Chained(readings', dts).used
    BY <1>2, <1>6, <1>11
  <2> HIDE DEF dts
  <2>2. \E c \in Poses : lastUp <= c
    BY <1>8, <1>11
  <2>3. IsLinked(readings', dts, Chained(readings', dts))
    BY <1>3, <1>5, <1>6, <1>7, <2>2, ChainAfterReading
  <2>4. /\ IsChain(used', readings', dts, Max(Start), lastUp')
        /\ \A c \in Poses : Max(Start) < c /\ ReachesPose(readings', dts, c) =>
              \E i \in 1 .. Len(used') : used'[i].to = c
    BY <2>1, <2>3 DEF IsLinked
  <2>5. lastUp' \in Poses /\ lastUp' \in Int
    BY <1>7, <2>1, <2>3 DEF IsLinked
  <2> QED BY <1>1, <1>2, <1>3, <1>4, <1>11, <2>4, <2>5 DEF IsFed, dts
<1> QED BY <1>9, <1>10, <1>11 DEF WheelInv

\* Before the first message the stack is empty.
LEMMA WheelInitInv == ASSUME WheelInit PROVE WheelInv
<1>1. IsFiniteSet(clones) /\ initialized = FALSE
  BY FS_EmptySet DEF WheelInit, Init
<1>2. readings = <<>> /\ used = <<>> /\ lastUp = -1 /\ threw = FALSE
  BY DEF WheelInit
<1>3. <<>> \in Seq(WheelStamps) /\ Rising(<<>>) /\ DOMAIN <<>> = {}
  BY DEF Rising
<1>4. TurnsBackAtKeyframes
  BY <1>2, <1>3 DEF TurnsBackAtKeyframes
<1>5. threw \in BOOLEAN
  BY <1>2
<1> QED BY <1>1, <1>2, <1>3, <1>4, <1>5 DEF WheelInv, WheelInit, SelectionSpans

\* A wheel message keeps the invariant.
LEMMA WheelReadingStep ==
    ASSUME IInv, IInv', WheelInv, NEW w \in WheelStamps, FeedReading(w) PROVE WheelInv'
<1>1. IsFed
  BY ReadingFacts
<1>2. lastUp' \in Int /\ wheelDt' \in Offsets /\ reuse' \in BOOLEAN /\ IsFiniteSet(clones')
      /\ readings' \in Seq(WheelStamps) /\ Rising(readings')
  BY <1>1 DEF IsFed, WheelInv, IsStack
<1>3. IF initialized' THEN lastUp' <= stateTime' ELSE lastUp' = -1
  BY <1>1 DEF IsFed, WheelInv, IInv, CaughtUp
<1>4. SelectionSpans'
  <2> SUFFICES ASSUME ~reuse, NEW i \in DOMAIN used' PROVE Spans(used'[i], readings')
    BY <1>1 DEF SelectionSpans, Spans, IsFed
  <2>1. initialized
    BY <1>1 DEF IsFed
  <2>2. IsChain(used', readings', <<wheelDt, wheelDt'>>, Max(Start), lastUp')
    BY <1>1, <2>1 DEF IsFed
  <2>3. used' \in Seq(Motions)
    BY <2>2 DEF IsChain
  <2>4. i \in 1 .. Len(used') /\ used'[i] \in Motions
    BY <2>3
  <2>5. IsMotion(used'[i], readings', <<wheelDt, wheelDt'>>)
    BY <2>2, <2>4 DEF IsChain
  <2>6. IsStack(readings')
    BY <1>1 DEF IsFed
  <2> QED BY <2>4, <2>5, <2>6, MotionSpans
<1>5. threw' \in BOOLEAN /\ TurnsBackAtKeyframes'
  <2>1. CASE initialized /\ reuse
    BY <1>1, <2>1 DEF IsFed
  <2>2. CASE ~(initialized /\ reuse)
    <3>1. threw' = FALSE
      BY <1>1, <2>2 DEF IsFed
    <3>2. ASSUME NEW i \in DOMAIN used' PROVE ~(used'[i].to < used'[i].from)
      <4>1. initialized /\ ~reuse
        BY <1>1, <2>2, <3>2 DEF IsFed
      <4>2. IsChain(used', readings', <<wheelDt, wheelDt'>>, Max(Start), lastUp')
        BY <1>1, <4>1 DEF IsFed
      <4>3. used' \in Seq(Motions)
        BY <4>2 DEF IsChain
      <4>4. i \in 1 .. Len(used') /\ used'[i] \in Motions
        BY <4>3
      <4>5. used'[i].from < used'[i].to /\ used'[i].from \in Int /\ used'[i].to \in Int
        BY <4>2, <4>4 DEF IsChain, IsMotion, Motions
      <4> QED BY <4>5
    <3> QED BY <3>1, <3>2 DEF TurnsBackAtKeyframes
  <2> QED BY <1>1, <2>1, <2>2 DEF IsFed
<1> QED BY <1>2, <1>3, <1>4, <1>5 DEF WheelInv

\* The other handlers keep it: the state only moves on.
LEMMA WheelOtherStep ==
    ASSUME IInv, IInv', NoGt, StampsAreNatural, WheelInv, Other PROVE WheelInv'
<1>1. /\ used' = <<>> /\ UNCHANGED <<readings, lastUp, reuse, threw>> /\ threw' = FALSE
      /\ wheelDt' \in Offsets /\ (ImuStep \/ OtherStep)
  BY WheelStepsOfWindow DEF Other, WheelInv
<1>2. SelectionSpans'
  <2>1. DOMAIN used' = {}
    BY <1>1
  <2> QED BY <2>1 DEF SelectionSpans
<1>3. IsFiniteSet(clones')
  BY <1>1, FiniteStays DEF WheelInv
<1>4. IF initialized' THEN lastUp <= stateTime' ELSE lastUp = -1
  <2>1. (IF initialized THEN lastUp <= stateTime ELSE lastUp = -1) /\ lastUp \in Int
    BY DEF WheelInv
  <2>2. stateTime \in Int /\ stateTime' \in Int /\ initialized \in BOOLEAN /\ initialized' \in BOOLEAN
    BY DEF IInv, TypeOK
  <2>3. CASE OtherStep
    <3>1. UNCHANGED <<initialized, stateTime>>
      BY <2>3, OtherHandlers
    <3> QED BY <2>1, <3>1
  <2>4. CASE ImuStep
    <3>1. initialized => initialized'
      BY <1>1, StepPreserves, StepsAreNext DEF Preserved
    <3>2. CASE ~initialized'
      BY <2>1, <3>1, <3>2
    <3>3. CASE initialized'
      <4>1. PICK m \in ImuStamps : ImuMessage(m)
        BY <2>4 DEF ImuStep
      <4>2. stateTime' = m /\ (initialized => stateTime < m)
        BY <3>3, <4>1, ArrivesAtMessage
      <4>3. m \in Nat
        BY <4>1 DEF StampsAreNatural
      <4>4. lastUp <= m
        BY <2>1, <2>2, <4>2, <4>3
      <4> QED BY <3>3, <4>2, <4>4
    <3> QED BY <3>2, <3>3
  <2> QED BY <1>1, <2>3, <2>4
<1>5. TurnsBackAtKeyframes'
  BY <1>1 DEF TurnsBackAtKeyframes
<1> QED BY <1>1, <1>2, <1>3, <1>4, <1>5 DEF WheelInv

\* One step of the wheel updater.
LEMMA WheelInvStep ==
    ASSUME IInv, IInv', NoGt, StampsAreNatural, WheelInv, [WheelNext]_wheelVars PROVE WheelInv'
<1>1. CASE UNCHANGED wheelVars
  <2>1. /\ readings' = readings /\ used' = used /\ reuse' = reuse /\ lastUp' = lastUp /\ wheelDt' = wheelDt
        /\ clones' = clones /\ initialized' = initialized /\ stateTime' = stateTime
        /\ threw' = threw /\ keyframes' = keyframes /\ Poses' = Poses
    BY <1>1 DEF wheelVars, vars, Poses
  <2>2. SelectionSpans'
    <3> SUFFICES ASSUME ~reuse, NEW i \in DOMAIN used' PROVE Spans(used'[i], readings')
      BY <2>1 DEF SelectionSpans, Spans
    <3>1. Spans(used[i], readings)
      BY <2>1 DEF WheelInv, SelectionSpans, Spans
    <3> QED BY <2>1, <3>1
  <2>3. Rising(readings')
    BY <2>1 DEF WheelInv
  <2>4. TurnsBackAtKeyframes'
    BY <2>1 DEF WheelInv, TurnsBackAtKeyframes
  <2> QED BY <2>1, <2>2, <2>3, <2>4 DEF WheelInv
<1>2. CASE WheelNext
  BY <1>2, WheelOtherStep, WheelReadingStep DEF WheelNext
<1> QED BY <1>1, <1>2

\* The invariants of the window and of the wheel updater hold throughout.
THEOREM WheelInvariance == ASSUME NoGt, StampsAreNatural PROVE WheelSpec => [](IInv /\ WheelInv)
<1>1. WheelSpec => []IInv
  BY WheelImplementsWindow, Invariance, PTL
<1>2. WheelInit => WheelInv
  BY WheelInitInv
<1>3. IInv /\ IInv' /\ WheelInv /\ [WheelNext]_wheelVars => WheelInv'
  BY WheelInvStep
<1> QED BY <1>1, <1>2, <1>3, PTL DEF WheelSpec

\* Type correctness of the wheel updater: the chain has never run ahead of the poses.
THEOREM WheelTypeCorrect == ASSUME NoGt, StampsAreNatural PROVE WheelSpec => []WheelTypeOK
<1>1. ASSUME IInv, WheelInv PROVE WheelTypeOK
  <2>1. \A i \in DOMAIN readings : readings[i] \in WheelStamps
    BY <1>1 DEF WheelInv
  <2>2. Poses # {} => \E c \in Poses : lastUp <= c
    BY <1>1 DEF IInv, CaughtUp, EmptyBeforeInit, WheelInv, Poses
  <2> QED BY <1>1, <2>1, <2>2 DEF WheelInv, WheelTypeOK
<1> QED BY <1>1, WheelInvariance, PTL

\* The readings integrated between two poses are both ends and all readings in between,
\* in order.
THEOREM SelectionsSpan == ASSUME NoGt, StampsAreNatural PROVE WheelSpec => []SelectionSpans
<1>1. WheelInv => SelectionSpans
  BY DEF WheelInv
<1> QED BY <1>1, WheelInvariance, PTL

\* With reuse_of_information a motion turns back, or the selection throws, only at a
\* keyframe that is the last pose before readings the window has overtaken; the chain of
\* updates without it never does either.
THEOREM TurnsBackOnlyAtKeyframes == ASSUME NoGt, StampsAreNatural PROVE WheelSpec => []TurnsBackAtKeyframes
<1>1. WheelInv => TurnsBackAtKeyframes
  BY DEF WheelInv
<1> QED BY <1>1, WheelInvariance, PTL

\* No motion is integrated twice.
THEOREM MotionsUsedOnce == ASSUME NoGt, StampsAreNatural PROVE WheelSpec => MotionUsedOnce
<1> DEFINE Once == ~reuse => \A i \in DOMAIN used' :
            /\ {used'[i].from, used'[i].to} \subseteq Poses
            /\ used'[i].from >= (IF i = 1 THEN lastUp ELSE used'[i - 1].to)
            /\ used'[i].from < used'[i].to
<1>1. ASSUME IInv, WheelInv, WheelNext PROVE Once
  <2> SUFFICES ASSUME ~reuse, NEW i \in DOMAIN used'
               PROVE  /\ {used'[i].from, used'[i].to} \subseteq Poses
                      /\ used'[i].from >= (IF i = 1 THEN lastUp ELSE used'[i - 1].to)
                      /\ used'[i].from < used'[i].to
    OBVIOUS
  <2>1. PICK w \in WheelStamps : FeedReading(w)
    BY <1>1 DEF WheelNext, Other
  <2>2. IsFed
    BY <1>1, <2>1, ReadingFacts
  <2>3. initialized
    BY <2>2 DEF IsFed
  <2>4. IsChain(used', readings', <<wheelDt, wheelDt'>>, Max(Start), lastUp')
    BY <2>2, <2>3 DEF IsFed
  <2>5. i \in 1 .. Len(used') /\ used' \in Seq(Motions) /\ Len(used') \in Nat
    BY <2>4 DEF IsChain
  <2>6. /\ used'[i].from \in Poses /\ used'[i].to \in Poses /\ used'[i].from < used'[i].to
        /\ used'[i].from = IF i = 1 THEN Max(Start) ELSE used'[i - 1].to
    BY <2>4, <2>5 DEF IsChain, IsMotion
  <2>7. Poses \in SUBSET Int /\ IsFiniteSet(Poses)
    BY <1>1, PosesAreFinite DEF WheelInv
  <2>8. lastUp <= Max(Start) /\ Max(Start) \in Int /\ lastUp \in Int
    <3>1. lastUp \in Int /\ \E c \in Poses : lastUp <= c
      BY <1>1, <2>3 DEF IInv, CaughtUp, WheelInv
    <3>2. Max(Start) \in Poses /\ lastUp <= Max(Start)
      BY <2>7, <3>1, StartFacts
    <3> QED BY <2>7, <3>1, <3>2
  <2>9. used'[i].from \in Int
    BY <2>6, <2>7
  <2>10. used'[i].from >= (IF i = 1 THEN lastUp ELSE used'[i - 1].to)
    BY <2>6, <2>8, <2>9
  <2> QED BY <2>6, <2>10
<1>2. ASSUME UNCHANGED wheelVars PROVE [Once]_wheelVars
  BY <1>2
<1>3. (IInv /\ WheelInv) /\ [WheelNext]_wheelVars => [Once]_wheelVars
  BY <1>1, <1>2
<1> QED BY <1>3, WheelInvariance, PTL DEF WheelSpec, MotionUsedOnce

\* A wheel message links every pose its readings reach.
THEOREM ChainReachesPoses == ASSUME NoGt, StampsAreNatural PROVE WheelSpec => ChainReaches
<1> DEFINE Reached == readings' # readings /\ initialized /\ ~reuse =>
        \A c \in Poses :
            /\ Len(readings') >= 2
            /\ \A dt \in {wheelDt, wheelDt'} :
                  /\ c - dt <= readings'[Len(readings') - 1] /\ c - dt < readings'[Len(readings')]
                  /\ \A s \in Start : readings'[1] <= s - dt
            => (\E s \in Start : c <= s) \/ \E i \in DOMAIN used' : used'[i].to = c
<1>1. ASSUME IInv, WheelInv, WheelNext PROVE Reached
  <2> SUFFICES ASSUME readings' # readings, initialized, ~reuse, NEW c \in Poses,
                      Len(readings') >= 2,
                      \A dt \in {wheelDt, wheelDt'} :
                         /\ c - dt <= readings'[Len(readings') - 1] /\ c - dt < readings'[Len(readings')]
                         /\ \A s \in Start : readings'[1] <= s - dt,
                      ~\E s \in Start : c <= s
               PROVE  \E i \in DOMAIN used' : used'[i].to = c
    OBVIOUS
  <2>1. PICK w \in WheelStamps : FeedReading(w)
    BY <1>1 DEF WheelNext, Other
  <2>2. IsFed
    BY <1>1, <2>1, ReadingFacts
  <2>3. Poses \in SUBSET Int /\ IsFiniteSet(Poses)
    BY <1>1, PosesAreFinite DEF WheelInv
  <2>4. Max(Start) \in Start /\ Max(Start) \in Int
    <3>1. lastUp \in Int /\ \E d \in Poses : lastUp <= d
      BY <1>1 DEF IInv, CaughtUp, WheelInv
    <3>2. Start = {Max(Start)} /\ Max(Start) \in Poses
      BY <2>3, <3>1, StartFacts
    <3> QED BY <2>3, <3>2
  <2>5. Max(Start) < c
    <3>1. c \in Int /\ ~(c <= Max(Start))
      BY <2>3, <2>4
    <3> QED BY <2>4, <3>1
  <2>6. ReachesPose(readings', <<wheelDt, wheelDt'>>, c)
    BY <2>4 DEF ReachesPose
  <2>7. PICK i \in 1 .. Len(used') : used'[i].to = c
    BY <2>2, <2>5, <2>6 DEF IsFed
  <2>8. used' \in Seq(Motions)
    BY <2>2 DEF IsFed, IsChain
  <2> QED BY <2>7, <2>8
<1>2. ASSUME UNCHANGED wheelVars PROVE [Reached]_wheelVars
  BY <1>2
<1>3. (IInv /\ WheelInv) /\ [WheelNext]_wheelVars => [Reached]_wheelVars
  BY <1>1, <1>2
<1> QED BY <1>3, WheelInvariance, PTL DEF WheelSpec, ChainReaches

-----------------------------------------------------------------------------
(* The invariant of the preintegrations *)

\* Every anchor is in the window, or older than every pose of it that is no keyframe.
AnchorsAreCurrent ==
    /\ \A t \in Times : Current(cpis[t].anchor)
    /\ initialized => Current(cpiClone)

\* The entries reach from the last reset up to the state.
EntriesUpToNow ==
    IF initialized
    THEN cpiClone \in Times /\ stateTime \in Times /\ \A t \in Times : t <= stateTime
    ELSE Times = {}

\* The state is integrated from the newest clone.
NewestIsAnchor ==
    clones # {} =>
        /\ cpis[stateTime].anchor = cpiClone
        /\ cpiClone \in clones /\ \A c \in clones : c <= cpiClone

\* The inductive invariant, on top of the window's.
CpiInv ==
    /\ IsFiniteSet(clones) /\ IsFiniteSet(Times)
    /\ imu \subseteq ImuStamps
    /\ KeyframesBehind
    /\ CpiTypeOK
    /\ ClonesAnchorThemselves
    /\ AnchorsAreCurrent
    /\ EntriesUpToNow
    /\ NewestIsAnchor

\* The same after a step, of a time known before it.
CurrentAfter(a) == a \in clones' \/ \A p \in Poses' \ keyframes' : a < p

\* What one step keeps of the entries there are.
EntriesStay ==
    \A t \in Times :
        cpis[t].anchor \in clones \cap clones' =>
            t \in DOMAIN cpis' /\ (cpis'[t].anchor = cpis[t].anchor \/ t \in clones' \ clones)

-----------------------------------------------------------------------------
(* The window inside CpiWindow *)

\* A step of the composed system is a step of its window.
LEMMA CpiStepsOfWindow ==
    /\ CpiImu => ImuStep
    /\ CpiSensor \/ CpiWheel => OtherStep
    /\ [CpiNext]_allVars => [Next]_vars
<1>1. CpiImu => ImuStep
  BY DEF CpiImu, ImuStep
<1>2. CpiSensor \/ CpiWheel => OtherStep
  BY DEF CpiSensor, CpiWheel, OtherStep
<1>3. [CpiNext]_allVars => [Next]_vars
  BY <1>1, <1>2, StepsAreNext DEF CpiNext, allVars
<1> QED BY <1>1, <1>2, <1>3

\* The system with its preintegrations implements the sliding window: everything proved
\* of SlidingWindow holds in it.
THEOREM CpiImplementsWindow == CpiSpec => Spec
<1>1. CpiInit => Init
  BY DEF CpiInit
<1> QED BY <1>1, CpiStepsOfWindow, PTL DEF CpiSpec, Spec

-----------------------------------------------------------------------------
(* The operations on the map of preintegrations *)

\* propagate leaves the entries that are there alone; those it adds lie inside the request,
\* at readings or at its end, and name the anchor.
LEMMA IntegratedFacts ==
    ASSUME NEW map, NEW buf \in SUBSET Int, IsFiniteSet(buf), NEW t0 \in Int, NEW t1 \in Int, NEW anchor
    PROVE  LET new == Integrated(map, buf, t0, t1, anchor)
           IN  /\ DOMAIN map \subseteq DOMAIN new
               /\ \A t \in DOMAIN map : new[t] = map[t]
               /\ \A t \in DOMAIN new \ DOMAIN map :
                     /\ t \in buf \cup {t1} /\ t0 < t /\ t <= t1
                     /\ new[t] = [anchor |-> anchor, enu |-> map[anchor].enu]
               /\ IsFiniteSet(DOMAIN map) => IsFiniteSet(DOMAIN new)
               /\ Propagated(buf, t0, t1) # t0 => t1 \in DOMAIN new
<1> DEFINE new == Integrated(map, buf, t0, t1, anchor)
           sel == SelectedImu(buf, t0, t1)
<1>1. CASE ~Reaches(buf, t0, t1)
  BY <1>1 DEF Integrated, Propagated
<1>2. CASE Reaches(buf, t0, t1)
  <2>1. new = [t \in DOMAIN map \cup sel |->
                 IF t \in DOMAIN map THEN map[t] ELSE [anchor |-> anchor, enu |-> map[anchor].enu]]
    BY <1>2 DEF Integrated
  <2>2. sel \subseteq buf \cup {t1} /\ t1 \in sel /\ \A t \in sel : t0 < t /\ t <= t1
    <3>1. t0 < t1
      BY <1>2 DEF Reaches
    <3>2. ASSUME NEW r \in buf, t0 < r, NEW q \in buf, r < q, q < t1 PROVE r <= t1
      BY <3>2
    <3> QED BY <3>1, <3>2 DEF SelectedImu
  <2>3. IsFiniteSet(DOMAIN map) => IsFiniteSet(DOMAIN map \cup sel)
    <3>1. IsFiniteSet(buf \cup {t1})
      BY FS_AddElement
    <3>2. IsFiniteSet(sel)
      BY <2>2, <3>1, FS_Subset
    <3> QED BY <3>2, FS_Union
  <2> HIDE DEF new, sel
  <2>4. DOMAIN new = DOMAIN map \cup sel
    BY <2>1
  <2>5. \A t \in DOMAIN map : new[t] = map[t]
    BY <2>1
  <2>6. \A t \in DOMAIN new \ DOMAIN map : t \in sel /\ new[t] = [anchor |-> anchor, enu |-> map[anchor].enu]
    BY <2>1
  <2> QED BY <2>2, <2>3, <2>4, <2>5, <2>6 DEF new
<1> QED BY <1>1, <1>2

\* flush_old_data keeps every entry whose anchor is not older than the oldest pose.
LEMMA FlushedKeeps ==
    ASSUME NEW map, DOMAIN map \subseteq Int, NEW oldest
    PROVE  LET left == Flushed(map, oldest)
           IN  /\ DOMAIN left \subseteq DOMAIN map
               /\ \A t \in DOMAIN left : left[t] = map[t]
               /\ \A t \in DOMAIN map : map[t].anchor >= oldest => t \in DOMAIN left
BY DEF Flushed, Restrict

-----------------------------------------------------------------------------
(* The IMU handler and the preintegrations *)

\* The map after a message with a clone at ct: the clone's own entry; entries that were
\* there; entries on the way to the clone, anchored where the last ones were; entries from
\* the clone up to the message, anchored at it.  What hangs on a clone of the window stays.
LEMMA CloneMap ==
    ASSUME IInv, IInv', CpiInv, NEW m \in ImuStamps, ImuMessage(m), ImuCpis(m),
           NEW ct \in Int, clones' \ clones = {ct}
    PROVE  /\ cpiClone' = ct
           /\ ct \in DOMAIN cpis' /\ cpis'[ct] = [anchor |-> ct, enu |-> gpsInit]
           /\ \A t \in DOMAIN cpis' \ {ct} :
                 \/ t \in Times /\ cpis'[t] = cpis[t]
                 \/ /\ initialized /\ t \in imu' /\ t <= ct
                    /\ cpis'[t] = [anchor |-> cpiClone, enu |-> cpis[cpiClone].enu]
                 \/ /\ t \in imu' \cup {m} /\ ct < t /\ t <= m
                    /\ cpis'[t] = [anchor |-> ct, enu |-> gpsInit]
           /\ \A t \in Times \ {ct} :
                 cpis[t].anchor \in clones' => t \in DOMAIN cpis' /\ cpis'[t] = cpis[t]
           /\ IsFiniteSet(DOMAIN cpis')
           /\ m \in DOMAIN cpis'
<1> USE StampsAreTimes
<1>1. /\ imu' \in SUBSET Int /\ IsFiniteSet(imu') /\ clones' \in SUBSET Int /\ IsFiniteSet(clones')
      /\ stateTime \in Int /\ m \in Int /\ Times \in SUBSET Int /\ IsFiniteSet(Times)
  <2>1. IsFiniteSet(clones')
    BY FiniteStays DEF CpiInv, ImuStep
  <2> QED BY <2>1 DEF IInv, TypeOK, CpiInv, CpiTypeOK, Seen
<1>2. Max(clones' \ clones) = ct
  BY MaxOfOne
<1> DEFINE start == IF initialized THEN stateTime ELSE ct
           before == Integrated(cpis, imu', start, ct, cpiClone)
           fresh == Reset(before, ct, gpsInit)
           left == Flushed(fresh, Min(clones'))
<1>3. cpiClone' = ct /\ cpis' = Integrated(left, imu', ct, m, ct)
  BY <1>2 DEF ImuCpis
<1>4. /\ Times \subseteq DOMAIN before /\ (\A t \in Times : before[t] = cpis[t])
      /\ \A t \in DOMAIN before \ Times :
            /\ initialized /\ t \in imu' \cup {ct} /\ t <= ct
            /\ before[t] = [anchor |-> cpiClone, enu |-> cpis[cpiClone].enu]
      /\ IsFiniteSet(DOMAIN before) /\ DOMAIN before \in SUBSET Int
  <2>1. /\ Times \subseteq DOMAIN before /\ (\A t \in Times : before[t] = cpis[t])
        /\ \A t \in DOMAIN before \ Times :
              /\ t \in imu' \cup {ct} /\ start < t /\ t <= ct
              /\ before[t] = [anchor |-> cpiClone, enu |-> cpis[cpiClone].enu]
        /\ IsFiniteSet(DOMAIN before)
    <3>1. start \in Int
      BY <1>1
    <3> HIDE DEF start
    <3> QED BY <1>1, <3>1, IntegratedFacts DEF Times
  <2>2. \A t \in DOMAIN before \ Times : initialized
    <3> HIDE DEF before
    <3> QED BY <1>1, <2>1
  <2> HIDE DEF before, start
  <2> QED BY <1>1, <2>1, <2>2
<1>5. /\ DOMAIN fresh = DOMAIN before \cup {ct} /\ fresh[ct] = [anchor |-> ct, enu |-> gpsInit]
      /\ \A t \in DOMAIN before : t # ct => fresh[t] = before[t]
      /\ IsFiniteSet(DOMAIN fresh) /\ DOMAIN fresh \in SUBSET Int
  <2>1. DOMAIN fresh = DOMAIN before \cup {ct}
    BY DEF Reset
  <2>2. IsFiniteSet(DOMAIN before \cup {ct})
    <3> HIDE DEF before
    <3> QED BY <1>4, FS_AddElement
  <2> HIDE DEF before
  <2> QED BY <1>4, <2>1, <2>2 DEF Reset
<1>6. /\ DOMAIN left \subseteq DOMAIN fresh
      /\ \A t \in DOMAIN left : left[t] = fresh[t]
      /\ \A t \in DOMAIN fresh : fresh[t].anchor >= Min(clones') => t \in DOMAIN left
  <2> HIDE DEF fresh
  <2> QED BY <1>5, FlushedKeeps
<1>7. ct \in clones' /\ \A c \in clones' : c >= Min(clones')
  <2>1. ct \in clones'
    OBVIOUS
  <2>2. Min(clones') \in Int /\ \A c \in clones' : Min(clones') <= c
    BY <1>1, <2>1, MinOfFinite
  <2> QED BY <1>1, <2>1, <2>2
<1> HIDE DEF fresh
<1>8. ct \in DOMAIN left /\ left[ct] = [anchor |-> ct, enu |-> gpsInit] /\ IsFiniteSet(DOMAIN left)
  <2>1. ct \in DOMAIN left
    BY <1>5, <1>6, <1>7
  <2>2. IsFiniteSet(DOMAIN left)
    <3> HIDE DEF left
    <3> QED BY <1>5, <1>6, FS_Subset
  <2> HIDE DEF left
  <2> QED BY <1>5, <1>6, <2>1, <2>2
<1> HIDE DEF left, before, start
<1>9. /\ DOMAIN left \subseteq DOMAIN cpis' /\ (\A t \in DOMAIN left : cpis'[t] = left[t])
      /\ \A t \in DOMAIN cpis' \ DOMAIN left :
            /\ t \in imu' \cup {m} /\ ct < t /\ t <= m
            /\ cpis'[t] = [anchor |-> ct, enu |-> left[ct].enu]
      /\ IsFiniteSet(DOMAIN cpis')
      /\ Propagated(imu', ct, m) # ct => m \in DOMAIN cpis'
  BY <1>1, <1>3, <1>8, IntegratedFacts
<1>10. m \in DOMAIN cpis'
  <2>1. stateTime' = Propagated(imu', ct, m) /\ initialized'
    BY TailOfHandler
  <2>2. stateTime' = m
    BY <2>1, ArrivesAtMessage
  <2> QED BY <1>8, <1>9, <2>1, <2>2
<1>11. ASSUME NEW t \in DOMAIN cpis' \ {ct}
       PROVE  \/ t \in Times /\ cpis'[t] = cpis[t]
              \/ /\ initialized /\ t \in imu' /\ t <= ct
                 /\ cpis'[t] = [anchor |-> cpiClone, enu |-> cpis[cpiClone].enu]
              \/ /\ t \in imu' \cup {m} /\ ct < t /\ t <= m
                 /\ cpis'[t] = [anchor |-> ct, enu |-> gpsInit]
  <2>1. CASE t \in DOMAIN left
    <3>1. t \in DOMAIN before /\ cpis'[t] = before[t]
      BY <1>5, <1>6, <1>9, <2>1
    <3> QED BY <1>4, <3>1
  <2>2. CASE t \notin DOMAIN left
    BY <1>8, <1>9, <2>2
  <2> QED BY <2>1, <2>2
<1>12. ASSUME NEW t \in Times \ {ct}, cpis[t].anchor \in clones'
       PROVE  t \in DOMAIN cpis' /\ cpis'[t] = cpis[t]
  <2>1. t \in DOMAIN fresh /\ fresh[t] = cpis[t]
    BY <1>4, <1>5
  <2> QED BY <1>6, <1>7, <1>9, <1>12, <2>1
<1>13. ct \in DOMAIN cpis' /\ cpis'[ct] = [anchor |-> ct, enu |-> gpsInit]
  BY <1>8, <1>9
<1> QED BY <1>3, <1>9, <1>10, <1>11, <1>12, <1>13

\* The invariant after a message with a clone.
LEMMA CpiCloneStep ==
    ASSUME IInv, IInv', NoGt, CpiInv, NEW m \in ImuStamps, ImuMessage(m), ImuCpis(m),
           clones' \ clones # {}
    PROVE  CpiInv' /\ EntriesStay
<1> USE StampsAreTimes
<1>1. PICK ct : clones' \ clones = {ct}
  BY OneCloneAdded DEF ImuStep
<1>2. ct \in Int /\ ct <= stateTime' /\ \E i \in imu' : i <= ct
  <2>1. ct \in clones' \ clones
    BY <1>1
  <2> QED BY <2>1, NewCloneFacts
<1>3. /\ stateTime' = m /\ (initialized => stateTime < m) /\ initialized'
      /\ (\A c \in clones : c < ct) /\ (initialized => stateTime <= ct)
      /\ m \in Int /\ stateTime \in Int /\ clones \in SUBSET Int /\ clones' \in SUBSET Int
  <2>1. initialized'
    BY <1>1, TailOfHandler
  <2>2. NewestClone
    <3>1. [Next]_vars
      BY DEF Next, ImuStep
    <3> QED BY <3>1, StepPreserves DEF Preserved
  <2> QED BY <1>1, <2>1, <2>2, ArrivesAtMessage DEF NewestClone, IInv, TypeOK
<1>4. /\ cpiClone' = ct
      /\ ct \in DOMAIN cpis' /\ cpis'[ct] = [anchor |-> ct, enu |-> gpsInit]
      /\ \A t \in DOMAIN cpis' \ {ct} :
            \/ t \in Times /\ cpis'[t] = cpis[t]
            \/ /\ initialized /\ t \in imu' /\ t <= ct
               /\ cpis'[t] = [anchor |-> cpiClone, enu |-> cpis[cpiClone].enu]
            \/ /\ t \in imu' \cup {m} /\ ct < t /\ t <= m
               /\ cpis'[t] = [anchor |-> ct, enu |-> gpsInit]
      /\ \A t \in Times \ {ct} :
            cpis[t].anchor \in clones' => t \in DOMAIN cpis' /\ cpis'[t] = cpis[t]
      /\ IsFiniteSet(DOMAIN cpis')
      /\ m \in DOMAIN cpis'
  BY <1>1, <1>2, CloneMap
<1>5. /\ \A t \in Times : Seen(t) /\ Seen(cpis[t].anchor) /\ cpis[t].enu \in BOOLEAN
      /\ initialized => cpiClone \in Times
      /\ initialized => \A t \in Times : t <= stateTime
      /\ ~initialized => Times = {}
      /\ ct \in clones'
  BY <1>1 DEF CpiInv, CpiTypeOK, EntriesUpToNow
<1>6. imu' \subseteq ImuStamps
  BY BufferGrows DEF CpiInv
<1>7. CpiTypeOK'
  <2>1. Seen(ct) /\ gpsInit \in BOOLEAN /\ \A t \in imu' \cup {m} : Seen(t)
    BY <1>2, <1>6 DEF Seen, IInv, TypeOK
  <2>2. initialized => Seen(cpiClone) /\ cpis[cpiClone].enu \in BOOLEAN
    <3> HAVE initialized
    <3>1. cpis[cpiClone].anchor \in Int
      BY <1>5 DEF Seen
    <3> QED BY <1>5
  <2>3. ASSUME NEW t \in DOMAIN cpis'
        PROVE Seen(t) /\ Seen(cpis'[t].anchor) /\ cpis'[t].enu \in BOOLEAN
    BY <1>4, <1>5, <2>1, <2>2
  <2> QED BY <1>4, <2>1, <2>3 DEF CpiTypeOK, Times, Seen
<1>8. ClonesAnchorThemselves'
  <2> SUFFICES ASSUME NEW c \in clones' PROVE c \in DOMAIN cpis' /\ cpis'[c].anchor = c
    BY DEF ClonesAnchorThemselves, Times
  <2>1. CASE c = ct
    BY <1>4, <2>1
  <2>2. CASE c # ct
    <3>1. c \in clones
      BY <1>1, <2>2
    <3>2. c \in Times /\ cpis[c].anchor = c
      BY <3>1 DEF CpiInv, ClonesAnchorThemselves
    <3> QED BY <1>4, <2>2, <3>2
  <2> QED BY <2>1, <2>2
<1>9. AnchorsAreCurrent'
  <2>1. CurrentAfter(ct)
    BY <1>5 DEF CurrentAfter
  <2>2. ASSUME initialized, NEW a \in Int, Current(a) PROVE CurrentAfter(a)
    BY <2>2, CurrentStays DEF CpiInv, ImuStep, Current, CurrentAfter
  <2>3. ASSUME NEW t \in Times PROVE CurrentAfter(cpis[t].anchor)
    BY <1>5, <2>2 DEF CpiInv, AnchorsAreCurrent, Seen
  <2>4. initialized => CurrentAfter(cpiClone)
    BY <1>5, <2>2 DEF CpiInv, AnchorsAreCurrent, Seen
  <2>5. ASSUME NEW t \in DOMAIN cpis' PROVE CurrentAfter(cpis'[t].anchor)
    BY <1>4, <2>1, <2>3, <2>4
  <2> QED BY <1>4, <2>1, <2>5 DEF AnchorsAreCurrent, Times, Current, CurrentAfter
<1>10. EntriesUpToNow'
  <2>1. \A t \in Times : t \in Int
    BY <1>5 DEF Seen
  <2>2. ASSUME NEW t \in DOMAIN cpis' PROVE t <= m
    <3>1. CASE t = ct
      BY <1>2, <1>3, <3>1
    <3>2. CASE t \in Times
      BY <1>3, <1>5, <2>1, <3>2
    <3>3. CASE t \in imu' /\ t <= ct
      <4>1. t \in Int /\ ct \in Int /\ m \in Int /\ ct <= m
        BY <1>2, <1>3, <1>6, <3>3
      <4> QED BY <3>3, <4>1
    <3> QED BY <1>4, <3>1, <3>2, <3>3
  <2> QED BY <1>3, <1>4, <2>2 DEF EntriesUpToNow, Times
<1>11. NewestIsAnchor'
  <2>1. cpis'[m].anchor = ct
    <3>1. CASE m = ct
      BY <1>4, <3>1
    <3>2. CASE m # ct
      <4>1. m \notin Times
        BY <1>3, <1>5
      <4>2. ~(m <= ct)
        BY <1>2, <1>3, <3>2
      <4> QED BY <1>4, <3>2, <4>1, <4>2
    <3> QED BY <3>1, <3>2
  <2>2. \A c \in clones' : c <= ct
    BY <1>1, <1>2, <1>3
  <2> QED BY <1>3, <1>4, <1>5, <2>1, <2>2 DEF NewestIsAnchor
<1>12. EntriesStay
  BY <1>1, <1>4 DEF EntriesStay
<1>13. IsFiniteSet(clones') /\ KeyframesBehind'
  BY FiniteStays, KeyframesStayBehind DEF CpiInv, ImuStep
<1> QED BY <1>4, <1>6, <1>7, <1>8, <1>9, <1>10, <1>11, <1>12, <1>13 DEF CpiInv, Times

\* The invariant after a message without a clone: entries up to the message, at most.
LEMMA CpiNoCloneStep ==
    ASSUME IInv, IInv', NoGt, CpiInv, NEW m \in ImuStamps, ImuMessage(m), ImuCpis(m),
           clones' \ clones = {}
    PROVE  CpiInv' /\ EntriesStay
<1> USE StampsAreTimes
<1>1. cpis' = (IF initialized THEN Integrated(cpis, imu', stateTime, m, cpiClone) ELSE cpis) /\ cpiClone' = cpiClone
  BY DEF ImuCpis
<1>2. IsFiniteSet(clones') /\ KeyframesBehind' /\ imu' \subseteq ImuStamps
  BY FiniteStays, KeyframesStayBehind, BufferGrows DEF CpiInv, ImuStep
<1>3. CASE InitFails(m)
  <2>1. /\ UNCHANGED <<initialized, stateTime, clones, imuPose, keyframes>> /\ cpis' = cpis
    BY <1>1, <1>3 DEF InitFails
  <2>2. /\ ClonesAnchorThemselves' /\ AnchorsAreCurrent' /\ EntriesUpToNow' /\ NewestIsAnchor'
        /\ CpiTypeOK' /\ IsFiniteSet(Times')
    BY <1>1, <2>1 DEF CpiInv, ClonesAnchorThemselves, AnchorsAreCurrent, EntriesUpToNow,
       NewestIsAnchor, CpiTypeOK, Times, Current, Poses, Seen
  <2>3. EntriesStay
    BY <2>1 DEF EntriesStay, Times
  <2> QED BY <1>2, <2>2, <2>3 DEF CpiInv
<1>4. CASE ~InitFails(m)
  <2>1. /\ initialized /\ initialized' /\ clones' = clones /\ clones # {}
        /\ stateTime' = Propagated(imu', stateTime, m)
    BY <1>4, TailOfHandler
  <2>2. stateTime' = m /\ stateTime < m
    BY <2>1, ArrivesAtMessage
  <2>3. /\ stateTime \in Int /\ m \in Int /\ imu' \in SUBSET Int /\ IsFiniteSet(imu')
        /\ clones \in SUBSET Int /\ IsFiniteSet(Times)
    BY DEF IInv, TypeOK, CpiInv
  <2>4. /\ Times \subseteq DOMAIN cpis' /\ (\A t \in Times : cpis'[t] = cpis[t])
        /\ \A t \in DOMAIN cpis' \ Times :
              /\ t \in imu' \cup {m} /\ stateTime < t /\ t <= m
              /\ cpis'[t] = [anchor |-> cpiClone, enu |-> cpis[cpiClone].enu]
        /\ IsFiniteSet(DOMAIN cpis')
        /\ m \in DOMAIN cpis'
    <3>1. cpis' = Integrated(cpis, imu', stateTime, m, cpiClone)
      BY <1>1, <2>1
    <3>2. Propagated(imu', stateTime, m) # stateTime
      BY <2>1, <2>2, <2>3
    <3>3. IsFiniteSet(DOMAIN cpis)
      BY <2>3 DEF Times
    <3>4. LET new == Integrated(cpis, imu', stateTime, m, cpiClone)
          IN  /\ DOMAIN cpis \subseteq DOMAIN new
              /\ \A t \in DOMAIN cpis : new[t] = cpis[t]
              /\ \A t \in DOMAIN new \ DOMAIN cpis :
                    /\ t \in imu' \cup {m} /\ stateTime < t /\ t <= m
                    /\ new[t] = [anchor |-> cpiClone, enu |-> cpis[cpiClone].enu]
              /\ IsFiniteSet(DOMAIN new)
              /\ m \in DOMAIN new
      BY <2>3, <3>2, <3>3, IntegratedFacts
    <3> QED BY <3>1, <3>4 DEF Times
  <2>5. /\ \A t \in Times : Seen(t) /\ Seen(cpis[t].anchor) /\ cpis[t].enu \in BOOLEAN
        /\ cpiClone \in Times /\ \A t \in Times : t <= stateTime
    BY <2>1 DEF CpiInv, CpiTypeOK, EntriesUpToNow
  <2>6. CpiTypeOK'
    <3>1. \A t \in imu' \cup {m} : Seen(t)
      BY <1>2 DEF Seen
    <3>2. Seen(cpiClone) /\ cpis[cpiClone].enu \in BOOLEAN
      BY <2>5
    <3>3. ASSUME NEW t \in DOMAIN cpis'
          PROVE Seen(t) /\ Seen(cpis'[t].anchor) /\ cpis'[t].enu \in BOOLEAN
      BY <2>4, <2>5, <3>1, <3>2
    <3> QED BY <1>1, <3>2, <3>3 DEF CpiTypeOK, Times, Seen
  <2>7. ClonesAnchorThemselves'
    BY <2>1, <2>4 DEF ClonesAnchorThemselves, Times, CpiInv
  <2>8. AnchorsAreCurrent'
    <3>1. ASSUME NEW a \in Int, Current(a) PROVE CurrentAfter(a)
      BY <2>1, <3>1, CurrentStays DEF CpiInv, ImuStep, Current, CurrentAfter
    <3>2. \A t \in Times : CurrentAfter(cpis[t].anchor)
      BY <2>5, <3>1 DEF CpiInv, AnchorsAreCurrent, Seen
    <3>3. CurrentAfter(cpiClone)
      BY <2>1, <2>5, <3>1 DEF CpiInv, AnchorsAreCurrent, Seen
    <3>4. ASSUME NEW t \in DOMAIN cpis' PROVE CurrentAfter(cpis'[t].anchor)
      BY <2>4, <3>2, <3>3
    <3> QED BY <1>1, <3>3, <3>4 DEF AnchorsAreCurrent, Times, Current, CurrentAfter
  <2>9. EntriesUpToNow'
    <3>1. \A t \in DOMAIN cpis' : t <= m
      BY <2>2, <2>3, <2>4, <2>5 DEF Seen
    <3> QED BY <1>1, <2>1, <2>2, <2>4, <2>5, <3>1 DEF EntriesUpToNow, Times
  <2>10. NewestIsAnchor'
    <3>1. m \notin Times
      BY <2>2, <2>3, <2>5
    <3> QED BY <1>1, <2>1, <2>2, <2>4, <3>1 DEF NewestIsAnchor, CpiInv
  <2>11. EntriesStay
    BY <2>4 DEF EntriesStay
  <2> QED BY <1>2, <2>4, <2>6, <2>7, <2>8, <2>9, <2>10, <2>11 DEF CpiInv, Times
<1> QED BY <1>3, <1>4

-----------------------------------------------------------------------------
(* The other handlers and the preintegrations *)

\* Two neighbours that are not older than the window share an anchor in the window.
LEMMA LinearAnchorIsClone ==
    ASSUME IInv, CpiInv, initialized, NEW t \in Int, NEW a \in LinearAnchor(t)
    PROVE  a \in clones /\ Seen(t)
<1> DEFINE t0 == IF t = Min(Times) THEN t ELSE Max({u \in Times : u < t})
<1>1. /\ Times # {} /\ ~(t < Min(Times))
      /\ a = cpis[t0].anchor /\ a >= OldestClone
  BY DEF LinearAnchor
<1>2. /\ Times \in SUBSET Int /\ IsFiniteSet(Times)
      /\ \A u \in Times : Seen(u) /\ Seen(cpis[u].anchor)
  BY DEF CpiInv, CpiTypeOK, Seen
<1>3. Min(Times) \in Times /\ Min(Times) \in Int /\ Min(Times) <= t
  <2>1. Min(Times) \in Times
    <3> HIDE DEF t0
    <3> QED BY <1>1, <1>2, MinOfFinite
  <2>2. Min(Times) \in Int
    BY <1>2, <2>1
  <2> QED BY <1>1, <2>1, <2>2
<1>4. t0 \in Times
  <2>1. CASE t = Min(Times)
    BY <1>3, <2>1
  <2>2. CASE t # Min(Times)
    <3> DEFINE before == {u \in Times : u < t}
    <3>1. before \in SUBSET Int /\ before # {} /\ before \subseteq Times
      <4>1. Min(Times) < t
        BY <1>3, <2>2
      <4> QED BY <1>2, <1>3, <4>1
    <3>2. IsFiniteSet(before)
      BY <1>2, <3>1, FS_Subset
    <3>3. Max(before) \in before
      <4> HIDE DEF before
      <4> QED BY <3>1, <3>2, MaxOfFinite
    <3> QED BY <2>2, <3>1, <3>3
  <2> QED BY <2>1, <2>2
<1>5. Current(a) /\ a \in Int
  BY <1>1, <1>2, <1>4 DEF CpiInv, AnchorsAreCurrent, Seen
<1>6. OldestClone \in Poses \ keyframes /\ OldestClone \in Int
  <2>1. Poses \in SUBSET Int /\ IsFiniteSet(imuPose)
    <3>1. IsFiniteSet({stateTime})
      BY FS_Singleton
    <3>2. IsFiniteSet(imuPose)
      BY <3>1, FS_Subset DEF IInv, ImuPoseIsNow
    <3> QED BY <3>2 DEF IInv, TypeOK, Poses
  <2>2. IsFiniteSet(Poses \ keyframes)
    <3>1. IsFiniteSet(Poses)
      BY <2>1, FS_Union DEF CpiInv, Poses
    <3> QED BY <3>1, FS_Subset
  <2>3. Poses \ keyframes # {}
    BY StateIsPose
  <2> QED BY <2>1, <2>2, <2>3, MinOfFinite DEF OldestClone
<1>7. a \in clones
  <2>1. ~(a < OldestClone)
    <3> HIDE DEF t0
    <3> QED BY <1>1, <1>5, <1>6
  <2> QED BY <1>5, <1>6, <2>1 DEF Current
<1>8. Seen(t)
  <2>1. PICK i \in ImuStamps \cup GtStamps : i <= Min(Times)
    BY <1>2, <1>3 DEF Seen
  <2>2. i \in Int
    BY StampsAreTimes
  <2> QED BY <1>3, <2>1, <2>2 DEF Seen
<1> QED BY <1>7, <1>8

\* The anchors have_cpi can choose from: clones of the window, with an entry of their own.
LEMMA NewAnchorsKnown ==
    ASSUME IInv, CpiInv, initialized, NEW t \in Int, NEW a \in NewAnchors(t)
    PROVE  Known(a) /\ Seen(t)
<1>1. CASE a \in LinearAnchor(t)
  BY <1>1, LinearAnchorIsClone DEF Known, CpiInv, ClonesAnchorThemselves
<1>2. CASE a \in IntegrateAnchors(t)
  <2>1. a \in clones /\ a \in Int
    BY <1>2, ClosestIsClone DEF IntegrateAnchors, CpiInv, IInv, TypeOK
  <2>2. imu \subseteq ImuStamps /\ imu \in SUBSET Int
    BY DEF CpiInv, IInv, TypeOK
  <2>3. \E i \in imu : i <= t
    <3>1. CASE a <= t
      <4>1. PICK i \in imu : i <= a
        BY <1>2, <3>1 DEF IntegrateAnchors, Reaches
      <4> QED BY <2>1, <2>2, <3>1, <4>1
    <3>2. CASE ~(a <= t)
      BY <1>2, <3>2 DEF IntegrateAnchors, Reaches
    <3> QED BY <3>1, <3>2
  <2> QED BY <2>1, <2>2, <2>3 DEF Known, Seen, CpiInv, ClonesAnchorThemselves
<1> QED BY <1>1, <1>2 DEF NewAnchors

\* What a request leaves: the entries there were, and one for the time asked, anchored at
\* a clone; an entry is replaced only if its anchor has left the window.
LEMMA RequestFacts ==
    ASSUME IInv, CpiInv, initialized, NEW t \in Int, t <= stateTime, Asked(t)
    PROVE  \/ cpis' = cpis
           \/ \E a \in clones :
                 /\ a \in Times /\ Seen(t) /\ ~HasCpi(t)
                 /\ cpis' = [u \in Times \cup {t} |->
                               IF u = t THEN [anchor |-> a, enu |-> cpis[a].enu] ELSE cpis[u]]
BY NewAnchorsKnown DEF Asked, AfterRequest, Known

\* The times of recorded measurements are times.
LEMMA MeasuredTimes == ASSUME IInv PROVE MeasTimes \subseteq Int
<1>1. ASSUME NEW s \in Drivers, NEW t \in hist[s] PROVE t + offset[s] \in Int
  <2>1. hist[s] \in SUBSET SensorStamps /\ offset[s] \in Offsets
    BY DEF IInv, TypeOK
  <2>2. t \in Int /\ offset[s] \in Int
    BY <2>1, StampsAreTimes
  <2> QED BY <2>2
<1> QED BY <1>1 DEF MeasTimes

\* The invariant after a message of another sensor.
LEMMA CpiOtherStep ==
    ASSUME IInv, IInv', NoGt, CpiInv, CpiSensor \/ CpiWheel
    PROVE  CpiInv' /\ EntriesStay
<1>1. OtherStep
  BY CpiStepsOfWindow
<1>2. /\ UNCHANGED <<initialized, stateTime, imu, imuPose>>
      /\ clones' \subseteq clones /\ cpiClone' = cpiClone
  BY <1>1, OtherHandlers, NoCloneAdded DEF CpiSensor, CpiWheel, cpiVars
<1>3. \/ cpis' = cpis
      \/ /\ initialized
         /\ \E t \in Int, a \in clones :
               /\ t <= stateTime /\ a \in Times /\ Seen(t) /\ ~HasCpi(t)
               /\ cpis' = [u \in Times \cup {t} |->
                             IF u = t THEN [anchor |-> a, enu |-> cpis[a].enu] ELSE cpis[u]]
  <2>1. ASSUME initialized, NEW t \in MeasTimes, t <= stateTime, Asked(t)
        PROVE  \/ cpis' = cpis
               \/ \E a \in clones :
                     /\ t \in Int /\ a \in Times /\ Seen(t) /\ ~HasCpi(t)
                     /\ cpis' = [u \in Times \cup {t} |->
                                   IF u = t THEN [anchor |-> a, enu |-> cpis[a].enu] ELSE cpis[u]]
    <3>1. t \in Int
      BY <2>1, MeasuredTimes
    <3> QED BY <2>1, <3>1, RequestFacts
  <2>2. cpis' = cpis \/ (initialized /\ \E t \in MeasTimes : t <= stateTime /\ Asked(t))
    BY DEF CpiSensor, CpiWheel
  <2> QED BY <2>1, <2>2
<1>4. IsFiniteSet(clones') /\ KeyframesBehind' /\ imu' \subseteq ImuStamps
  BY <1>1, <1>2, FiniteStays, KeyframesStayBehind DEF CpiInv
<1>5. /\ stateTime \in Int /\ clones \in SUBSET Int /\ clones' \in SUBSET Int
      /\ \A t \in Times : Seen(t) /\ Seen(cpis[t].anchor) /\ cpis[t].enu \in BOOLEAN
      /\ \A c \in clones : c \in Times /\ cpis[c].anchor = c
  BY DEF IInv, TypeOK, CpiInv, CpiTypeOK, ClonesAnchorThemselves
<1>6. ASSUME initialized, NEW a \in Int, Current(a) PROVE CurrentAfter(a)
  BY <1>1, <1>6, CurrentStays DEF CpiInv, Current, CurrentAfter
<1>7. /\ initialized => cpiClone \in Times
      /\ ~initialized => Times = {}
  BY DEF CpiInv, EntriesUpToNow
<1>8. initialized' => CurrentAfter(cpiClone)
  BY <1>2, <1>5, <1>6, <1>7 DEF CpiInv, AnchorsAreCurrent, Seen
<1>9. \A t \in Times : CurrentAfter(cpis[t].anchor)
  BY <1>5, <1>6, <1>7 DEF CpiInv, AnchorsAreCurrent, Seen
<1>10. clones' # {} => /\ cpis[stateTime].anchor = cpiClone
                       /\ cpiClone \in clones' /\ \A c \in clones' : c <= cpiClone
  <2> HAVE clones' # {}
  <2>1. /\ cpis[stateTime].anchor = cpiClone
        /\ cpiClone \in clones /\ \A c \in clones : c <= cpiClone
    BY <1>2 DEF CpiInv, NewestIsAnchor
  <2>2. cpiClone \in clones'
    BY <1>1, <1>2, <2>1, OtherHandlers
  <2> QED BY <1>2, <2>1, <2>2
<1>11. CASE cpis' = cpis
  <2>1. CpiTypeOK' /\ ClonesAnchorThemselves' /\ IsFiniteSet(Times')
    BY <1>2, <1>11 DEF CpiInv, CpiTypeOK, ClonesAnchorThemselves, Times, Seen
  <2>2. AnchorsAreCurrent'
    BY <1>2, <1>8, <1>9, <1>11 DEF AnchorsAreCurrent, Times, Current, CurrentAfter
  <2>3. EntriesUpToNow' /\ NewestIsAnchor'
    BY <1>2, <1>10, <1>11 DEF CpiInv, EntriesUpToNow, NewestIsAnchor, Times
  <2>4. EntriesStay
    BY <1>11 DEF EntriesStay, Times
  <2> QED BY <1>4, <2>1, <2>2, <2>3, <2>4 DEF CpiInv
<1>12. ASSUME initialized, NEW t \in Int, NEW a \in clones, t <= stateTime, a \in Times, Seen(t), ~HasCpi(t),
              cpis' = [u \in Times \cup {t} |->
                         IF u = t THEN [anchor |-> a, enu |-> cpis[a].enu] ELSE cpis[u]]
       PROVE  CpiInv' /\ EntriesStay
  <2>1. /\ DOMAIN cpis' = Times \cup {t} /\ cpis'[t] = [anchor |-> a, enu |-> cpis[a].enu]
        /\ \A u \in Times : u # t => cpis'[u] = cpis[u]
        /\ t \in Times => cpis[t].anchor \notin clones
    BY <1>12 DEF HasCpi
  <2>2. Seen(a) /\ cpis[a].enu \in BOOLEAN /\ CurrentAfter(a)
    <3>1. Seen(a) /\ cpis[a].enu \in BOOLEAN /\ a \in Int /\ Current(a)
      BY <1>5, <1>12 DEF Current
    <3> QED BY <1>6, <1>12, <3>1
  <2>3. CpiTypeOK'
    <3>1. ASSUME NEW u \in DOMAIN cpis'
          PROVE Seen(u) /\ Seen(cpis'[u].anchor) /\ cpis'[u].enu \in BOOLEAN
      BY <1>5, <1>12, <2>1, <2>2
    <3> QED BY <1>2, <3>1 DEF CpiTypeOK, Times, Seen, CpiInv
  <2>4. ClonesAnchorThemselves'
    BY <1>2, <1>5, <2>1 DEF ClonesAnchorThemselves, Times
  <2>5. AnchorsAreCurrent'
    <3>1. ASSUME NEW u \in DOMAIN cpis' PROVE CurrentAfter(cpis'[u].anchor)
      BY <1>9, <2>1, <2>2
    <3> QED BY <1>2, <1>8, <3>1 DEF AnchorsAreCurrent, Times, Current, CurrentAfter
  <2>6. EntriesUpToNow'
    BY <1>2, <1>12, <2>1 DEF CpiInv, EntriesUpToNow, Times
  <2>7. NewestIsAnchor'
    <3> SUFFICES ASSUME clones' # {} PROVE cpis'[stateTime].anchor = cpiClone
      BY <1>2, <1>10 DEF NewestIsAnchor
    <3>1. stateTime \in Times /\ cpis[stateTime].anchor \in clones
      BY <1>2, <1>10, <1>12 DEF CpiInv, EntriesUpToNow
    <3> QED BY <1>10, <2>1, <3>1
  <2>8. IsFiniteSet(Times')
    BY <2>1, FS_AddElement DEF Times, CpiInv
  <2>9. EntriesStay
    BY <2>1 DEF EntriesStay
  <2> QED BY <1>4, <2>3, <2>4, <2>5, <2>6, <2>7, <2>8, <2>9 DEF CpiInv
<1> QED BY <1>3, <1>11, <1>12

\* One step of the composed system.
LEMMA CpiStep ==
    ASSUME IInv, IInv', NoGt, CpiInv, [CpiNext]_allVars
    PROVE  CpiInv' /\ [EntriesStay]_allVars
<1>1. CASE CpiImu
  BY <1>1, CpiCloneStep, CpiNoCloneStep DEF CpiImu
<1>2. CASE CpiSensor \/ CpiWheel
  BY <1>2, CpiOtherStep
<1>3. CASE UNCHANGED allVars
  BY <1>3 DEF allVars, vars, CpiInv, KeyframesBehind, CpiTypeOK, Seen, ClonesAnchorThemselves,
     AnchorsAreCurrent, Current, Poses, EntriesUpToNow, NewestIsAnchor, Times
<1> QED BY <1>1, <1>2, <1>3 DEF CpiNext

-----------------------------------------------------------------------------
(* The theorems about the preintegrations *)

\* The empty window has no entries.
LEMMA CpiInitInv == ASSUME CpiInit PROVE CpiInv
<1>1. /\ clones = {} /\ imu = {} /\ keyframes = {} /\ ~initialized /\ Times = {} /\ cpiClone = -1
  BY DEF CpiInit, Init, Times
<1> QED BY <1>1, FS_EmptySet DEF CpiInv, KeyframesBehind, CpiTypeOK, ClonesAnchorThemselves,
           AnchorsAreCurrent, EntriesUpToNow, NewestIsAnchor

\* The invariant of the window and of the map hold throughout.
THEOREM CpiInvariance == ASSUME NoGt PROVE CpiSpec => [](IInv /\ CpiInv)
<1>1. CpiInit => CpiInv
  BY CpiInitInv
<1>2. CpiSpec => []IInv
  BY CpiImplementsWindow, Invariance, PTL
<1>3. IInv /\ IInv' /\ CpiInv /\ [CpiNext]_allVars => CpiInv'
  BY CpiStep
<1> QED BY <1>1, <1>2, <1>3, PTL DEF CpiSpec

\* Type correctness of the map: entries and anchors are times the program has seen, no
\* entry is left without an anchor.
THEOREM CpiTypeCorrect == ASSUME NoGt PROVE CpiSpec => []CpiTypeOK
<1>1. CpiInv => CpiTypeOK
  BY DEF CpiInv
<1> QED BY <1>1, CpiInvariance, PTL

\* The lookups the code makes without checking find their keys: the anchor of every entry
\* that have_cpi accepts or would create, the entry at the state time and its anchor.
THEOREM AnchorsAlwaysResolve == ASSUME NoGt PROVE CpiSpec => []AnchorsResolve
<1>1. ASSUME IInv, CpiInv PROVE AnchorsResolve
  <2>1. \A t \in Times : cpis[t].anchor \in clones => cpis[t].anchor \in Times
    BY <1>1 DEF CpiInv, ClonesAnchorThemselves
  <2>2. \A t \in MeasTimes : initialized => \A a \in NewAnchors(t) : Known(a)
    BY <1>1, MeasuredTimes, NewAnchorsKnown
  <2>3. ASSUME initialized, clones # {}
        PROVE stateTime \in Times /\ Known(cpis[stateTime].anchor) /\ cpiClone = Max(clones)
    <3>1. stateTime \in Times /\ cpiClone \in Times
      BY <1>1, <2>3 DEF CpiInv, EntriesUpToNow
    <3>2. cpis[stateTime].anchor = cpiClone /\ cpiClone \in clones /\ \A c \in clones : c <= cpiClone
      BY <1>1, <2>3 DEF CpiInv, NewestIsAnchor
    <3>3. Max(clones) \in clones /\ \A c \in clones : c <= Max(clones)
      BY <1>1, <2>3, MaxOfFinite DEF CpiInv, IInv, TypeOK
    <3>4. cpiClone = Max(clones)
      <4>1. cpiClone \in Int /\ Max(clones) \in Int /\ cpiClone <= Max(clones) /\ Max(clones) <= cpiClone
        BY <1>1, <3>2, <3>3 DEF IInv, TypeOK
      <4> QED BY <4>1
    <3> QED BY <3>1, <3>2, <3>4 DEF Known
  <2> QED BY <2>1, <2>2, <2>3 DEF AnchorsResolve
<1> QED BY <1>1, CpiInvariance, PTL

\* Every clone of the window is the anchor of its own entry: the pose of a clone is never
\* taken from another clone's preintegration, whatever was flushed or asked for.
THEOREM ClonesAreAnchors == ASSUME NoGt PROVE CpiSpec => []ClonesAnchorThemselves
<1>1. CpiInv => ClonesAnchorThemselves
  BY DEF CpiInv
<1> QED BY <1>1, CpiInvariance, PTL

\* An entry stays, and stays with its anchor, as long as the anchor is in the window.
THEOREM UsableEntriesAreKept == ASSUME NoGt PROVE CpiSpec => UsableEntriesStay
<1>1. IInv /\ IInv' /\ CpiInv /\ [CpiNext]_allVars => [EntriesStay]_allVars
  BY CpiStep
<1> QED BY <1>1, CpiInvariance, PTL DEF CpiSpec, UsableEntriesStay, EntriesStay
=============================================================================
