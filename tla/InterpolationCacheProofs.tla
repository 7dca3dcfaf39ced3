----------------------- MODULE InterpolationCacheProofs -----------------------
(***************************************************************************)
(* Theorems about InterpolationCache, for all sets of stamps, offsets and  *)
(* periods, all window sizes and interpolation orders: what is proved of   *)
(* the window holds with the caches beside it, a fit that is used is over  *)
(* the poses around the request, and no old Jacobian survives a new clone. *)
(***************************************************************************)
EXTENDS InterpolationCache, SlidingWindowProofs, CloneLookupProofs

-----------------------------------------------------------------------------
(* Fits are runs of poses *)

\* A fit over Order + 1 poses has one later than its oldest.
LEMMA HasLater ==
    ASSUME NEW F \in SUBSET Int, IsFiniteSet(F), Cardinality(F) = Order + 1, NEW k \in F, \A c \in F : k <= c
    PROVE  \E d \in F : k < d
<1> USE OrderIsOdd
<1> SUFFICES ASSUME \A d \in F : ~(k < d) PROVE FALSE
  OBVIOUS
<1>1. \A d \in F : d = k
  <2> TAKE d \in F
  <2>1. k <= d /\ ~(k < d) /\ k \in Int /\ d \in Int
    OBVIOUS
  <2> QED BY <2>1
<1>2. F = {k}
  BY <1>1
<1>3. Cardinality(F) = 1
  BY <1>2, FS_Singleton
<1> QED BY <1>3

\* The newest Order + 1 poses: a run that reaches up to the newest pose.
LEMMA LastIsRun ==
    ASSUME NEW S \in SUBSET Int, IsFiniteSet(S), Cardinality(S) >= Order + 1
    PROVE  /\ Unbroken(LastPoses(S), S) /\ Cardinality(LastPoses(S)) = Order + 1
           /\ \A a \in LastPoses(S), c \in S : a <= c => c \in LastPoses(S)
           /\ Min(LastPoses(S)) \in LastPoses(S) /\ \A c \in LastPoses(S) : Min(LastPoses(S)) <= c
<1> USE OrderIsOdd
<1> DEFINE len == Cardinality(S)
           a == len - Order
           P == {Ascending(S)[j] : j \in a .. a + Order}
<1>1. /\ len \in Nat /\ Ascending(S) \in [1 .. len -> S]
      /\ \A c \in S : Rank(S, c) \in 0 .. len - 1 /\ Ascending(S)[Rank(S, c) + 1] = c
      /\ \A i \in 1 .. len : Rank(S, Ascending(S)[i]) = i - 1
      /\ \A c, d \in S : c < d <=> Rank(S, c) < Rank(S, d)
  BY AscendingLists, RankOrders
<1>2. a \in Int /\ 1 <= a /\ a + Order = len
  BY <1>1
<1>3. \A c \in S : Newer(S, c) <= Order <=> a <= Rank(S, c) + 1
  <2> TAKE c \in S
  <2>1. Newer(S, c) = len - Rank(S, c) - 1
    BY NewerCount
  <2>2. Rank(S, c) \in Int /\ len \in Int /\ Order \in Int
    BY <1>1
  <2> HIDE DEF len
  <2> QED BY <2>1, <2>2
<1> HIDE DEF a, len
<1>4. LastPoses(S) = {c \in S : a <= Rank(S, c) + 1}
  BY <1>3 DEF LastPoses, Newer
<1>5. P = {c \in S : a <= Rank(S, c) + 1}
  <2>1. ASSUME NEW j \in a .. a + Order
        PROVE  Ascending(S)[j] \in S /\ a <= Rank(S, Ascending(S)[j]) + 1
    <3>1. j \in 1 .. len
      BY <1>1, <1>2
    <3>2. Rank(S, Ascending(S)[j]) = j - 1 /\ Ascending(S)[j] \in S
      BY <1>1, <3>1
    <3> QED BY <1>2, <3>2
  <2>2. ASSUME NEW c \in S, a <= Rank(S, c) + 1
        PROVE  Rank(S, c) + 1 \in a .. a + Order
    BY <1>1, <1>2, <2>2
  <2> QED BY <1>1, <2>1, <2>2
<1>6. Unbroken(P, S) /\ Cardinality(P) = Order + 1
  <2>1. a + Order <= Cardinality(S)
    BY <1>1, <1>2 DEF len
  <2> QED BY <1>2, <2>1, ConsecutiveRun
<1>7. ASSUME NEW p \in P, NEW c \in S, p <= c PROVE c \in P
  <2>1. p \in S /\ Rank(S, p) \in Int /\ Rank(S, c) \in Int /\ a <= Rank(S, p) + 1
    <3> HIDE DEF P
    <3> QED BY <1>1, <1>5
  <2>2. ~(Rank(S, c) < Rank(S, p))
    <3>1. ~(c < p)
      <4>1. c \in Int /\ p \in Int
        BY <2>1
      <4> QED BY <1>7, <4>1
    <3> QED BY <1>1, <2>1, <3>1
  <2>3. a <= Rank(S, c) + 1
    BY <1>2, <2>1, <2>2
  <2> QED BY <1>5, <2>3
<1>8. P \in SUBSET Int /\ IsFiniteSet(P) /\ P # {}
  <2>1. P \in SUBSET S
    BY <1>6 DEF Unbroken
  <2>2. P # {}
    <3>1. a \in a .. a + Order
      BY <1>2
    <3> QED BY <3>1
  <2> HIDE DEF P
  <2> QED BY <2>1, <2>2, FS_Subset
<1>9. LastPoses(S) = P
  BY <1>4, <1>5
<1> HIDE DEF P
<1> QED BY <1>6, <1>7, <1>8, <1>9, MinOfFinite

\* Any Order + 1 poses that reach up to the newest one are those.
LEMMA LastIsOnlyOne ==
    ASSUME NEW S \in SUBSET Int, IsFiniteSet(S), NEW P \in SUBSET S, Cardinality(P) = Order + 1,
           \A a \in P, c \in S : a <= c => c \in P
    PROVE  Cardinality(S) >= Order + 1 /\ P = LastPoses(S)
<1> USE OrderIsOdd
<1>1. IsFiniteSet(P) /\ Cardinality(P) <= Cardinality(S)
  BY FS_Subset
<1>2. Cardinality(S) >= Order + 1
  <2>1. Cardinality(S) \in Nat
    BY FS_CardinalityType
  <2> QED BY <1>1, <2>1
<1> DEFINE L == LastPoses(S)
<1>3. L \in SUBSET S /\ Cardinality(L) = Order + 1 /\ \A a \in L, c \in S : a <= c => c \in L
  BY <1>2, LastIsRun DEF Unbroken
<1> HIDE DEF L
<1>4. L \subseteq P \/ P \subseteq L
  <2> SUFFICES ASSUME NEW p \in P \ L, NEW l \in L PROVE l \in P
    OBVIOUS
  <2>1. p \in Int /\ l \in Int /\ p \in S /\ l \in S /\ ~(l <= p)
    BY <1>3
  <2>2. p <= l
    BY <2>1
  <2> QED BY <2>1, <2>2
<1>5. IsFiniteSet(L)
  BY <1>3, FS_Subset
<1>6. L = P
  <2>1. CASE L \subseteq P
    BY <1>1, <1>3, <2>1, FS_Subset
  <2>2. CASE P \subseteq L
    BY <1>3, <1>5, <2>2, FS_Subset
  <2> QED BY <1>4, <2>1, <2>2
<1> QED BY <1>2, <1>6 DEF L

\* The pose with exactly Order newer ones is the one add_polynomial fits from.
LEMMA KeyOfLast ==
    ASSUME NEW S \in SUBSET Int, IsFiniteSet(S), NEW c \in S, Newer(S, c) = Order
    PROVE  Cardinality(S) >= Order + 1 /\ c = Min(LastPoses(S))
<1> DEFINE newer == {d \in S : d > c}
           P == newer \cup {c}
<1>1. IsFiniteSet(newer) /\ c \notin newer
  <2>1. newer \in SUBSET S /\ ~(c > c)
    OBVIOUS
  <2>2. IsFiniteSet(newer)
    <3> HIDE DEF newer
    <3> QED BY <2>1, FS_Subset
  <2> QED BY <2>1, <2>2
<1>2. Cardinality(P) = Order + 1
  <2>1. Cardinality(newer) = Order
    BY DEF Newer
  <2> HIDE DEF newer
  <2> QED BY <1>1, <2>1, FS_AddElement
<1>3. P \in SUBSET S /\ (\A a \in P, d \in S : a <= d => d \in P) /\ \A a \in P : c <= a
  <2>1. \A a \in P : a \in Int /\ a \in S /\ c <= a
    OBVIOUS
  <2>2. ASSUME NEW a \in P, NEW d \in S, a <= d PROVE d \in P
    <3>1. a \in Int /\ d \in Int /\ c \in Int /\ c <= a
      BY <2>1
    <3>2. c < d \/ c = d
      <4> HIDE DEF P
      <4> QED BY <2>2, <3>1
    <3> QED BY <3>2
  <2> QED BY <2>1, <2>2
<1>4. c \in P
  OBVIOUS
<1> HIDE DEF P
<1>5. Cardinality(S) >= Order + 1 /\ P = LastPoses(S)
  BY <1>2, <1>3, LastIsOnlyOne
<1>6. Min(P) = c
  <2>1. P \in SUBSET Int
    BY <1>3
  <2> QED BY <1>3, <1>4, <2>1, LeastIsMin
<1> QED BY <1>5, <1>6

\* What build_polynomial_data fits at t.
RunFrom(S, t) == {c \in S : c >= t /\ Cardinality({d \in S : t < d /\ d < c}) < Order}

\* At a pose with enough newer ones it is a run from it.
LEMMA RebuiltIsRun ==
    ASSUME NEW S \in SUBSET Int, IsFiniteSet(S), NEW t \in S, Newer(S, t) >= Order
    PROVE  /\ Unbroken(RunFrom(S, t), S) /\ Cardinality(RunFrom(S, t)) = Order + 1
           /\ t \in RunFrom(S, t) /\ \A c \in RunFrom(S, t) : t <= c
<1> USE OrderIsOdd
<1> DEFINE F == {c \in S : c >= t /\ Cardinality({d \in S : t < d /\ d < c}) < Order}
           len == Cardinality(S)
           a == Rank(S, t) + 1
           P == {Ascending(S)[j] : j \in a .. a + Order}
<1>1. /\ len \in Nat /\ Ascending(S) \in [1 .. len -> S]
      /\ \A c \in S : Rank(S, c) \in 0 .. len - 1 /\ Ascending(S)[Rank(S, c) + 1] = c
      /\ \A i \in 1 .. len : Rank(S, Ascending(S)[i]) = i - 1
      /\ \A c, d \in S : c < d <=> Rank(S, c) < Rank(S, d)
  BY AscendingLists, RankOrders
<1>2. a \in Int /\ 1 <= a /\ a + Order <= len
  <2>1. Newer(S, t) = len - Rank(S, t) - 1
    BY NewerCount
  <2>2. Rank(S, t) \in 0 .. len - 1 /\ len \in Int /\ Order \in Int
    BY <1>1
  <2> HIDE DEF len
  <2> QED BY <2>1, <2>2
<1>3. ASSUME NEW c \in S PROVE c \in F <=> Rank(S, c) + 1 \in a .. a + Order
  <2>1. Rank(S, c) \in Int /\ Rank(S, t) \in Int /\ c \in Int /\ t \in Int
    BY <1>1
  <2>2. CASE t < c
    <3>1. Cardinality({d \in S : t < d /\ d < c}) = Rank(S, c) - Rank(S, t) - 1
      BY <2>2, BetweenCount
    <3>2. c \in F <=> Rank(S, c) - Rank(S, t) - 1 < Order
      BY <2>1, <2>2, <3>1
    <3>3. Rank(S, t) < Rank(S, c)
      BY <1>1, <2>2
    <3> HIDE DEF F
    <3> QED BY <2>1, <3>2, <3>3
  <2>3. CASE c = t
    <3>1. {d \in S : t < d /\ d < t} = {}
      <4>1. \A d \in S : ~(t < d /\ d < t)
        OBVIOUS
      <4> QED BY <4>1
    <3>2. c \in F
      BY <2>3, <3>1, FS_EmptySet
    <3> HIDE DEF F
    <3> QED BY <2>1, <2>3, <3>2
  <2>4. CASE c < t
    <3>1. Rank(S, c) < Rank(S, t)
      BY <1>1, <2>4
    <3>2. c \notin F
      BY <2>1, <2>4
    <3> HIDE DEF F
    <3> QED BY <2>1, <3>1, <3>2
  <2> QED BY <2>1, <2>2, <2>3, <2>4
<1> HIDE DEF a, len
<1>4. F = P
  <2>1. ASSUME NEW j \in a .. a + Order
        PROVE  Ascending(S)[j] \in S /\ Rank(S, Ascending(S)[j]) + 1 = j
    <3>1. j \in 1 .. len
      BY <1>1, <1>2
    <3>2. Rank(S, Ascending(S)[j]) = j - 1 /\ Ascending(S)[j] \in S
      BY <1>1, <3>1
    <3> QED BY <1>2, <3>2
  <2>2. \A c \in P : c \in F
    BY <1>3, <2>1
  <2>3. \A c \in F : c \in P
    BY <1>1, <1>3
  <2> HIDE DEF F, P
  <2> QED BY <2>2, <2>3
<1>5. Unbroken(P, S) /\ Cardinality(P) = Order + 1 /\ Ascending(S)[a] \in P /\ \A c \in P : Ascending(S)[a] <= c
  <2>1. a + Order <= Cardinality(S)
    BY <1>2 DEF len
  <2> QED BY <1>2, <2>1, ConsecutiveRun
<1>6. Ascending(S)[a] = t
  BY <1>1 DEF a
<1>7. RunFrom(S, t) = P
  BY <1>4 DEF RunFrom
<1> HIDE DEF P
<1> QED BY <1>5, <1>6, <1>7

-----------------------------------------------------------------------------
(* The operations on the polynomial maps *)

\* A fit, as the poses are now: over neighbours, and over the IMU pose if it is one of them.
FitOf(f, S, pose) == Unbroken(f.times, S) /\ f.imu = f.times \cap pose

\* The fits of a map are from the past; those of poses that are no keyframes are current.
FitsOver(map, S, kf, pose, now) ==
    \A t \in DOMAIN map : t \in Int /\ t < now /\ (t \in S \ kf => FitOf(map[t], S, pose))

\* Every pose with Order newer ones is in the map.
CompleteOver(map, S) == \A c \in S : Newer(S, c) >= Order => c \in DOMAIN map

\* A pose with Order newer ones: there are Order + 1 poses.
LEMMA EnoughPoses ==
    ASSUME NEW S \in SUBSET Int, IsFiniteSet(S), NEW c \in S, Newer(S, c) >= Order
    PROVE  Cardinality(S) >= Order + 1
<1>1. /\ Newer(S, c) = Cardinality(S) - Rank(S, c) - 1
      /\ Rank(S, c) \in 0 .. Cardinality(S) - 1 /\ Cardinality(S) \in Nat
  BY NewerCount, RankOrders, FS_CardinalityType
<1>2. Order \in Int
  BY OrderIsOdd
<1> HIDE DEF Newer, Rank
<1> QED BY <1>1, <1>2

\* add_polynomial drops the entries whose clone has left and fits the newest poses.
LEMMA AddedFacts ==
    ASSUME NEW map, Polynomials(map), NEW S \in SUBSET Int, IsFiniteSet(S), NEW pose \in SUBSET Int
    PROVE  LET new == Added(map, S, pose)
               key == Min(LastPoses(S))
           IN  /\ Polynomials(new)
               /\ \A t \in DOMAIN new :
                     /\ Cardinality(S) >= Order + 1
                     /\ \/ t = key /\ new[t] = Fit(LastPoses(S), pose)
                        \/ t # key /\ t \in DOMAIN map /\ t \in S /\ new[t] = map[t]
               /\ Cardinality(S) >= Order + 1 => DOMAIN new = (DOMAIN map \cap S) \cup {key}
<1> USE OrderIsOdd
<1> DEFINE new == Added(map, S, pose)
           key == Min(LastPoses(S))
<1>1. Cardinality(S) \in Nat
  BY FS_CardinalityType
<1>2. CASE Cardinality(S) < Order + 1
  <2>1. new = Nothing
    BY <1>2 DEF Added
  <2>2. DOMAIN new = {} /\ ~(Cardinality(S) >= Order + 1)
    BY <1>1, <1>2, <2>1 DEF Nothing
  <2> HIDE DEF new
  <2> QED BY <2>2 DEF Polynomials, new
<1>3. CASE Cardinality(S) >= Order + 1
  <2>1. new = [t \in (DOMAIN map \cap S) \cup {key} |->
                 IF t = key THEN Fit(LastPoses(S), pose) ELSE map[t]]
    BY <1>1, <1>3 DEF Added
  <2>2. /\ LastPoses(S) \in SUBSET Int /\ Cardinality(LastPoses(S)) = Order + 1
    BY <1>3, LastIsRun DEF Unbroken
  <2>3. Fit(LastPoses(S), pose) \in Fits /\ Fit(LastPoses(S), pose).times = LastPoses(S)
    BY <2>2 DEF Fit, Fits
  <2> HIDE DEF new
  <2>4. DOMAIN new = (DOMAIN map \cap S) \cup {key} /\ new[key] = Fit(LastPoses(S), pose)
        /\ \A t \in DOMAIN map \cap S : t # key => new[t] = map[t]
    BY <2>1
  <2>5. Polynomials(new)
    BY <2>2, <2>3, <2>4 DEF Polynomials
  <2> QED BY <1>3, <2>4, <2>5 DEF new
<1> QED BY <1>1, <1>2, <1>3

\* build_polynomial_data fits at every pose with enough newer ones.
LEMMA RebuiltFacts ==
    ASSUME NEW S \in SUBSET Int, IsFiniteSet(S), NEW pose \in SUBSET Int
    PROVE  LET new == Rebuilt(S, pose)
           IN  /\ Polynomials(new)
               /\ \A t \in DOMAIN new :
                     /\ t \in S /\ FitOf(new[t], S, pose)
                     /\ \E d \in S : t < d
               /\ CompleteOver(new, S)
<1> USE OrderIsOdd
<1> DEFINE new == Rebuilt(S, pose)
<1>1. Cardinality(S) \in Nat
  BY FS_CardinalityType
<1>2. CASE Cardinality(S) < Order + 1
  <2>1. new = Nothing
    BY <1>2 DEF Rebuilt
  <2>2. DOMAIN new = {}
    BY <2>1 DEF Nothing
  <2>3. \A c \in S : ~(Newer(S, c) >= Order)
    <3>1. ~(Cardinality(S) >= Order + 1)
      BY <1>1, <1>2
    <3> QED BY <3>1, EnoughPoses
  <2> HIDE DEF new
  <2> QED BY <2>2, <2>3 DEF Polynomials, CompleteOver, new
<1>3. CASE Cardinality(S) >= Order + 1
  <2>1. new = [t \in {c \in S : Newer(S, c) >= Order} |-> Fit(RunFrom(S, t), pose)]
    BY <1>1, <1>3 DEF Rebuilt, Newer, RunFrom
  <2>2. DOMAIN new = {c \in S : Newer(S, c) >= Order}
    BY <2>1
  <2>3. ASSUME NEW t \in DOMAIN new
        PROVE  /\ t \in S /\ new[t] = Fit(RunFrom(S, t), pose)
               /\ Unbroken(RunFrom(S, t), S) /\ Cardinality(RunFrom(S, t)) = Order + 1
               /\ t \in RunFrom(S, t) /\ \A c \in RunFrom(S, t) : t <= c
    <3>1. t \in S /\ Newer(S, t) >= Order
      BY <2>2
    <3> HIDE DEF new
    <3>2. new[t] = Fit(RunFrom(S, t), pose)
      BY <2>1, <2>2
    <3>3. /\ Unbroken(RunFrom(S, t), S) /\ Cardinality(RunFrom(S, t)) = Order + 1
          /\ t \in RunFrom(S, t) /\ \A c \in RunFrom(S, t) : t <= c
      BY <3>1, RebuiltIsRun
    <3> QED BY <3>1, <3>2, <3>3
  <2> HIDE DEF new
  <2>4. ASSUME NEW t \in DOMAIN new
        PROVE  /\ new[t] \in Fits /\ Cardinality(new[t].times) = Order + 1 /\ t = Min(new[t].times)
               /\ t \in S /\ FitOf(new[t], S, pose)
               /\ \E d \in S : t < d
    <3> DEFINE F == RunFrom(S, t)
    <3>1. F \in SUBSET S /\ F \in SUBSET Int /\ IsFiniteSet(F)
      <4>1. F \in SUBSET S
        BY <2>3 DEF Unbroken
      <4> HIDE DEF F
      <4> QED BY <4>1, FS_Subset
    <3>2. /\ t \in S /\ new[t] = Fit(F, pose) /\ Unbroken(F, S) /\ Cardinality(F) = Order + 1
          /\ t \in F /\ \A c \in F : t <= c
      BY <2>3
    <3> HIDE DEF F
    <3>3. t = Min(F)
      BY <3>1, <3>2, LeastIsMin
    <3>4. \E d \in F : t < d
      BY <3>1, <3>2, HasLater
    <3>5. new[t].times = F /\ new[t].imu = F \cap pose /\ new[t] \in Fits
      BY <3>1, <3>2 DEF Fit, Fits
    <3> QED BY <3>1, <3>2, <3>3, <3>4, <3>5 DEF FitOf
  <2>5. CompleteOver(new, S)
    BY <2>2 DEF CompleteOver
  <2> QED BY <2>4, <2>5 DEF Polynomials, new
<1> QED BY <1>1, <1>2, <1>3

\* The window and the poses are finite.
LEMMA PosesAreFinite ==
    ASSUME IInv, IsFiniteSet(clones) PROVE Poses \in SUBSET Int /\ IsFiniteSet(Poses)
<1>1. IsFiniteSet({stateTime})
  BY FS_Singleton
<1>2. IsFiniteSet(imuPose)
  BY <1>1, FS_Subset DEF IInv, ImuPoseIsNow
<1> QED BY <1>2, FS_Union DEF IInv, TypeOK, Poses

\* An old fit over the IMU pose is the newest one; when another pose takes the place of the
\* IMU pose it is fitted again. The others are over clones.
LEMMA OthersAreOverClones ==
    ASSUME IInv, IsFiniteSet(clones), NEW map, Polynomials(map),
           FitsOver(map, Poses, keyframes, imuPose, stateTime),
           NEW top \in Int, top \notin clones, \A c \in clones : c < top,
           NEW t \in DOMAIN map, t \in clones \ keyframes, t # Min(LastPoses(clones \cup {top}))
    PROVE  Unbroken(map[t].times, clones) /\ map[t].imu = {}
<1> DEFINE F == map[t].times
           S == clones \cup {top}
<1>1. Poses \in SUBSET Int /\ IsFiniteSet(Poses) /\ clones \in SUBSET Int
  BY PosesAreFinite DEF IInv, TypeOK
<1>2. Unbroken(F, Poses) /\ map[t].imu = F \cap imuPose /\ Cardinality(F) = Order + 1 /\ t = Min(F)
  BY DEF FitsOver, FitOf, Poses, Polynomials
<1> HIDE DEF F
<1>3. F \in SUBSET Poses /\ F \in SUBSET Int /\ IsFiniteSet(F)
  <2>1. F \in SUBSET Poses
    BY <1>2 DEF Unbroken
  <2> QED BY <1>1, <2>1, FS_Subset
<1>4. t \in F /\ \A c \in F : t <= c
  <2>1. F # {}
    <3> SUFFICES ASSUME F = {} PROVE FALSE
      OBVIOUS
    <3>1. Cardinality(F) = 0
      BY FS_EmptySet
    <3> QED BY <1>2, <3>1, OrderIsOdd
  <2> QED BY <1>2, <1>3, <2>1, MinOfFinite
<1>5. imuPose \subseteq {stateTime} /\ imuPose \cap clones = {} /\ stateTime \in Int
  BY DEF IInv, ImuPoseIsNow, TypeOK
<1>6. CASE F \cap imuPose = {}
  <2>1. F \subseteq clones
    BY <1>3, <1>6 DEF Poses
  <2> QED BY <1>2, <1>6, <2>1 DEF Unbroken, Poses, F
<1>7. CASE F \cap imuPose # {}
  <2> DEFINE rest == F \ {stateTime}
             G == rest \cup {top}
  <2>1. stateTime \in F /\ stateTime \in imuPose
    BY <1>5, <1>7
  <2>2. \A c \in clones : c < stateTime
    <3>1. initialized
      BY <2>1 DEF IInv, EmptyBeforeInit
    <3>2. \A c \in clones : c <= stateTime
      BY <3>1 DEF IInv, CaughtUp, Poses
    <3>3. \A c \in clones : c # stateTime
      BY <1>5, <2>1
    <3> QED BY <1>1, <1>5, <3>2, <3>3
  <2>3. rest \subseteq clones
    BY <1>3, <1>5 DEF Poses
  <2>4. Cardinality(G) = Order + 1
    <3>1. IsFiniteSet(rest) /\ Cardinality(rest) = Order
      <4>1. IsFiniteSet(rest) /\ Cardinality(rest) = Cardinality(F) - 1
        BY <1>3, <2>1, FS_RemoveElement
      <4> HIDE DEF rest
      <4> QED BY <1>2, <4>1, OrderIsOdd
    <3>2. top \notin rest
      BY <2>3
    <3> HIDE DEF rest
    <3> QED BY <3>1, <3>2, FS_AddElement
  <2>5. G \in SUBSET S
    BY <2>3
  <2>6. ASSUME NEW a \in G, NEW c \in S, a <= c PROVE c \in G
    <3>1. CASE c = top
      BY <3>1
    <3>2. CASE c # top
      <4>1. c \in clones /\ c \in Int /\ top \in Int /\ ~(top <= c)
        BY <1>1, <3>2
      <4>2. a \in F
        BY <2>6, <4>1
      <4>3. c <= stateTime /\ c # stateTime
        BY <1>1, <1>5, <2>2, <4>1
      <4>4. c \in F
        BY <1>2, <2>1, <2>6, <4>1, <4>2, <4>3 DEF Unbroken, Poses
      <4> QED BY <4>3, <4>4
    <3> QED BY <3>1, <3>2
  <2>7. t \in G /\ \A c \in G : t <= c
    <3>1. t \in clones /\ t < stateTime /\ t < top /\ t \in Int
      BY <1>1, <2>2
    <3>2. t \in rest
      BY <1>4, <1>5, <3>1
    <3>3. t <= top
      BY <3>1
    <3> QED BY <1>4, <3>2, <3>3
  <2>8. S \in SUBSET Int /\ IsFiniteSet(S)
    BY <1>1, FS_AddElement
  <2> HIDE DEF G, S
  <2>9. G = LastPoses(S)
    BY <2>4, <2>5, <2>6, <2>8, LastIsOnlyOne
  <2>10. Min(G) = t
    <3>1. G \in SUBSET Int
      BY <2>5, <2>8
    <3> QED BY <2>7, <3>1, LeastIsMin
  <2> QED BY <2>9, <2>10 DEF S
<1> QED BY <1>6, <1>7

-----------------------------------------------------------------------------
(* The polynomials after an IMU message *)

\* More poses, more newer ones.
LEMMA NewerGrows ==
    ASSUME NEW R \in SUBSET Int, IsFiniteSet(R), NEW S \in SUBSET R, NEW c
    PROVE  /\ Newer(S, c) \in Nat /\ Newer(R, c) \in Nat /\ Newer(S, c) <= Newer(R, c)
           /\ \A x : R \subseteq S \cup {x} => Newer(R, c) <= Newer(S, c) + 1
<1> DEFINE r == {d \in R : d > c}
           s == {d \in S : d > c}
<1>1. r \in SUBSET R /\ s \in SUBSET r
  OBVIOUS
<1>2. ASSUME NEW x, R \subseteq S \cup {x} PROVE r \in SUBSET (s \cup {x})
  BY <1>2
<1> HIDE DEF r, s
<1>3. IsFiniteSet(r) /\ IsFiniteSet(s) /\ Cardinality(s) <= Cardinality(r)
  BY <1>1, FS_Subset
<1>4. Cardinality(r) \in Nat /\ Cardinality(s) \in Nat
  BY <1>3, FS_CardinalityType
<1>5. ASSUME NEW x, R \subseteq S \cup {x} PROVE Cardinality(r) <= Cardinality(s) + 1
  <2>1. IsFiniteSet(s \cup {x}) /\ Cardinality(s \cup {x}) <= Cardinality(s) + 1
    <3>1. Cardinality(s \cup {x}) = IF x \in s THEN Cardinality(s) ELSE Cardinality(s) + 1
      BY <1>3, FS_AddElement
    <3> QED BY <1>3, <1>4, <3>1, FS_AddElement
  <2>2. Cardinality(r) <= Cardinality(s \cup {x})
    BY <1>2, <1>5, <2>1, FS_Subset
  <2>3. Cardinality(s \cup {x}) \in Nat
    BY <2>1, FS_CardinalityType
  <2> QED BY <1>4, <2>1, <2>2, <2>3
<1> QED BY <1>3, <1>4, <1>5 DEF Newer, r, s

\* What the maps have to be before the last fit of the handler.
ReadyMap(map) ==
    /\ Polynomials(map)
    /\ \A t \in DOMAIN map :
          /\ t < stateTime'
          /\ t \in clones' \ keyframes' /\ t # Min(LastPoses(Poses')) =>
                Unbroken(map[t].times, clones \cup clones') /\ map[t].imu = {}

\* The last fit of the handler: afterwards every fit is of the poses there are.
LEMMA LastFit ==
    ASSUME IInv, IInv', NoGt, IsFiniteSet(clones), ImuStep, initialized', NEW map, ReadyMap(map)
    PROVE  LET new == Added(map, clones' \cup imuPose', imuPose')
           IN  /\ Polynomials(new)
               /\ FitsOver(new, Poses', keyframes', imuPose', stateTime')
               /\ (\A c \in clones' : Newer(clones', c) >= Order => c \in DOMAIN map)
                    => CompleteOver(new, Poses')
<1> DEFINE S == clones' \cup imuPose'
           new == Added(map, S, imuPose')
           key == Min(LastPoses(S))
<1> USE OrderIsOdd
<1>1. IsFiniteSet(clones') /\ IsFiniteSet(clones \cup clones')
  BY FiniteStays, FS_Union
<1>2. /\ S \in SUBSET Int /\ IsFiniteSet(S) /\ S = Poses' /\ stateTime' \in Int
      /\ imuPose' \in SUBSET Int /\ clones' \in SUBSET Int /\ clones \in SUBSET Int
      /\ imuPose' \subseteq {stateTime'} /\ imuPose' \cap clones' = {}
      /\ \A c \in S : c <= stateTime'
  <2>1. IsFiniteSet({stateTime'})
    BY FS_Singleton
  <2>2. IsFiniteSet(imuPose')
    BY <2>1, FS_Subset DEF IInv, ImuPoseIsNow
  <2>3. IsFiniteSet(S)
    BY <1>1, <2>2, FS_Union
  <2> QED BY <2>3 DEF IInv, TypeOK, Poses, ImuPoseIsNow, CaughtUp
<1> HIDE DEF S
<1>3. /\ Polynomials(new)
      /\ \A t \in DOMAIN new :
            /\ Cardinality(S) >= Order + 1
            /\ \/ t = key /\ new[t] = Fit(LastPoses(S), imuPose')
               \/ t # key /\ t \in DOMAIN map /\ t \in S /\ new[t] = map[t]
      /\ Cardinality(S) >= Order + 1 => DOMAIN new = (DOMAIN map \cap S) \cup {key}
  <2>1. Polynomials(map)
    BY DEF ReadyMap
  <2>2. S \in SUBSET Int /\ IsFiniteSet(S) /\ imuPose' \in SUBSET Int
    BY <1>2
  <2> QED BY <2>1, <2>2, AddedFacts
<1> HIDE DEF new, key
<1>4. ASSUME NEW t \in DOMAIN new
      PROVE  t \in Int /\ t < stateTime' /\ (t \in S \ keyframes' => FitOf(new[t], S, imuPose'))
  <2>1. CASE t = key /\ new[t] = Fit(LastPoses(S), imuPose')
    <3> DEFINE L == LastPoses(S)
    <3>1. Unbroken(L, S) /\ Cardinality(L) = Order + 1 /\ key \in L /\ \A c \in L : key <= c
      BY <1>2, <1>3, LastIsRun DEF key
    <3> HIDE DEF L
    <3>2. L \in SUBSET S /\ L \in SUBSET Int /\ IsFiniteSet(L)
      BY <1>2, <3>1, FS_Subset DEF Unbroken
    <3>3. PICK d \in L : key < d
      BY <3>1, <3>2, HasLater
    <3>4. t < stateTime'
      <4>1. d \in Int /\ key \in Int /\ d <= stateTime'
        BY <1>2, <3>1, <3>2
      <4> QED BY <1>2, <2>1, <3>3, <4>1
    <3>5. t \in Int
      BY <2>1, <3>1, <3>2
    <3> QED BY <2>1, <3>1, <3>4, <3>5 DEF FitOf, Fit, L
  <2>2. CASE t # key /\ t \in DOMAIN map /\ t \in S /\ new[t] = map[t]
    <3> DEFINE F == map[t].times
    <3>1. t < stateTime' /\ t \in clones'
      <4>1. t < stateTime'
        BY <2>2 DEF ReadyMap
      <4>2. t # stateTime'
        BY <1>2, <4>1
      <4> QED BY <1>2, <2>2, <4>1, <4>2 DEF S
    <3>2. ASSUME t \notin keyframes' PROVE FitOf(new[t], S, imuPose')
      <4>1. Unbroken(F, clones \cup clones') /\ map[t].imu = {} /\ t = Min(F) /\ Cardinality(F) = Order + 1
        BY <1>2, <2>2, <3>1, <3>2 DEF ReadyMap, Polynomials, key
      <4> HIDE DEF F
      <4>2. F \in SUBSET (clones \cup clones') /\ F \in SUBSET Int /\ IsFiniteSet(F)
        BY <1>1, <1>2, <4>1, FS_Subset DEF Unbroken
      <4>3. \A c \in F : t <= c
        BY <4>1, <4>2, MinOfFinite
      <4>4. ASSUME NEW c \in F PROVE c \in clones'
        <5> SUFFICES ASSUME c \in clones \ clones' PROVE FALSE
          BY <4>2
        <5>1. c < t
          BY <1>2, <2>2, <3>2, LeavingIsBehind DEF OtherStep
        <5>2. c \in Int /\ t \in Int /\ t <= c
          BY <1>2, <3>1, <4>2, <4>3
        <5> QED BY <5>1, <5>2
      <4>5. Unbroken(F, S)
        <5> SUFFICES ASSUME NEW c \in S, NEW a \in F, a <= c, NEW b \in F, c <= b PROVE c \in F
          BY <4>4 DEF Unbroken, S
        <5>1. CASE c \in clones'
          BY <4>1, <5>1 DEF Unbroken
        <5>2. CASE c \in imuPose'
          <6>1. c = stateTime' /\ b <= stateTime' /\ b \in clones' /\ b \in Int
            BY <1>2, <4>4, <5>2 DEF S
          <6>2. b = c
            BY <1>2, <6>1
          <6> QED BY <6>2
        <5> QED BY <5>1, <5>2 DEF S
      <4>6. F \cap imuPose' = {}
        BY <1>2, <4>4
      <4> QED BY <2>2, <4>1, <4>5, <4>6 DEF FitOf, F
    <3>3. t \in Int
      BY <1>2, <2>2
    <3> QED BY <3>1, <3>2, <3>3
  <2> QED BY <1>3, <2>1, <2>2
<1>5. ASSUME \A c \in clones' : Newer(clones', c) >= Order => c \in DOMAIN map,
             NEW c \in S, Newer(S, c) >= Order
      PROVE  c \in DOMAIN new
  <2>1. Cardinality(S) >= Order + 1
    BY <1>2, <1>5, EnoughPoses
  <2>2. CASE Newer(S, c) = Order
    <3>1. c = key
      BY <1>2, <2>2, KeyOfLast DEF key
    <3> QED BY <1>3, <2>1, <3>1
  <2>3. CASE Newer(S, c) # Order
    <3>1. Newer(S, c) \in Nat
      BY <1>2, NewerGrows
    <3>2. c \in clones'
      <4> SUFFICES ASSUME c = stateTime' PROVE FALSE
        BY <1>2 DEF S
      <4>1. \A d \in S : ~(d > c)
        BY <1>2
      <4>2. {d \in S : d > c} = {}
        BY <4>1
      <4>3. Newer(S, c) = 0
        BY <4>2, FS_EmptySet DEF Newer
      <4> QED BY <1>5, <4>3
    <3>3. Newer(S, c) <= Newer(clones', c) + 1 /\ Newer(clones', c) \in Nat
      <4>1. S \subseteq clones' \cup {stateTime'} /\ clones' \in SUBSET S
        BY <1>2 DEF S
      <4> QED BY <1>2, <4>1, NewerGrows
    <3>4. Newer(clones', c) >= Order
      BY <1>5, <2>3, <3>1, <3>3
    <3> QED BY <1>3, <1>5, <2>1, <3>2, <3>4
  <2> QED BY <2>2, <2>3
<1> QED BY <1>2, <1>3, <1>4, <1>5 DEF FitsOver, CompleteOver, new, S

-----------------------------------------------------------------------------
(* The window inside *)

\* A step of the composed system is a step of its window.
LEMMA StepsOfWindow ==
    /\ CacheImu => ImuStep
    /\ CacheSensor \/ CacheGnss \/ CacheGnssInit \/ CacheWheel => OtherStep
    /\ [CacheNext]_cacheVars => [Next]_vars
<1>1. CacheImu => ImuStep
  BY DEF CacheImu
<1>2. CacheSensor \/ CacheGnss \/ CacheGnssInit \/ CacheWheel => OtherStep
  BY DEF CacheSensor, CacheGnss, CacheGnssInit, CacheWheel, OtherStep, SensorStep
<1>3. [CacheNext]_cacheVars => [Next]_vars
  BY <1>1, <1>2, StepsAreNext DEF CacheNext, cacheVars
<1> QED BY <1>1, <1>2, <1>3

\* The system with its caches implements the sliding window: everything proved of
\* SlidingWindow holds in it.
THEOREM CacheImplementsWindow == CacheSpec => Spec
<1>1. CacheInit => Init
  BY DEF CacheInit
<1> QED BY <1>1, StepsOfWindow, PTL DEF CacheSpec, Spec

-----------------------------------------------------------------------------
(* Every step preserves the invariant *)

\* The Jacobians: at times, and over times.
JacobiansOK == \A k \in DOMAIN jacobians : k[1] \in Drivers /\ k[2] \in Int /\ jacobians[k] \in Fits

\* The inductive invariant, on top of the window's: the fits of both maps are of the poses,
\* apart from those that start at a keyframe or a pose that has left, and both maps have
\* a fit for every window.
CacheInv ==
    /\ IsFiniteSet(clones)
    /\ KeyframesBehind
    /\ Polynomials(fej) /\ Polynomials(est)
    /\ FitsOver(fej, Poses, keyframes, imuPose, stateTime)
    /\ FitsOver(est, Poses, keyframes, imuPose, stateTime)
    /\ CompleteOver(fej, Poses) /\ CompleteOver(est, Poses)
    /\ initialized \/ (DOMAIN fej = {} /\ DOMAIN est = {})
    /\ JacobiansOK

\* add_polynomial after a new clone: every pose with Order newer ones has a fit, as it had
\* before the clone or as it is the one fitted now.
LEMMA AddedCompletes ==
    ASSUME IInv, CacheInv, NEW ct \in Int, \A c \in clones : c < ct
    PROVE  CompleteOver(Added(fej, clones \cup {ct}, {}), clones \cup {ct})
<1> DEFINE S == clones \cup {ct}
           new == Added(fej, S, {})
           key == Min(LastPoses(S))
<1>1. /\ clones \in SUBSET Int /\ S \in SUBSET Int /\ IsFiniteSet(S)
      /\ Poses \in SUBSET Int /\ IsFiniteSet(Poses) /\ clones \in SUBSET Poses
  <2>1. IsFiniteSet(clones) /\ IsFiniteSet(S) /\ clones \in SUBSET Int
    BY FS_AddElement DEF CacheInv, IInv, TypeOK
  <2> QED BY <2>1, PosesAreFinite DEF Poses
<1>2. \A c \in S : c <= ct
  BY <1>1
<1>3. Cardinality(S) >= Order + 1 => DOMAIN new = (DOMAIN fej \cap S) \cup {key}
  <2>1. Polynomials(fej) /\ {} \in SUBSET Int
    BY DEF CacheInv
  <2> HIDE DEF S
  <2> QED BY <1>1, <2>1, AddedFacts
<1> HIDE DEF new, key
<1> SUFFICES ASSUME NEW c \in S, Newer(S, c) >= Order PROVE c \in DOMAIN new
  BY DEF CompleteOver, new
<1>4. DOMAIN new = (DOMAIN fej \cap S) \cup {key}
  BY <1>1, <1>3, EnoughPoses
<1>5. CASE Newer(S, c) = Order
  BY <1>1, <1>4, <1>5, KeyOfLast DEF key
<1>6. CASE Newer(S, c) # Order
  <2>1. c # ct
    <3> SUFFICES ASSUME c = ct PROVE FALSE
      OBVIOUS
    <3>1. {d \in S : d > c} = {}
      <4> SUFFICES ASSUME NEW d \in S PROVE ~(d > ct)
        OBVIOUS
      <4>1. d <= ct /\ d \in Int
        BY <1>1, <1>2
      <4> QED BY <4>1
    <3>2. Newer(S, c) = 0
      BY <3>1, FS_EmptySet DEF Newer
    <3> QED BY <3>2, OrderIsOdd
  <2>2. /\ Newer(S, c) \in Nat /\ Newer(clones, c) \in Nat /\ Newer(S, c) <= Newer(clones, c) + 1
        /\ Newer(Poses, c) \in Nat /\ Newer(clones, c) <= Newer(Poses, c)
    BY <1>1, NewerGrows
  <2>3. Newer(Poses, c) >= Order
    BY <1>6, <2>2, OrderIsOdd
  <2>4. c \in DOMAIN fej
    BY <2>1, <2>3 DEF CacheInv, CompleteOver, Poses
  <2> QED BY <1>4, <2>4
<1> QED BY <1>5, <1>6

\* The IMU handler, the polynomials.
LEMMA PolynomialsAfterImu ==
    ASSUME IInv, IInv', NoGt, CacheInv, CacheImu, initialized'
    PROVE  /\ Polynomials(fej') /\ Polynomials(est')
           /\ FitsOver(fej', Poses', keyframes', imuPose', stateTime')
           /\ FitsOver(est', Poses', keyframes', imuPose', stateTime')
           /\ CompleteOver(fej', Poses') /\ CompleteOver(est', Poses')
<1>1. ImuStep
  BY StepsOfWindow
<1>2. PICK m \in ImuStamps : ImuMessage(m)
  BY <1>1 DEF ImuStep
<1>3. /\ clones \in SUBSET Int /\ clones' \in SUBSET Int /\ stateTime \in Int /\ stateTime' \in Int
      /\ IsFiniteSet(clones) /\ IsFiniteSet(clones') /\ m \in Int
  BY <1>1, FiniteStays, StampsAreTimes DEF IInv, TypeOK, CacheInv
<1>4. stateTime' = m /\ (initialized => stateTime < m)
  BY <1>2, ArrivesAtMessage
<1>5. CASE clones' \ clones = {}
  <2>1. ~InitFails(m) \/ ~initialized'
    BY DEF InitFails
  <2>2. /\ initialized /\ clones' = clones /\ keyframes' = keyframes
    BY <1>2, <1>5, <2>1, TailOfHandler
  <2>3. (\A c \in clones : c < m) /\ m \notin clones
    <3>1. \A c \in clones : c <= stateTime
      BY <2>2 DEF IInv, CaughtUp, Poses
    <3>2. \A c \in clones : c < m
      BY <1>3, <1>4, <2>2, <3>1
    <3> QED BY <1>3, <3>2
  <2>4. Poses' = clones \cup {m}
    BY <1>4, <2>2, <2>3 DEF IInv, CaughtUp, Poses, ImuPoseIsNow
  <2>5. ASSUME NEW map, Polynomials(map), FitsOver(map, Poses, keyframes, imuPose, stateTime)
        PROVE  ReadyMap(map)
    <3>1. ASSUME NEW t \in DOMAIN map, t \in clones' \ keyframes', t # Min(LastPoses(Poses'))
          PROVE  Unbroken(map[t].times, clones \cup clones') /\ map[t].imu = {}
      <4>1. t \in clones \ keyframes /\ t # Min(LastPoses(clones \cup {m}))
        BY <2>2, <2>4, <3>1
      <4>2. Unbroken(map[t].times, clones) /\ map[t].imu = {}
        BY <1>3, <2>3, <2>5, <4>1, OthersAreOverClones
      <4> QED BY <2>2, <4>2
    <3>2. ASSUME NEW t \in DOMAIN map PROVE t < stateTime'
      <4>1. t < stateTime
        BY <2>5 DEF FitsOver
      <4>2. t \in Int
        BY <2>5 DEF FitsOver
      <4> QED BY <1>3, <1>4, <2>2, <4>1, <4>2
    <3> QED BY <2>5, <3>1, <3>2 DEF ReadyMap
  <2>6. /\ fej' = Added(fej, clones' \cup imuPose', imuPose')
        /\ est' = Added(est, clones' \cup imuPose', imuPose')
    BY <1>5 DEF CacheImu, ImuPolynomials
  <2>7. \A c \in clones' : Newer(clones', c) >= Order => c \in DOMAIN fej /\ c \in DOMAIN est
    <3> SUFFICES ASSUME NEW c \in clones, Newer(clones, c) >= Order
                 PROVE  c \in DOMAIN fej /\ c \in DOMAIN est
      BY <2>2
    <3>1. Newer(Poses, c) \in Nat /\ Newer(clones, c) \in Nat /\ Newer(clones, c) <= Newer(Poses, c)
      <4>1. Poses \in SUBSET Int /\ IsFiniteSet(Poses) /\ clones \in SUBSET Poses
        BY <1>3, PosesAreFinite DEF Poses
      <4> QED BY <4>1, NewerGrows
    <3>2. Newer(Poses, c) >= Order
      BY <3>1, OrderIsOdd
    <3> QED BY <3>2 DEF CacheInv, CompleteOver, Poses
  <2>8. ReadyMap(fej) /\ ReadyMap(est)
    BY <2>5 DEF CacheInv
  <2> QED BY <1>1, <1>3, <2>6, <2>7, <2>8, LastFit
<1>6. CASE clones' \ clones # {}
  <2>1. PICK ct : clones' \ clones = {ct}
    BY <1>1, <1>6, OneCloneAdded
  <2> DEFINE S == clones \cup {ct}
             fej1 == Added(fej, S, {})
             est1 == Rebuilt(S, {})
  <2>2. ct \in Int /\ ct <= stateTime' /\ ct \notin clones /\ ct \in clones'
    BY <1>2, <2>1, NewCloneFacts
  <2>3. /\ \A c \in clones : c < ct
        /\ initialized => stateTime <= ct
        /\ keyframes \subseteq keyframes'
    BY <1>1, <2>1, StepsAreNext, StepPreserves DEF Preserved, NewestClone
  <2>4. S \in SUBSET Int /\ IsFiniteSet(S) /\ S = clones \cup clones' /\ clones' \in SUBSET S
        /\ \A c \in S : c <= ct
    <3>1. IsFiniteSet(S)
      BY <1>3, FS_AddElement
    <3>2. \A c \in S : c <= ct
      BY <1>3, <2>2, <2>3
    <3> QED BY <1>3, <2>1, <2>2, <3>1, <3>2
  <2>5. /\ fej' = Added(fej1, clones' \cup imuPose', imuPose')
        /\ est' = Added(est1, clones' \cup imuPose', imuPose')
    BY <1>6, <2>1 DEF CacheImu, ImuPolynomials
  <2> HIDE DEF S
  <2>6. ReadyMap(est1) /\ \A c \in clones' : Newer(clones', c) >= Order => c \in DOMAIN est1
    <3>1. /\ Polynomials(est1)
          /\ \A t \in DOMAIN est1 : t \in S /\ FitOf(est1[t], S, {}) /\ \E d \in S : t < d
          /\ CompleteOver(est1, S)
      BY <2>4, RebuiltFacts
    <3> HIDE DEF est1
    <3>2. ASSUME NEW t \in DOMAIN est1 PROVE t < stateTime'
      <4>1. PICK d \in S : t < d
        BY <3>1
      <4>2. t \in Int /\ d \in Int /\ d <= ct
        BY <2>4, <3>1
      <4> QED BY <1>3, <2>2, <4>1, <4>2
    <3>3. \A t \in DOMAIN est1 : Unbroken(est1[t].times, clones \cup clones') /\ est1[t].imu = {}
      BY <2>4, <3>1 DEF FitOf
    <3>4. ASSUME NEW c \in clones', Newer(clones', c) >= Order PROVE c \in DOMAIN est1
      <4>1. Newer(S, c) \in Nat /\ Newer(clones', c) \in Nat /\ Newer(clones', c) <= Newer(S, c)
        BY <2>4, NewerGrows
      <4>2. Newer(S, c) >= Order
        BY <3>4, <4>1, OrderIsOdd
      <4> QED BY <2>4, <3>1, <4>2 DEF CompleteOver
    <3> QED BY <3>1, <3>2, <3>3, <3>4 DEF ReadyMap
  <2>7. ReadyMap(fej1) /\ \A c \in clones' : Newer(clones', c) >= Order => c \in DOMAIN fej1
    <3> DEFINE key == Min(LastPoses(S))
    <3>1. /\ Polynomials(fej1)
          /\ \A t \in DOMAIN fej1 :
                /\ Cardinality(S) >= Order + 1
                /\ \/ t = key /\ fej1[t] = Fit(LastPoses(S), {})
                   \/ t # key /\ t \in DOMAIN fej /\ t \in S /\ fej1[t] = fej[t]
          /\ Cardinality(S) >= Order + 1 => DOMAIN fej1 = (DOMAIN fej \cap S) \cup {key}
      <4>1. Polynomials(fej) /\ {} \in SUBSET Int
        BY DEF CacheInv
      <4> QED BY <2>4, <4>1, AddedFacts
    <3> HIDE DEF fej1, key
    <3>2. ASSUME NEW t \in DOMAIN fej1
          PROVE  /\ t < stateTime'
                 /\ t \in clones' \ keyframes' => Unbroken(fej1[t].times, S) /\ fej1[t].imu = {}
      <4>1. CASE t = key /\ fej1[t] = Fit(LastPoses(S), {})
        <5> DEFINE L == LastPoses(S)
        <5>1. Unbroken(L, S) /\ Cardinality(L) = Order + 1 /\ key \in L /\ \A c \in L : key <= c
          BY <2>4, <3>1, LastIsRun DEF key
        <5> HIDE DEF L
        <5>2. L \in SUBSET S /\ L \in SUBSET Int /\ IsFiniteSet(L)
          BY <2>4, <5>1, FS_Subset DEF Unbroken
        <5>3. PICK d \in L : key < d
          BY <5>1, <5>2, HasLater
        <5>4. t < stateTime'
          <6>1. d \in Int /\ key \in Int /\ d <= ct
            BY <2>4, <5>1, <5>2
          <6> QED BY <1>3, <2>2, <4>1, <5>3, <6>1
        <5> QED BY <4>1, <5>1, <5>4 DEF Fit, L
      <4>2. CASE t # key /\ t \in DOMAIN fej /\ t \in S /\ fej1[t] = fej[t]
        <5>1. t < stateTime /\ initialized
          BY <4>2 DEF CacheInv, FitsOver
        <5>2. t \in Int /\ t < stateTime' /\ t # ct
          <6>1. t \in Int
            BY <2>4, <4>2
          <6>2. stateTime < stateTime' /\ stateTime <= ct
            BY <1>4, <2>3, <5>1
          <6> QED BY <1>3, <2>2, <5>1, <6>1, <6>2
        <5>3. t \in clones
          BY <4>2, <5>2 DEF S
        <5>4. ASSUME t \in clones' \ keyframes' PROVE Unbroken(fej1[t].times, S) /\ fej1[t].imu = {}
          <6>1. t \in clones \ keyframes
            BY <2>3, <5>3, <5>4
          <6>2. Unbroken(fej[t].times, clones) /\ fej[t].imu = {}
            BY <1>3, <2>2, <2>3, <4>2, <6>1, OthersAreOverClones DEF CacheInv, key, S
          <6>3. Unbroken(fej[t].times, S)
            <7>1. ASSUME NEW b \in fej[t].times PROVE ~(ct <= b)
              <8>1. b \in clones
                BY <6>2 DEF Unbroken
              <8> QED BY <1>3, <2>2, <2>3, <8>1
            <7> QED BY <6>2, <7>1 DEF Unbroken, S
          <6> QED BY <4>2, <6>2, <6>3
        <5> QED BY <5>2, <5>4
      <4> QED BY <3>1, <4>1, <4>2
    <3>3. ASSUME NEW c \in clones', Newer(clones', c) >= Order PROVE c \in DOMAIN fej1
      <4>1. Newer(S, c) \in Nat /\ Newer(clones', c) \in Nat /\ Newer(clones', c) <= Newer(S, c)
        BY <2>4, NewerGrows
      <4>2. Newer(S, c) >= Order /\ c \in S
        BY <2>4, <3>3, <4>1, OrderIsOdd
      <4>3. CompleteOver(fej1, S)
        BY <2>2, <2>3, AddedCompletes DEF fej1, S
      <4> QED BY <4>2, <4>3 DEF CompleteOver
    <3> QED BY <2>4, <3>1, <3>2, <3>3 DEF ReadyMap
  <2> HIDE DEF fej1, est1
  <2> QED BY <1>1, <1>3, <2>5, <2>6, <2>7, LastFit
<1> QED BY <1>5, <1>6

\* flush_old_data leaves nothing that is older than the oldest pose, the tolerance allowed
\* for: an entry stays only because one not newer than it is young enough.
LEMMA FlushedIsYoung ==
    ASSUME JacobiansOK, NEW oldest \in Int
    PROVE  LET left == FlushedJacobians(oldest)
           IN  \A k \in DOMAIN left :
                  k \in DOMAIN jacobians /\ left[k] = jacobians[k] /\ k[2] + DtExp >= oldest
<1> USE ToleranceIsNatural
<1>1. DOMAIN FlushedJacobians(oldest) =
        {k \in DOMAIN jacobians :
           \E j \in DOMAIN jacobians : j[1] = k[1] /\ j[2] <= k[2] /\ oldest <= j[2] + DtExp}
  BY DEF FlushedJacobians, Restrict
<1>2. ASSUME NEW k \in DOMAIN jacobians, NEW j \in DOMAIN jacobians, j[2] <= k[2], oldest <= j[2] + DtExp
      PROVE  k[2] + DtExp >= oldest
  <2>1. k[2] \in Int /\ j[2] \in Int /\ DtExp \in Nat
    BY DEF JacobiansOK
  <2> QED BY <1>2, <2>1
<1>3. \A k \in DOMAIN FlushedJacobians(oldest) : FlushedJacobians(oldest)[k] = jacobians[k]
  BY DEF FlushedJacobians, Restrict
<1> QED BY <1>1, <1>2, <1>3

\* The IMU handler: the flush belongs to the clone.
LEMMA JacobiansAfterImu ==
    ASSUME IInv', IsFiniteSet(clones), JacobiansOK, CacheImu
    PROVE  /\ JacobiansOK'
           /\ clones' \ clones # {} => \A k \in DOMAIN jacobians' : k[2] + DtExp >= Min(clones')
<1>1. IsFiniteSet(clones')
  BY StepsOfWindow, FiniteStays
<1>2. CASE clones' \ clones = {}
  <2>1. jacobians' = jacobians
    BY <1>2 DEF CacheImu
  <2> QED BY <1>2, <2>1 DEF JacobiansOK
<1>3. CASE clones' \ clones # {}
  <2>1. jacobians' = FlushedJacobians(Min(clones'))
    BY <1>3 DEF CacheImu
  <2>2. Min(clones') \in Int
    <3>1. clones' \in SUBSET Int
      BY DEF IInv, TypeOK
    <3> QED BY <1>1, <1>3, <3>1, MinOfFinite
  <2>3. \A k \in DOMAIN jacobians' :
           k \in DOMAIN jacobians /\ jacobians'[k] = jacobians[k] /\ k[2] + DtExp >= Min(clones')
    BY <2>1, <2>2, FlushedIsYoung
  <2> QED BY <2>3 DEF JacobiansOK
<1> QED BY <1>2, <1>3

\* The times an updater interpolates at are times.
LEMMA WantedAreTimes ==
    ASSUME IInv, IInv', NEW s \in Drivers PROVE Wanted(s) \subseteq Int
<1> USE StampsAreTimes
<1>1. /\ hist'[s] \in SUBSET SensorStamps
      /\ offset[s] \in Offsets /\ offset'[s] \in Offsets
  BY DEF IInv, TypeOK
<1>2. hist'[s] \in SUBSET Int /\ offset[s] \in Int /\ offset'[s] \in Int
  BY <1>1
<1> QED BY <1>2 DEF Wanted

\* An interpolation is taken over a run of Order + 1 poses, or none.
LEMMA AroundIsRun ==
    ASSUME IInv, IsFiniteSet(clones), NEW t
    PROVE  /\ Around(t) \in SUBSET Poses
           /\ Around(t) # {} => Unbroken(Around(t), Poses) /\ Cardinality(Around(t)) = Order + 1
<1>1. Poses \in SUBSET Int /\ IsFiniteSet(Poses)
  BY PosesAreFinite
<1>2. Around(t) # {} => Unbroken(Around(t), Poses) /\ Cardinality(Around(t)) = Order + 1
  BY <1>1, OrderIsOdd, BoundingIsRun DEF Around
<1> QED BY <1>2 DEF Unbroken

\* A handler that interpolates adds entries, at times, over the poses.
LEMMA JacobiansAfterOthers ==
    ASSUME IInv, IInv', IsFiniteSet(clones), JacobiansOK, NEW s \in Drivers, Interpolates(s)
    PROVE  JacobiansOK'
<1>1. PICK Q \in SUBSET Wanted(s) : jacobians' = Cached(s, Q)
  BY DEF Interpolates
<1> DEFINE new == {<<s, t>> : t \in {u \in Q : Computes(s, u)}}
<1>2. jacobians' = [k \in DOMAIN jacobians \cup new |->
                      IF k \in new THEN Fit(Around(k[2]), imuPose) ELSE jacobians[k]]
  BY <1>1 DEF Cached
<1>3. \A k \in new : k[1] \in Drivers /\ k[2] \in Int
  BY WantedAreTimes
<1>4. ASSUME NEW t PROVE Fit(Around(t), imuPose) \in Fits
  <2>1. Around(t) \in SUBSET Int
    BY AroundIsRun, PosesAreFinite
  <2> QED BY <2>1 DEF Fit, Fits
<1> HIDE DEF new
<1> QED BY <1>2, <1>3, <1>4 DEF JacobiansOK

\* A fit that is of the poses stays so as long as its key does: what leaves is older.
LEMMA FitsStay ==
    ASSUME IInv, IInv', NoGt, CacheInv, OtherStep, NEW map, Polynomials(map),
           FitsOver(map, Poses, keyframes, imuPose, stateTime)
    PROVE  FitsOver(map, Poses', keyframes', imuPose', stateTime')
<1>1. /\ stateTime' = stateTime /\ imuPose' = imuPose /\ clones' \subseteq clones
      /\ \/ keyframes' = keyframes
         \/ keyframes' = {} /\ \A c \in clones' : stateTime - c <= Window
  BY OtherHandlers, NoCloneAdded
<1>2. Poses \in SUBSET Int /\ IsFiniteSet(Poses) /\ stateTime \in Int
  BY PosesAreFinite DEF CacheInv, IInv, TypeOK
<1> SUFFICES ASSUME NEW t \in DOMAIN map, t \in Poses' \ keyframes'
             PROVE  FitOf(map[t], Poses', imuPose')
  BY <1>1 DEF FitsOver
<1>3. t \in Poses \ keyframes
  <2>1. t \in Poses
    BY <1>1 DEF Poses
  <2>2. ASSUME t \in keyframes PROVE FALSE
    <3>1. keyframes' = {} /\ t \in clones' /\ t \in Int
      BY <1>1, <1>2, <2>1, <2>2 DEF IInv, KeyframesHeld, ImuPoseIsNow, Poses
    <3>2. stateTime - t > Window /\ stateTime - t <= Window
      BY <1>1, <2>2, <3>1 DEF CacheInv, KeyframesBehind
    <3> QED BY <1>2, <3>1, <3>2, LimitsAreNatural
  <2> QED BY <2>1, <2>2
<1> DEFINE F == map[t].times
<1>4. Unbroken(F, Poses) /\ map[t].imu = F \cap imuPose /\ Cardinality(F) = Order + 1 /\ t = Min(F)
  BY <1>3 DEF FitsOver, FitOf, Polynomials
<1> HIDE DEF F
<1>5. F \in SUBSET Poses /\ F \in SUBSET Int /\ IsFiniteSet(F)
  <2>1. F \in SUBSET Poses
    BY <1>4 DEF Unbroken
  <2> QED BY <1>2, <2>1, FS_Subset
<1>6. ASSUME NEW c \in F PROVE c \in Poses'
  <2> SUFFICES ASSUME c \in clones \ clones' PROVE FALSE
    BY <1>1, <1>5 DEF Poses
  <2>1. c < t
    BY LeavingIsBehind
  <2>2. t <= c /\ t \in Int /\ c \in Int
    BY <1>2, <1>3, <1>4, <1>5, MinOfFinite
  <2> QED BY <2>1, <2>2
<1>7. Unbroken(F, Poses')
  BY <1>1, <1>4, <1>6 DEF Unbroken, Poses
<1> QED BY <1>1, <1>4, <1>7 DEF FitOf, F

\* Poses that leave take no fit with them that is asked for.
LEMMA CompleteStays ==
    ASSUME IInv, CacheInv, OtherStep, NEW map, CompleteOver(map, Poses) PROVE CompleteOver(map, Poses')
<1>1. Poses \in SUBSET Int /\ IsFiniteSet(Poses) /\ Poses' \in SUBSET Poses
  BY PosesAreFinite, OtherHandlers, NoCloneAdded DEF CacheInv, Poses
<1> SUFFICES ASSUME NEW c \in Poses', Newer(Poses', c) >= Order PROVE c \in DOMAIN map
  BY DEF CompleteOver
<1>2. Newer(Poses', c) \in Nat /\ Newer(Poses, c) \in Nat /\ Newer(Poses', c) <= Newer(Poses, c)
  BY <1>1, NewerGrows
<1>3. Newer(Poses, c) >= Order
  BY <1>2, OrderIsOdd
<1> QED BY <1>1, <1>3 DEF CompleteOver

\* A handler that may refit the estimates: the polynomials.
LEMMA PolynomialsAfterOthers ==
    ASSUME IInv, IInv', NoGt, CacheInv, OtherStep, UNCHANGED <<fej, est>> \/ Refitted
    PROVE  /\ Polynomials(fej') /\ Polynomials(est')
           /\ FitsOver(fej', Poses', keyframes', imuPose', stateTime')
           /\ FitsOver(est', Poses', keyframes', imuPose', stateTime')
           /\ CompleteOver(fej', Poses') /\ CompleteOver(est', Poses')
           /\ initialized' \/ (DOMAIN fej' = {} /\ DOMAIN est' = {})
<1>1. initialized' = initialized
  BY OtherHandlers
<1>2. Polynomials(Nothing) /\ FitsOver(Nothing, Poses, keyframes, imuPose, stateTime) /\ DOMAIN Nothing = {}
  <2>1. DOMAIN Nothing = {}
    BY DEF Nothing
  <2> QED BY <2>1 DEF Polynomials, FitsOver
<1>3. /\ Polynomials(fej') /\ FitsOver(fej', Poses, keyframes, imuPose, stateTime) /\ CompleteOver(fej', Poses)
      /\ initialized \/ DOMAIN fej' = {}
  <2>1. CASE fej' = fej
    BY <2>1 DEF CacheInv
  <2>2. CASE fej' = Nothing /\ Cardinality(Poses) < Order + 1
    <3>1. Poses \in SUBSET Int /\ IsFiniteSet(Poses) /\ ~(Cardinality(Poses) >= Order + 1)
      BY <2>2, PosesAreFinite, FS_CardinalityType, OrderIsOdd DEF CacheInv
    <3>2. CompleteOver(fej', Poses)
      BY <3>1, EnoughPoses DEF CompleteOver
    <3> QED BY <1>2, <2>2, <3>2
  <2> QED BY <2>1, <2>2 DEF Refitted
<1>4. /\ Polynomials(est') /\ FitsOver(est', Poses, keyframes, imuPose, stateTime) /\ CompleteOver(est', Poses)
      /\ initialized \/ DOMAIN est' = {}
  <2>1. CASE UNCHANGED <<fej, est>>
    BY <2>1 DEF CacheInv
  <2>2. CASE Refitted
    <3>1. Poses \in SUBSET Int /\ IsFiniteSet(Poses) /\ imuPose \in SUBSET Int /\ stateTime \in Int
      BY PosesAreFinite DEF CacheInv, IInv, TypeOK
    <3> DEFINE new == Rebuilt(Poses, imuPose)
    <3>2. /\ Polynomials(new)
          /\ \A t \in DOMAIN new : t \in Poses /\ FitOf(new[t], Poses, imuPose) /\ \E d \in Poses : t < d
          /\ CompleteOver(new, Poses)
      BY <3>1, RebuiltFacts
    <3> HIDE DEF new
    <3>3. est' = new /\ initialized /\ \A d \in Poses : d <= stateTime
      BY <2>2 DEF Refitted, new, IInv, CaughtUp
    <3>4. ASSUME NEW t \in DOMAIN new PROVE t \in Int /\ t < stateTime
      <4>1. PICK d \in Poses : t < d
        BY <3>2
      <4>2. t \in Int /\ d \in Int /\ d <= stateTime
        BY <3>1, <3>2, <3>3
      <4> QED BY <3>1, <4>1, <4>2
    <3> QED BY <3>2, <3>3, <3>4 DEF FitsOver
  <2> QED BY <2>1, <2>2
<1> QED BY <1>1, <1>3, <1>4, FitsStay, CompleteStays

\* The invariant after an IMU message.
LEMMA CacheImuStep ==
    ASSUME IInv, IInv', NoGt, CacheInv, CacheImu PROVE CacheInv'
<1>1. ImuStep
  BY StepsOfWindow
<1>2. IsFiniteSet(clones') /\ KeyframesBehind' /\ JacobiansOK'
  BY <1>1, FiniteStays, KeyframesStayBehind, JacobiansAfterImu DEF CacheInv
<1>3. CASE initialized'
  <2>1. /\ Polynomials(fej') /\ Polynomials(est')
        /\ FitsOver(fej', Poses', keyframes', imuPose', stateTime')
        /\ FitsOver(est', Poses', keyframes', imuPose', stateTime')
        /\ CompleteOver(fej', Poses') /\ CompleteOver(est', Poses')
    BY <1>3, PolynomialsAfterImu
  <2> QED BY <1>2, <1>3, <2>1 DEF CacheInv, Polynomials, FitsOver, CompleteOver, FitOf, Unbroken, Newer
<1>4. CASE ~initialized'
  <2>1. ~initialized /\ fej' = fej /\ est' = est
    BY <1>1, <1>4, StepsAreNext, StepPreserves DEF Preserved, CacheImu, ImuPolynomials
  <2>2. DOMAIN fej' = {} /\ DOMAIN est' = {}
    BY <2>1 DEF CacheInv
  <2>3. Poses' = {}
    BY <1>4 DEF IInv, EmptyBeforeInit, Poses
  <2> QED BY <1>2, <2>2, <2>3 DEF CacheInv, Polynomials, FitsOver, CompleteOver
<1> QED BY <1>3, <1>4

\* The invariant after a handler that refits the estimates or leaves them.
LEMMA CacheInvKept ==
    ASSUME IInv, IInv', NoGt, CacheInv, OtherStep, UNCHANGED <<fej, est>> \/ Refitted, JacobiansOK'
    PROVE  CacheInv'
<1>1. IsFiniteSet(clones') /\ KeyframesBehind'
  BY FiniteStays, KeyframesStayBehind DEF CacheInv
<1>2. /\ Polynomials(fej') /\ Polynomials(est')
      /\ FitsOver(fej', Poses', keyframes', imuPose', stateTime')
      /\ FitsOver(est', Poses', keyframes', imuPose', stateTime')
      /\ CompleteOver(fej', Poses') /\ CompleteOver(est', Poses')
      /\ initialized' \/ (DOMAIN fej' = {} /\ DOMAIN est' = {})
  BY PolynomialsAfterOthers
<1> QED BY <1>1, <1>2 DEF CacheInv, Polynomials, FitsOver, CompleteOver, FitOf, Unbroken, Newer

\* The invariant after another message.
LEMMA CacheOtherStep ==
    ASSUME IInv, IInv', NoGt, CacheInv, CacheSensor \/ CacheGnss \/ CacheGnssInit \/ CacheWheel
    PROVE  CacheInv' /\ clones' \ clones = {}
<1>1. OtherStep
  BY StepsOfWindow
<1>2. clones' \ clones = {}
  BY <1>1, NoCloneAdded
<1>3. JacobiansOK'
  <2>1. CASE CacheWheel
    BY <2>1 DEF CacheInv, CacheWheel, JacobiansOK
  <2>2. CASE CacheSensor \/ CacheGnss \/ CacheGnssInit
    <3>1. PICK s \in Drivers : Interpolates(s)
      BY <2>2 DEF CacheSensor, CacheGnss, CacheGnssInit, Drivers
    <3> QED BY <3>1, JacobiansAfterOthers DEF CacheInv
  <2> QED BY <2>1, <2>2
<1>4. UNCHANGED <<fej, est>> \/ Refitted
  BY DEF CacheSensor, CacheGnss, CacheGnssInit, CacheWheel, Interpolates
<1> QED BY <1>1, <1>2, <1>3, <1>4, CacheInvKept

-----------------------------------------------------------------------------
(* Requests *)

\* The poses an interpolation is taken over start at one with Order newer ones.
LEMMA RunStart ==
    ASSUME NEW S \in SUBSET Int, IsFiniteSet(S), NEW t, BoundingPoses(S, Order, t, DtExp) # {}
    PROVE  LET P == BoundingPoses(S, Order, t, DtExp)
               key == Min(P)
           IN  key \in S /\ Newer(S, key) >= Order /\ key \in P /\ \A c \in P : key <= c
<1> DEFINE P == BoundingPoses(S, Order, t, DtExp)
           key == Min(P)
<1>1. P # {}
  OBVIOUS
<1>3. P \in SUBSET S /\ P \in SUBSET Int /\ IsFiniteSet(P) /\ Cardinality(P) = Order + 1
  <2>1. P \in SUBSET S /\ Cardinality(P) = Order + 1
    BY <1>1, OrderIsOdd, BoundingIsRun DEF Unbroken
  <2> HIDE DEF P
  <2> QED BY <2>1, FS_Subset
<1> HIDE DEF P
<1>4. key \in P /\ \A c \in P : key <= c
  BY <1>1, <1>3, MinOfFinite
<1>5. Newer(S, key) >= Order
  <2> DEFINE rest == P \ {key}
             newer == {d \in S : d > key}
  <2>1. rest \in SUBSET newer /\ newer \in SUBSET S
    <3>1. ASSUME NEW d \in rest PROVE d \in S /\ d > key
      <4>1. key <= d /\ key # d /\ key \in Int /\ d \in Int
        BY <1>3, <1>4
      <4> HIDE DEF key
      <4> QED BY <1>3, <4>1
    <3> HIDE DEF key, rest
    <3> QED BY <3>1
  <2>2. Cardinality(rest) = Order
    <3>1. Cardinality(rest) = Cardinality(P) - 1
      BY <1>3, <1>4, FS_RemoveElement
    <3> HIDE DEF rest
    <3> QED BY <1>3, <3>1, OrderIsOdd
  <2> HIDE DEF rest, newer
  <2>3. IsFiniteSet(newer) /\ Cardinality(rest) <= Cardinality(newer)
    BY <2>1, FS_Subset
  <2>4. Cardinality(newer) \in Nat
    BY <2>3, FS_CardinalityType
  <2>5. Newer(S, key) = Cardinality(newer)
    BY DEF Newer, newer
  <2> QED BY <2>2, <2>3, <2>4, <2>5, OrderIsOdd
<1> QED BY <1>3, <1>4, <1>5 DEF P

\* The window around a request starts at a pose with Order newer ones.
LEMMA WindowStart ==
    ASSUME IInv, IsFiniteSet(clones), NEW t, Around(t) # {}
    PROVE  LET key == Min(Around(t))
           IN  /\ key \in Poses /\ Newer(Poses, key) >= Order
               /\ key \in Around(t) /\ \A c \in Around(t) : key <= c
<1>1. Poses \in SUBSET Int /\ IsFiniteSet(Poses)
  BY PosesAreFinite
<1> QED BY <1>1, RunStart DEF Around

\* What check_polynomial lets pass: the window starts at a key of both maps.
LEMMA ReadyFacts ==
    ASSUME IInv, CacheInv, NEW t, PolynomialReady(t)
    PROVE  LET key == Min(Around(t))
           IN  /\ key \in DOMAIN fej /\ key \in DOMAIN est /\ key \in Poses
               /\ key \in Around(t) /\ \A c \in Around(t) : key <= c
<1>1. Around(t) # {} /\ Min(Around(t)) \in DOMAIN fej
  BY DEF PolynomialReady, PolynomialIn, Around
<1>2. LET key == Min(Around(t))
      IN  /\ key \in Poses /\ Newer(Poses, key) >= Order
          /\ key \in Around(t) /\ \A c \in Around(t) : key <= c
  BY <1>1, WindowStart DEF CacheInv
<1> QED BY <1>1, <1>2 DEF CacheInv, CompleteOver

\* Conversely it lets a request through that a window is found for, as long as no entry of
\* the first estimates is of a pose that has left.
LEMMA WindowIsReady ==
    ASSUME IInv, CacheInv, NEW t, Around(t) # {}, DOMAIN fej \subseteq Poses
    PROVE  PolynomialReady(t)
<1>1. Min(Around(t)) \in Poses /\ Newer(Poses, Min(Around(t))) >= Order
  BY WindowStart DEF CacheInv
<1>2. Min(Around(t)) \in DOMAIN fej
  BY <1>1 DEF CacheInv, CompleteOver
<1> QED BY <1>2 DEF PolynomialReady, PolynomialIn, Around

\* Away from keyframes, the fit of the key is over the window that starts there.
LEMMA FitOfWindow ==
    ASSUME IInv, CacheInv, NEW t, PolynomialReady(t), NEW map, Polynomials(map),
           FitsOver(map, Poses, keyframes, imuPose, stateTime),
           Min(Around(t)) \in DOMAIN map, Min(Around(t)) \notin keyframes
    PROVE  Describes(map[Min(Around(t))], t)
<1> DEFINE P == Around(t)
           key == Min(P)
           F == map[key].times
<1>1. Poses \in SUBSET Int /\ IsFiniteSet(Poses)
  BY PosesAreFinite DEF CacheInv
<1>2. key \in Poses /\ key \in P /\ \A c \in P : key <= c
  BY ReadyFacts
<1>3. Unbroken(P, Poses) /\ Cardinality(P) = Order + 1
  BY <1>2, AroundIsRun DEF CacheInv
<1>4. Unbroken(F, Poses) /\ map[key].imu = F \cap imuPose /\ Cardinality(F) = Order + 1 /\ key = Min(F)
  BY <1>2 DEF FitsOver, FitOf, Polynomials
<1> HIDE DEF F, P
<1>5. key \in F /\ \A c \in F : key <= c
  <2>1. F \in SUBSET Int /\ IsFiniteSet(F)
    <3>1. F \in SUBSET Poses
      BY <1>4 DEF Unbroken
    <3> QED BY <1>1, <3>1, FS_Subset
  <2>2. F # {}
    <3> SUFFICES ASSUME F = {} PROVE FALSE
      OBVIOUS
    <3>1. Cardinality(F) = 0
      BY FS_EmptySet
    <3> QED BY <1>4, <3>1, OrderIsOdd
  <2> QED BY <1>4, <2>1, <2>2, MinOfFinite
<1> HIDE DEF key
<1>6. F = P
  <2>1. Cardinality(F) = Cardinality(P) /\ key \in F \cap P
    BY <1>2, <1>3, <1>4, <1>5
  <2>2. Unbroken(F, Poses) /\ Unbroken(P, Poses)
    BY <1>3, <1>4
  <2>3. (\A c \in F : key <= c) /\ (\A c \in P : key <= c)
    BY <1>2, <1>5
  <2> QED BY <1>1, <2>1, <2>2, <2>3, SameRun
<1> QED BY <1>4, <1>6 DEF Describes, F, P, key

\* A window is found only for a request inside the window, the tolerance allowed for.
LEMMA WindowHolds ==
    ASSUME IInv, IsFiniteSet(clones), NEW t \in Int
    PROVE  /\ Around(t) # {} <=> Cardinality(Poses) >= Order + 1 /\ BoundingIndex(Poses, t, DtExp) # 0
           /\ Around(t) # {} => /\ \E c \in clones : c <= t + DtExp
                                /\ \E c \in Poses : t <= c + DtExp
           /\ /\ Cardinality(Poses) >= Order + 1
              /\ \E c \in Poses : c <= t + DtExp
              /\ \E c \in Poses : t <= c + DtExp
              => Around(t) # {}
<1> USE OrderIsOdd, ToleranceIsNatural
<1>1. Poses \in SUBSET Int /\ IsFiniteSet(Poses) /\ Cardinality(Poses) \in Nat
  BY PosesAreFinite, FS_CardinalityType
<1>2. Around(t) # {} <=> Cardinality(Poses) >= Order + 1 /\ BoundingIndex(Poses, t, DtExp) # 0
  BY <1>1, PosesFound DEF Around
<1>3. ASSUME Around(t) # {}
      PROVE  /\ \E c \in clones : c <= t + DtExp
             /\ \E c \in Poses : t <= c + DtExp
  <2>1. PICK c \in Poses, d \in Poses : c < d /\ c <= t + DtExp /\ t <= d + DtExp
    BY <1>1, <1>2, <1>3, BoundingFound
  <2>2. c \in clones
    <3>1. initialized
      BY <2>1 DEF IInv, EmptyBeforeInit, Poses
    <3>2. d <= stateTime /\ c \in Int /\ d \in Int /\ stateTime \in Int
      BY <1>1, <3>1 DEF IInv, CaughtUp, TypeOK
    <3>3. c # stateTime
      BY <2>1, <3>2
    <3> QED BY <3>3 DEF Poses, IInv, ImuPoseIsNow
  <2> QED BY <2>1, <2>2
<1>4. ASSUME Cardinality(Poses) >= Order + 1,
             \E c \in Poses : c <= t + DtExp, \E c \in Poses : t <= c + DtExp
      PROVE  Around(t) # {}
  <2>1. Cardinality(Poses) >= 2
    BY <1>1, <1>4
  <2>2. BoundingIndex(Poses, t, DtExp) # 0
    BY <1>1, <1>4, <2>1, BoundingFound
  <2> QED BY <1>2, <1>4, <2>2
<1> QED BY <1>2, <1>3, <1>4

\* add_polynomial leaves no entry of a pose that has left.
LEMMA AddedIsOfPoses ==
    ASSUME NEW map, Polynomials(map), NEW S \in SUBSET Int, IsFiniteSet(S), NEW pose \in SUBSET Int
    PROVE  DOMAIN Added(map, S, pose) \subseteq S
<1> DEFINE new == Added(map, S, pose)
           key == Min(LastPoses(S))
<1>1. \A t \in DOMAIN new : Cardinality(S) >= Order + 1 /\ (t = key \/ t \in S)
  BY AddedFacts
<1>2. Cardinality(S) >= Order + 1 => key \in S
  BY LastIsRun DEF Unbroken
<1> HIDE DEF new, key
<1> QED BY <1>1, <1>2 DEF new

\* Older than the oldest pose is older than each.
LEMMA OlderThanAll ==
    ASSUME IInv, IsFiniteSet(clones), initialized, NEW t \in Int, t < Min(Poses)
    PROVE  \A c \in Poses : t < c
<1>1. Poses \in SUBSET Int /\ IsFiniteSet(Poses) /\ Poses # {}
  BY PosesAreFinite DEF IInv, CaughtUp
<1>2. Min(Poses) \in Poses /\ \A c \in Poses : Min(Poses) <= c
  BY <1>1, MinOfFinite
<1> SUFFICES ASSUME NEW c \in Poses PROVE t < c
  OBVIOUS
<1>3. Min(Poses) \in Int /\ c \in Int /\ Min(Poses) <= c
  BY <1>1, <1>2
<1> QED BY <1>3

-----------------------------------------------------------------------------
(* The theorems *)

\* The caches are empty at the start.
LEMMA CacheInitInv == ASSUME CacheInit PROVE CacheInv
<1>1. /\ clones = {} /\ Poses = {} /\ keyframes = {}
      /\ DOMAIN fej = {} /\ DOMAIN est = {} /\ DOMAIN jacobians = {}
  BY DEF CacheInit, Init, Nothing, Poses
<1> QED BY <1>1, FS_EmptySet DEF CacheInv, KeyframesBehind, Polynomials, FitsOver, CompleteOver, JacobiansOK

\* The invariants of the window and of the caches hold throughout.
THEOREM CacheInvariance == ASSUME NoGt PROVE CacheSpec => [](IInv /\ CacheInv)
<1>1. CacheInit => CacheInv
  BY CacheInitInv
<1>2. CacheSpec => []IInv
  BY CacheImplementsWindow, Invariance, PTL
<1>3. IInv /\ IInv' /\ CacheInv /\ [CacheNext]_cacheVars => CacheInv'
  <2>1. ASSUME CacheInv, UNCHANGED cacheVars PROVE CacheInv'
    <3>1. /\ fej' = fej /\ est' = est /\ jacobians' = jacobians /\ clones' = clones
          /\ imuPose' = imuPose /\ keyframes' = keyframes /\ stateTime' = stateTime
          /\ initialized' = initialized /\ Poses' = Poses
      BY <2>1 DEF cacheVars, vars, Poses
    <3>2. /\ FitsOver(fej', Poses', keyframes', imuPose', stateTime')
          /\ FitsOver(est', Poses', keyframes', imuPose', stateTime')
          /\ CompleteOver(fej', Poses') /\ CompleteOver(est', Poses') /\ Polynomials(fej') /\ Polynomials(est')
      BY <2>1, <3>1 DEF CacheInv
    <3>3. JacobiansOK' /\ KeyframesBehind'
      BY <2>1, <3>1 DEF CacheInv, JacobiansOK, KeyframesBehind
    <3> QED BY <2>1, <3>1, <3>2, <3>3 DEF CacheInv
  <2> QED BY <2>1, CacheImuStep, CacheOtherStep DEF CacheNext
<1> QED BY <1>1, <1>2, <1>3, PTL DEF CacheSpec

\* Type correctness of the caches: every polynomial is over Order + 1 poses and kept under
\* the oldest of them.
THEOREM CacheTypeCorrect == ASSUME NoGt PROVE CacheSpec => []CacheTypeOK
<1>1. CacheInv => CacheTypeOK
  BY DEF CacheInv, CacheTypeOK, JacobiansOK
<1> QED BY <1>1, CacheInvariance, PTL

\* What check_polynomial lets pass was fitted to the clones the interpolation is taken over,
\* for every window that does not start at a keyframe.
THEOREM WindowPolynomialsDescribe == ASSUME NoGt PROVE CacheSpec => []WindowPolynomialCorrect
<1>1. IInv /\ CacheInv => WindowPolynomialCorrect
  <2> SUFFICES ASSUME IInv, CacheInv, NEW t \in Askable, PolynomialReady(t),
                      Min(Around(t)) \notin keyframes
               PROVE  Describes(fej[Min(Around(t))], t)
    BY DEF WindowPolynomialCorrect
  <2>1. Min(Around(t)) \in DOMAIN fej
    BY ReadyFacts
  <2> QED BY <2>1, FitOfWindow DEF CacheInv
<1> QED BY <1>1, CacheInvariance, PTL

\* The key check_polynomial found in one map is in the other, and away from keyframes both
\* fits are over the same window.
THEOREM EstimatesAreFitted == ASSUME NoGt PROVE CacheSpec => []EstimateFitted
<1>1. IInv /\ CacheInv => EstimateFitted
  <2> SUFFICES ASSUME IInv, CacheInv, NEW t \in Askable, PolynomialReady(t)
               PROVE  LET key == Min(Around(t))
                      IN  key \in DOMAIN est /\ (key \in keyframes \/ est[key].times = fej[key].times)
    BY DEF EstimateFitted
  <2> DEFINE key == Min(Around(t))
  <2>1. key \in DOMAIN fej /\ key \in DOMAIN est
    BY ReadyFacts
  <2>2. ASSUME key \notin keyframes PROVE est[key].times = fej[key].times
    <3>1. Describes(fej[key], t)
      BY <2>1, <2>2, FitOfWindow DEF CacheInv
    <3>2. Describes(est[key], t)
      BY <2>1, <2>2, FitOfWindow DEF CacheInv
    <3> QED BY <3>1, <3>2 DEF Describes
  <2> QED BY <2>1, <2>2
<1> QED BY <1>1, CacheInvariance, PTL

\* Whatever the window has become, the poses an interpolation at any time is taken over are
\* what bounding_poses_n promises of them: as many as the order asks for, without a hole,
\* with the poses next to the request among them, evenly around it unless the window ends
\* there; and there are some for every request inside a window with enough poses.
THEOREM PolynomialsAreAround ==
    ASSUME NoGt, NEW t \in Int PROVE CacheSpec => []SpreadAround(Poses, Order, t, DtExp)
<1>1. IInv /\ CacheInv => SpreadAround(Poses, Order, t, DtExp)
  <2> SUFFICES ASSUME IInv, CacheInv PROVE SpreadAround(Poses, Order, t, DtExp)
    OBVIOUS
  <2>1. Poses \in SUBSET Int /\ IsFiniteSet(Poses)
    BY PosesAreFinite DEF CacheInv
  <2> QED BY <2>1, OrderIsOdd, ToleranceIsNatural, BoundingSpread
<1> QED BY <1>1, CacheInvariance, PTL
=============================================================================
