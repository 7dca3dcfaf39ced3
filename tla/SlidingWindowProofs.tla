------------------------- MODULE SlidingWindowProofs -------------------------
(***************************************************************************)
(* Theorems about SlidingWindow, for all sets of stamps, offsets, periods  *)
(* and all window sizes.  IInv is inductive when the state time comes from *)
(* the IMU buffer (NoGt); GtInv weakens it to what holds with a ground     *)
(* truth file too.  Only NoFatalExit and CaughtUp need NoGt: with a file   *)
(* that runs ahead of the readings both fail (run window_gt shows it).     *)
(***************************************************************************)
EXTENDS SlidingWindow, CloneLookupProofs

\* Before initialization there is nothing to interpolate between.
EmptyBeforeInit ==
    ~initialized => clones = {} /\ imuPose = {} /\ keyframes = {} /\ candidates = {}

\* The newest clone is never a keyframe: the marginalization loop stops before it.
NewestStays == clones # {} => \E n \in clones \ keyframes : \A c \in clones : c <= n

\* The IMU pose, when it has an entry, is at the state time and apart from the clones.
ImuPoseIsNow == imuPose \subseteq {stateTime} /\ imuPose \cap clones = {}

\* The inductive invariant.
IInv ==
    /\ TypeOK
    /\ IsFiniteSet(imu)
    /\ NoFatalExit
    /\ EmptyBeforeInit
    /\ CaughtUp
    /\ NewestStays
    /\ ImuPoseIsNow
    /\ KeyframesHeld
    /\ WindowBound
    /\ CloneSpacing

\* The Spec without init->use_gt: the state time is initialized inside the IMU buffer.
NoGt == GtStamps = {}

-----------------------------------------------------------------------------
(* Propagation requests that are never refused *)

\* With two or more readings around it a forward request succeeds, and a request for
\* the current time changes nothing: either way the state ends at t1.
LEMMA PropagationArrives ==
    ASSUME NEW buf \in SUBSET Int, IsFiniteSet(buf), NEW t0 \in Int, NEW t1 \in Int, t0 <= t1,
           \E i \in buf : i <= t0, \E i \in buf : i >= t1
    PROVE  Propagated(buf, t0, t1) = t1
<1>1. CASE t0 = t1
  BY <1>1 DEF Propagated, Reaches
<1>2. CASE t0 < t1
  <2>1. PICK i \in buf : i <= t0
    OBVIOUS
  <2>2. PICK j \in buf : j >= t1
    OBVIOUS
  <2>3. i # j
    BY <1>2, <2>1, <2>2
  <2>4. IsFiniteSet({i, j}) /\ Cardinality({i, j}) = 2
    <3>1. IsFiniteSet({i}) /\ Cardinality({i}) = 1
      BY FS_Singleton
    <3>2. IsFiniteSet({i} \cup {j}) /\ Cardinality({i} \cup {j}) = Cardinality({i}) + 1
      BY <3>1, <2>3, FS_AddElement
    <3>3. {i} \cup {j} = {i, j}
      OBVIOUS
    <3> QED BY <3>1, <3>2, <3>3
  <2>5. Cardinality({i, j}) <= Cardinality(buf)
    BY <2>4, FS_Subset
  <2>6. Cardinality(buf) \in Nat
    BY FS_CardinalityType
  <2>7. Reaches(buf, t0, t1)
    BY <1>2, <2>1, <2>2, <2>4, <2>5, <2>6 DEF Reaches
  <2> QED BY <2>7 DEF Propagated
<1> QED BY <1>1, <1>2

\* feed_imu keeps the message, the reading at the state time, and the type.
LEMMA BufferFacts ==
    ASSUME IInv, NEW m \in ImuStamps, NewImu(m)
    PROVE  /\ Buffered(m) \in SUBSET Int
           /\ IsFiniteSet(Buffered(m))
           /\ m \in Buffered(m)
           /\ \A i \in Buffered(m) : i <= m
           /\ initialized => stateTime \in Buffered(m) /\ stateTime < m
<1> USE StampsAreTimes, LimitsAreNatural
<1>1. Buffered(m) \subseteq imu \cup {m}
  BY DEF Buffered
<1>2. imu \cup {m} \in SUBSET Int /\ IsFiniteSet(imu \cup {m})
  <2>1. imu \in SUBSET Int /\ m \in Int
    BY DEF IInv, TypeOK
  <2>2. IsFiniteSet(imu \cup {m})
    BY FS_AddElement DEF IInv
  <2> QED BY <2>1, <2>2
<1>3. IsFiniteSet(Buffered(m))
  BY <1>1, <1>2, FS_Subset
<1>4. \A i \in imu \cup {m} : i <= m
  BY <1>2 DEF NewImu
<1>5. initialized => stateTime \in Buffered(m) /\ stateTime < m
  <2> HAVE initialized
  <2>1. stateTime \in imu /\ stateTime \in Poses /\ stateTime \in Int
    BY DEF IInv, CaughtUp, TypeOK
  <2>2. stateTime < m
    BY <2>1 DEF NewImu
  <2>3. stateTime >= stateTime - KeepTime
    BY <2>1
  <2> QED BY <2>1, <2>2, <2>3 DEF Buffered
<1>6. m \in Buffered(m)
  <2>1. CASE ~initialized
    BY <2>1 DEF IInv, EmptyBeforeInit, Poses, Buffered
  <2>2. CASE initialized
    <3>1. stateTime \in Poses /\ stateTime \in Int /\ m \in Int /\ stateTime < m
      BY <2>2, <1>5, <1>2 DEF IInv, CaughtUp, TypeOK
    <3>2. m >= stateTime - KeepTime
      BY <3>1
    <3> QED BY <3>1, <3>2 DEF Buffered
  <2> QED BY <2>1, <2>2
<1> QED BY <1>1, <1>2, <1>3, <1>4, <1>5, <1>6

-----------------------------------------------------------------------------
(* The tail of the IMU handler *)

\* What augment_clone, marginalize_old_clone, reset_cpi and the final propagation leave
\* behind when the clone is later than all others: no exit is reached, the window is
\* closed, keyframes survive and the filter stands at the message.
LEMMA AddCloneStep ==
    ASSUME KeyframesHeld, WindowBound, CloneSpacing,
           clones \in SUBSET Int, keyframes \in SUBSET Int, candidates \in SUBSET Int,
           NEW m \in Int, NEW buf \in SUBSET Int, IsFiniteSet(buf), m \in buf,
           NEW t0 \in Int, NEW ct \in Int, t0 <= ct, ct <= m,
           \E i \in buf : i <= t0,
           \A c \in clones : c < ct,
           \A c \in clones : \E p \in Periods : 10 * (ct - c) >= 9 * p,
           AddClone(ct, m, buf, t0)
    PROVE  /\ fatal' = "none"
           /\ stateTime' = m
           /\ clones' \in SUBSET Int /\ keyframes' \in SUBSET Int /\ candidates' \in SUBSET Int
           /\ imuPose' = {m} \ clones'
           /\ \A c \in clones' : c <= m
           /\ NewestStays'
           /\ KeyframesHeld' /\ WindowBound' /\ CloneSpacing'
           /\ keyframes \subseteq keyframes' \cap clones'
           /\ \A c \in clones \ clones' : \E n \in clones' : n - c > Window
<1> USE StampsAreTimes, LimitsAreNatural, PeriodsArePositive
<1> DEFINE cl == clones \cup {ct}
           old == Expired(cl, {}, keyframes)
           kept == cl \ (old \ candidates)
<1>1. Propagated(buf, t0, ct) = ct
  BY PropagationArrives
<1>2. Propagated(buf, ct, m) = m
  <2>1. \E i \in buf : i <= ct
    BY DEF IInv
  <2> QED BY <2>1, PropagationArrives
<1>3. ct \notin clones /\ ct \notin keyframes
  BY DEF KeyframesHeld
<1>4. old = {c \in cl \ keyframes : \E n \in cl : n - c > Window}
  BY DEF Expired
<1>5. \A n \in cl : n <= ct
  OBVIOUS
<1>6. ct \notin old
  <2> SUFFICES ASSUME NEW n \in cl PROVE ~(n - ct > Window)
    BY <1>4
  <2>1. n \in Int /\ n <= ct /\ Window \in Nat
    BY <1>5
  <2> HIDE DEF cl
  <2> QED BY <2>1
<1>7. ASSUME NEW c \in old PROVE ct - c > Window
  <2>1. PICK n \in cl : n - c > Window
    BY <1>4
  <2>2. n \in Int /\ n <= ct /\ Window \in Nat /\ c \in Int
    BY <1>4, <1>5
  <2> HIDE DEF cl, old
  <2> QED BY <2>1, <2>2
<1>8. ct \in kept /\ ~(cl \subseteq keyframes)
  BY <1>3, <1>6
<1>9. /\ keyframes' = keyframes \cup (old \cap candidates)
      /\ candidates' = candidates \ old
      /\ Advance(m, buf, ct, kept)
  BY <1>1, <1>3, <1>8 DEF AddClone
<1>10. fatal' = "none" /\ stateTime' = m /\ clones' = kept /\ imuPose' = {m} \ kept
  BY <1>2, <1>9 DEF Advance
<1>11. clones' \in SUBSET Int /\ keyframes' \in SUBSET Int /\ candidates' \in SUBSET Int
  BY <1>9, <1>10
<1>12. \A c \in clones' : c <= m
  BY <1>5, <1>10
<1>13. NewestStays'
  BY <1>3, <1>5, <1>6, <1>8, <1>9, <1>10 DEF NewestStays
<1>14. KeyframesHeld'
  BY <1>4, <1>9, <1>10 DEF KeyframesHeld
<1>15. WindowBound'
  <2> SUFFICES ASSUME NEW c \in clones' \ keyframes', NEW d \in clones' PROVE d - c <= Window
    BY DEF WindowBound
  <2>1. c \in cl \ keyframes /\ c \notin old /\ d \in cl
    BY <1>9, <1>10
  <2> QED BY <1>4, <2>1
<1>16. CloneSpacing'
  <2> SUFFICES ASSUME NEW c \in clones', NEW d \in clones', c < d
               PROVE  \E p \in Periods : 10 * (d - c) >= 9 * p
    BY DEF CloneSpacing
  <2>1. c \in cl /\ d \in cl
    BY <1>10
  <2>2. c \in clones
    BY <2>1, <1>5
  <2>3. CASE d = ct
    BY <2>2, <2>3
  <2>4. CASE d \in clones
    BY <2>2, <2>4 DEF CloneSpacing
  <2> QED BY <2>1, <2>3, <2>4
<1>17. keyframes \subseteq keyframes' \cap clones'
  BY <1>4, <1>9, <1>10 DEF KeyframesHeld
<1>18. \A c \in clones \ clones' : \E n \in clones' : n - c > Window
  BY <1>7, <1>8, <1>10
<1> QED BY <1>10, <1>11, <1>12, <1>13, <1>14, <1>15, <1>16, <1>17, <1>18

\* The clone time is later than every clone by nine tenths of a period, not before the
\* state, and not after the IMU data.
LEMMA CloneTimeFacts ==
    ASSUME TypeOK, NEW m \in ImuStamps, NEW p \in Periods,
           Buffered(m) \in SUBSET Int, \A i \in Buffered(m) : i <= m,
           NEW newest \in clones, \A c \in clones : c <= newest,
           newest < stateTime => stateTime < m,
           NEW ct \in CloneTimes(newest, p, m, Buffered(m))
    PROVE  /\ ct \in Int /\ stateTime <= ct /\ ct <= m
           /\ \A c \in clones : 10 * (ct - c) >= 9 * p
<1> USE StampsAreTimes, LimitsAreNatural, PeriodsArePositive
<1> DEFINE d == Desired(newest, p, m)
<1>1. stateTime \in Int /\ clones \subseteq Int /\ m \in Int /\ p \in Nat /\ p > 0
  BY DEF TypeOK
<1>2. newest \in Int
  BY <1>1
<1>3. d \in Int /\ stateTime <= d /\ newest + p <= d
  BY <1>1, <1>2 DEF Desired
<1>4. MeasTimes \subseteq Int
  <2>1. ASSUME NEW s \in Drivers, NEW t \in hist[s] PROVE t + offset[s] \in Int
    <3>1. hist[s] \in SUBSET SensorStamps /\ offset[s] \in Offsets
      BY DEF TypeOK
    <3>2. t \in Int /\ offset[s] \in Int
      BY <3>1
    <3> QED BY <3>2
  <2> QED BY <2>1 DEF MeasTimes
<1>5. ct = d \/ ct \in Eligible(d, p)
  BY DEF CloneTimes
<1>6. ct \in Int /\ stateTime <= ct /\ 10 * (d - ct) <= p
  <2> HIDE DEF d
  <2>1. CASE ct = d
    BY <2>1, <1>1, <1>3
  <2>2. CASE ct \in Eligible(d, p)
    BY <2>2, <1>4 DEF Eligible
  <2> QED BY <2>1, <2>2, <1>5
<1>7. ct <= m
  <2>1. PICK i \in Buffered(m) : i >= ct
    BY DEF CloneTimes
  <2>2. i \in Int /\ i <= m
    OBVIOUS
  <2> HIDE DEF d
  <2> QED BY <2>1, <2>2, <1>1, <1>6
<1>8. ASSUME NEW c \in clones PROVE 10 * (ct - c) >= 9 * p
  <2>1. c \in Int /\ c <= newest /\ newest \in Int
    BY <1>1
  <2> HIDE DEF d
  <2> QED BY <2>1, <1>1, <1>3, <1>6
<1> QED BY <1>6, <1>7, <1>8

\* To the outside, a clone that is made enters the window, and what it leaves behind goes
\* or is held: PoseWindow's Clone.
LEMMA CloneAsPromised ==
    ASSUME KeyframesHeld, clones \in SUBSET Int, NEW m, NEW buf, NEW t0, NEW ct \in Int,
           Propagated(buf, t0, ct) = ct,
           \A c \in clones : c < ct,
           \A c \in clones : \E p \in Periods : 10 * (ct - c) >= 9 * p,
           AddClone(ct, m, buf, t0), fatal' = "none", initialized', ct <= stateTime',
           initialized => stateTime <= ct /\ stateTime < stateTime'
    PROVE  ct \in clones' /\ Promised!Clone(ct)
<1> USE LimitsAreNatural
<1> DEFINE cl == clones \cup {ct}
           old == Expired(cl, {}, keyframes)
           left == Promised!Behind(cl, ct) \ keyframes
           kept == cl \ (old \ candidates)
<1>1. ct \notin clones
  OBVIOUS
<1>2. /\ keyframes' = keyframes \cup (old \cap candidates)
      /\ clones' = kept
      /\ ct \in kept
  BY <1>1 DEF AddClone, Stop, Advance
<1>3. old = left
  <2>1. old = {c \in cl \ keyframes : \E n \in cl : n - c > Window}
    BY DEF Expired
  <2>2. left = {c \in cl \ keyframes : ct - c > Window}
    BY DEF Promised!Behind
  <2>3. ASSUME NEW c \in cl, NEW n \in cl, n - c > Window PROVE ct - c > Window
    <3>1. c \in Int /\ n \in Int /\ n <= ct /\ Window \in Nat
      OBVIOUS
    <3> HIDE DEF cl
    <3> QED BY <2>3, <3>1
  <2>4. ct \in cl
    OBVIOUS
  <2> HIDE DEF cl, old, left
  <2> QED BY <2>1, <2>2, <2>3, <2>4
<1>4. keyframes' \subseteq keyframes \cup left /\ clones' = cl \ (left \ keyframes')
  <2>1. left \cap keyframes = {}
    OBVIOUS
  <2> HIDE DEF cl, old, left
  <2> QED BY <1>2, <1>3, <2>1
<1>5. Promised!Apart(ct, clones)
  BY DEF Promised!Apart
<1> QED BY <1>1, <1>2, <1>4, <1>5 DEF Promised!Clone

-----------------------------------------------------------------------------
(* Every step preserves the invariant *)

\* The program starts with nothing in the window.
LEMMA InitIInv == ASSUME Init PROVE IInv
<1>1. IsFiniteSet(imu)
  BY FS_EmptySet DEF Init
<1>2. TypeOK
  <2>1. hist \in [Drivers -> SUBSET SensorStamps]
    BY DEF Init
  <2>2. -1 \in Int
    OBVIOUS
  <2> QED BY <2>1, <2>2 DEF Init, TypeOK, Fatal
<1>3. /\ ~initialized /\ clones = {} /\ imuPose = {} /\ keyframes = {} /\ candidates = {}
      /\ fatal = "none"
  BY DEF Init
<1>4. NoFatalExit /\ EmptyBeforeInit /\ CaughtUp /\ NewestStays /\ ImuPoseIsNow
  BY <1>3 DEF NoFatalExit, EmptyBeforeInit, CaughtUp, NewestStays, ImuPoseIsNow
<1>5. KeyframesHeld /\ WindowBound /\ CloneSpacing
  BY <1>3 DEF KeyframesHeld, WindowBound, CloneSpacing
<1> QED BY <1>1, <1>2, <1>4, <1>5 DEF IInv

\* A new clone is newer than the others and not before the state; what it makes leave is
\* too old for the clones that stay.
NewestClone ==
    \A t \in clones' \ clones :
        /\ \A c \in clones : c < t
        /\ initialized => stateTime <= t
        /\ keyframes \subseteq keyframes'
        /\ \A c \in clones \ clones' : \E n \in clones' : n - c > Window

\* What the step does to time, clones and keyframes is one of the steps of PoseWindow.
AsPromised == Promised!Next \/ UNCHANGED <<initialized, stateTime, clones, keyframes>>

\* What one step keeps: the invariant, the two action properties, the promise of the
\* window, and the order of time.
Preserved ==
    /\ IInv'
    /\ gpsInit' \/ keyframes \subseteq keyframes' \cap clones'
    /\ \A c \in clones \ clones' : \E n \in clones' \cup imuPose' : n - c > Window
    /\ NewestClone
    /\ AsPromised
    /\ initialized => initialized' /\ stateTime <= stateTime'

\* What is left to show of a step without a new clone.
LEMMA WithoutClone ==
    ASSUME IInv, IInv', clones' \subseteq clones, AsPromised,
           gpsInit' \/ keyframes \subseteq keyframes' \cap clones',
           \A c \in clones \ clones' : \E n \in clones' \cup imuPose' : n - c > Window,
           initialized => initialized' /\ (stateTime' = stateTime \/ stateTime < stateTime')
    PROVE  Preserved
<1>1. stateTime \in Int /\ stateTime' \in Int
  BY DEF IInv, TypeOK
<1>2. NewestClone
  BY DEF NewestClone
<1> QED BY <1>1, <1>2 DEF Preserved

\* The IMU handler with a clone, from the facts the two cases of the clone time share.
LEMMA ClonePreserves ==
    ASSUME IInv, NEW m \in ImuStamps, NewImu(m),
           NEW t0 \in Int, NEW ct \in Int, t0 <= ct, ct <= m, initialized => t0 = stateTime,
           \E i \in Buffered(m) : i <= t0,
           \A c \in clones : \E p \in Periods : 10 * (ct - c) >= 9 * p,
           imu' = Buffered(m), initialized', AddClone(ct, m, Buffered(m), t0),
           UNCHANGED <<hist, offset, gpsInit>>
    PROVE  Preserved
<1> USE StampsAreTimes, PeriodsArePositive
<1> DEFINE buf == Buffered(m)
<1>1. buf \in SUBSET Int /\ IsFiniteSet(buf) /\ m \in buf /\ (\A i \in buf : i <= m)
  BY BufferFacts
<1>2. clones \in SUBSET Int /\ keyframes \in SUBSET Int /\ candidates \in SUBSET Int
  BY DEF IInv, TypeOK
<1>3. ASSUME NEW c \in clones PROVE c < ct
  <2>1. PICK p \in Periods : 10 * (ct - c) >= 9 * p
    OBVIOUS
  <2>2. p \in Nat /\ p > 0 /\ c \in Int
    BY <1>2
  <2> QED BY <2>1, <2>2
<1>4. KeyframesHeld /\ WindowBound /\ CloneSpacing
  BY DEF IInv
<1>5. m \in Int
  OBVIOUS
<1>6. /\ fatal' = "none"
      /\ stateTime' = m
      /\ clones' \in SUBSET Int /\ keyframes' \in SUBSET Int /\ candidates' \in SUBSET Int
      /\ imuPose' = {m} \ clones'
      /\ \A c \in clones' : c <= m
      /\ NewestStays'
      /\ KeyframesHeld' /\ WindowBound' /\ CloneSpacing'
      /\ keyframes \subseteq keyframes' \cap clones'
      /\ \A c \in clones \ clones' : \E n \in clones' : n - c > Window
  BY <1>1, <1>2, <1>3, <1>4, <1>5, AddCloneStep
<1>7. TypeOK'
  BY <1>1, <1>5, <1>6 DEF TypeOK, IInv, Fatal, Drivers
<1>8. CaughtUp'
  BY <1>1, <1>5, <1>6 DEF CaughtUp, Poses
<1>9. ImuPoseIsNow' /\ NoFatalExit' /\ EmptyBeforeInit'
  BY <1>6 DEF ImuPoseIsNow, NoFatalExit, EmptyBeforeInit
<1>10. IInv'
  BY <1>1, <1>6, <1>7, <1>8, <1>9 DEF IInv
<1>11. clones' \subseteq clones \cup {ct}
  <2>1. Propagated(buf, t0, ct) = ct
    BY <1>1, PropagationArrives
  <2> QED BY <1>6, <2>1 DEF AddClone, Stop, Advance
<1>12. NewestClone
  BY <1>3, <1>6, <1>11 DEF NewestClone
<1>13. initialized => stateTime <= stateTime' /\ stateTime < m
  BY <1>6, BufferFacts
<1>14. AsPromised
  <2>1. Propagated(buf, t0, ct) = ct
    BY <1>1, PropagationArrives
  <2>2. ct \in clones' /\ Promised!Clone(ct)
    BY <1>2, <1>3, <1>4, <1>6, <1>13, <2>1, CloneAsPromised
  <2> QED BY <2>2 DEF AsPromised, Promised!Next
<1> QED BY <1>6, <1>10, <1>12, <1>13, <1>14 DEF Preserved

\* A failed initialization only trims the IMU buffer.
LEMMA InitFailsStep ==
    ASSUME IInv, NoGt, NEW m \in ImuStamps, InitFails(m) PROVE Preserved
<1> USE StampsAreTimes
<1>1. ~initialized /\ NewImu(m)
  BY DEF InitFails
<1>2. Buffered(m) \in SUBSET Int /\ IsFiniteSet(Buffered(m)) /\ m \in Buffered(m)
  BY <1>1, BufferFacts
<1>3. /\ imu' \subseteq Buffered(m) /\ fatal' = "none"
      /\ UNCHANGED <<initialized, stateTime, clones, imuPose, keyframes, candidates, hist, offset, gpsInit>>
  BY <1>2 DEF InitFails, NoGt, UseGt
<1>4. IsFiniteSet(imu') /\ imu' \in SUBSET Int
  BY <1>2, <1>3, FS_Subset
<1>5. TypeOK'
  BY <1>3, <1>4 DEF IInv, TypeOK, Fatal, Drivers
<1>6. /\ NoFatalExit' /\ EmptyBeforeInit' /\ CaughtUp' /\ NewestStays' /\ ImuPoseIsNow'
      /\ KeyframesHeld' /\ WindowBound' /\ CloneSpacing'
  BY <1>1, <1>3 DEF IInv, NoFatalExit, EmptyBeforeInit, CaughtUp, NewestStays, ImuPoseIsNow,
     KeyframesHeld, WindowBound, CloneSpacing
<1>7. IInv'
  BY <1>4, <1>5, <1>6 DEF IInv
<1>8. AsPromised
  BY <1>3 DEF AsPromised
<1> QED BY <1>1, <1>3, <1>7, <1>8, WithoutClone DEF IInv, EmptyBeforeInit

\* The first clone is made at the time the initializer has set.
LEMMA InitializeStep ==
    ASSUME IInv, NoGt, NEW m \in ImuStamps, NEW t0 \in ImuStamps \cup GtStamps, Initialize(m, t0)
    PROVE  Preserved
<1> USE StampsAreTimes
<1>1. /\ ~initialized /\ NewImu(m) /\ imu' = Buffered(m) /\ initialized'
      /\ AddClone(t0, m, Buffered(m), t0) /\ UNCHANGED <<hist, offset, gpsInit>>
  BY DEF Initialize
<1>2. t0 \in Int /\ (\E i \in Buffered(m) : i <= t0) /\ (\E i \in Buffered(m) : i >= t0)
  BY DEF Initialize, InitTimes, NoGt, UseGt
<1>3. Buffered(m) \in SUBSET Int /\ (\A i \in Buffered(m) : i <= m) /\ m \in Int
  BY <1>1, BufferFacts
<1>4. t0 <= m
  BY <1>2, <1>3
<1>5. clones = {}
  BY <1>1 DEF IInv, EmptyBeforeInit
<1>6. \A c \in clones : \E p \in Periods : 10 * (t0 - c) >= 9 * p
  BY <1>5
<1>7. t0 <= t0
  BY <1>2
<1> QED BY <1>1, <1>2, <1>4, <1>6, <1>7, ClonePreserves

\* A clone made at the state time, when none is left.
LEMMA FirstCloneStep ==
    ASSUME IInv, NEW m \in ImuStamps, FeedImuFirstClone(m) PROVE Preserved
<1> USE StampsAreTimes
<1>1. /\ initialized /\ initialized' /\ NewImu(m) /\ clones = {} /\ imu' = Buffered(m)
      /\ AddClone(stateTime, m, Buffered(m), stateTime) /\ UNCHANGED <<hist, offset, gpsInit>>
  BY DEF FeedImuFirstClone
<1>2. stateTime \in Int /\ m \in Int /\ stateTime \in Buffered(m) /\ stateTime < m
  BY <1>1, BufferFacts DEF IInv, TypeOK
<1>3. stateTime <= stateTime /\ stateTime <= m
  BY <1>2
<1>4. \A c \in clones : \E p \in Periods : 10 * (stateTime - c) >= 9 * p
  BY <1>1
<1>5. \E i \in Buffered(m) : i <= stateTime
  BY <1>2, <1>3
<1> QED BY <1>1, <1>2, <1>3, <1>4, <1>5, ClonePreserves

\* A clone made at a time get_next_clone_time returns.
LEMMA CloneStep ==
    ASSUME IInv, NEW m \in ImuStamps, NEW p \in Periods, FeedImuClone(m, p) PROVE Preserved
<1> USE StampsAreTimes
<1>1. /\ initialized /\ initialized' /\ NewImu(m) /\ imu' = Buffered(m)
      /\ UNCHANGED <<hist, offset, gpsInit>>
  BY DEF FeedImuClone
<1>2. PICK newest \in clones : /\ \A c \in clones : c <= newest
                               /\ \E ct \in CloneTimes(newest, p, m, Buffered(m)) :
                                     AddClone(ct, m, Buffered(m), stateTime)
  BY DEF FeedImuClone
<1>3. PICK ct \in CloneTimes(newest, p, m, Buffered(m)) : AddClone(ct, m, Buffered(m), stateTime)
  BY <1>2
<1>4. /\ ct \in Int /\ stateTime <= ct /\ ct <= m
      /\ \A c \in clones : 10 * (ct - c) >= 9 * p
  <2>1. TypeOK
    BY DEF IInv
  <2>2. stateTime < m /\ Buffered(m) \in SUBSET Int /\ \A i \in Buffered(m) : i <= m
    BY <1>1, BufferFacts
  <2> QED BY <1>2, <2>1, <2>2, CloneTimeFacts
<1>5. stateTime \in Int /\ stateTime \in Buffered(m)
  BY <1>1, BufferFacts DEF IInv, TypeOK
<1>6. \E i \in Buffered(m) : i <= stateTime
  BY <1>5
<1>7. \A c \in clones : \E q \in Periods : 10 * (ct - c) >= 9 * q
  BY <1>4
<1> QED BY <1>1, <1>3, <1>4, <1>5, <1>6, <1>7, ClonePreserves

\* Propagation alone moves the state time and the IMU pose.
LEMMA ImuOnlyStep ==
    ASSUME IInv, NEW m \in ImuStamps, NEW p \in Periods, FeedImuOnly(m, p) PROVE Preserved
<1> USE StampsAreTimes
<1>1. /\ initialized /\ NewImu(m) /\ imu' = Buffered(m)
      /\ Advance(m, Buffered(m), stateTime, clones)
      /\ UNCHANGED <<initialized, keyframes, candidates, hist, offset, gpsInit>>
  BY DEF FeedImuOnly
<1>2. /\ Buffered(m) \in SUBSET Int /\ IsFiniteSet(Buffered(m)) /\ m \in Buffered(m)
      /\ (\A i \in Buffered(m) : i <= m)
      /\ stateTime \in Buffered(m) /\ stateTime < m /\ stateTime \in Int /\ m \in Int
  BY <1>1, BufferFacts DEF IInv, TypeOK
<1>3. Propagated(Buffered(m), stateTime, m) = m
  BY <1>2, PropagationArrives
<1>4. stateTime' = m /\ clones' = clones /\ imuPose' = {m} \ clones /\ fatal' = "none"
  BY <1>1, <1>3 DEF Advance
<1>5. \A c \in clones : c \in Int /\ c <= stateTime
  BY <1>1 DEF IInv, CaughtUp, Poses, TypeOK
<1>6. \A c \in clones : c <= m
  BY <1>2, <1>5
<1>7. TypeOK'
  BY <1>1, <1>2, <1>4 DEF TypeOK, IInv, Fatal, Drivers
<1>8. CaughtUp'
  BY <1>1, <1>2, <1>4, <1>6 DEF CaughtUp, Poses
<1>9. /\ NoFatalExit' /\ EmptyBeforeInit' /\ ImuPoseIsNow' /\ NewestStays'
      /\ KeyframesHeld' /\ WindowBound' /\ CloneSpacing'
  BY <1>1, <1>4 DEF IInv, NoFatalExit, EmptyBeforeInit, ImuPoseIsNow, NewestStays,
     KeyframesHeld, WindowBound, CloneSpacing
<1>10. keyframes \subseteq keyframes' \cap clones' /\ clones \ clones' = {}
  BY <1>1, <1>4 DEF IInv, KeyframesHeld
<1>11. IInv'
  BY <1>1, <1>2, <1>7, <1>8, <1>9 DEF IInv
<1>12. AsPromised
  BY <1>1, <1>2, <1>4 DEF AsPromised, Promised!Next, Promised!Move
<1> QED BY <1>1, <1>2, <1>4, <1>10, <1>11, <1>12, WithoutClone

-----------------------------------------------------------------------------
(* The other sensors *)

\* Recording a stamp and correcting the offsets keep their types.
LEMMA RecordTypes ==
    ASSUME TypeOK, NEW s \in Drivers, NEW t \in SensorStamps,
           hist' = Recorded(s, t), Corrected \/ UNCHANGED offset
    PROVE  hist' \in [Drivers -> SUBSET SensorStamps] /\ offset' \in [Drivers -> Offsets]
<1>1. {u \in hist[s] : Cardinality(hist[s]) > HistCap => \E v \in hist[s] : v < u} \cup {t}
        \in SUBSET SensorStamps
  BY DEF TypeOK
<1> QED BY <1>1 DEF TypeOK, Recorded, Corrected

\* A camera, LiDAR or VICON message moves stamps and offsets only.
LEMMA SensorPreserves ==
    ASSUME IInv, NEW s \in Sensors, NEW t \in SensorStamps, FeedSensor(s, t) PROVE Preserved
<1>1. /\ hist' = Recorded(s, t)
      /\ UNCHANGED <<initialized, stateTime, imu, clones, imuPose, keyframes, candidates, gpsInit, fatal>>
  BY DEF FeedSensor
<1>2. Corrected \/ UNCHANGED offset
  BY DEF FeedSensor
<1>3. hist' \in [Drivers -> SUBSET SensorStamps] /\ offset' \in [Drivers -> Offsets]
  BY <1>1, <1>2, RecordTypes DEF Drivers, IInv
<1>4. TypeOK'
  BY <1>1, <1>3 DEF IInv, TypeOK
<1>5. /\ IsFiniteSet(imu') /\ NoFatalExit' /\ EmptyBeforeInit' /\ CaughtUp' /\ ImuPoseIsNow' /\ NewestStays'
      /\ KeyframesHeld' /\ WindowBound' /\ CloneSpacing'
  BY <1>1 DEF IInv, NoFatalExit, EmptyBeforeInit, CaughtUp, Poses, ImuPoseIsNow, NewestStays,
     KeyframesHeld, WindowBound, CloneSpacing
<1>6. keyframes \subseteq keyframes' \cap clones' /\ clones \ clones' = {}
  BY <1>1 DEF IInv, KeyframesHeld
<1>7. IInv'
  BY <1>4, <1>5 DEF IInv
<1>8. AsPromised
  BY <1>1 DEF AsPromised
<1> QED BY <1>1, <1>6, <1>7, <1>8, WithoutClone

\* A wheel message moves offsets only.
LEMMA WheelStep == ASSUME IInv, FeedWheel PROVE Preserved
<1>1. UNCHANGED <<initialized, stateTime, imu, clones, imuPose, keyframes, candidates, hist, gpsInit, fatal>>
  BY DEF FeedWheel
<1>2. TypeOK'
  BY <1>1 DEF IInv, TypeOK, FeedWheel, Corrected
<1>3. /\ IsFiniteSet(imu') /\ NoFatalExit' /\ EmptyBeforeInit' /\ CaughtUp' /\ ImuPoseIsNow' /\ NewestStays'
      /\ KeyframesHeld' /\ WindowBound' /\ CloneSpacing'
  BY <1>1 DEF IInv, NoFatalExit, EmptyBeforeInit, CaughtUp, Poses, ImuPoseIsNow, NewestStays,
     KeyframesHeld, WindowBound, CloneSpacing
<1>4. keyframes \subseteq keyframes' \cap clones' /\ clones \ clones' = {}
  BY <1>1 DEF IInv, KeyframesHeld
<1>5. IInv'
  BY <1>2, <1>3 DEF IInv
<1>6. AsPromised
  BY <1>1 DEF AsPromised
<1> QED BY <1>1, <1>4, <1>5, <1>6, WithoutClone

\* The candidates add_keyframes appends are clones, and not listed yet.
LEMMA NewCandidatesAreClones ==
    ASSUME IInv, NEW t \in Int, NEW far \in BOOLEAN
    PROVE  NewCandidates(t, far) \subseteq clones \ (keyframes \cup candidates)
<1> DEFINE latest(S, u) == {k \in S : k < u /\ \A c \in S : c < u => c <= k}
<1>1. KeyframeFor(t) = IF latest(Poses, t) \subseteq clones THEN latest(Poses, t)
                       ELSE UNION {latest(Poses, k) : k \in latest(Poses, t)}
  BY DEF KeyframeFor
<1>2. ASSUME NEW j \in latest(Poses, t), j \notin clones, NEW k \in latest(Poses, t),
             NEW q \in latest(Poses, k)
      PROVE  q \in clones
  <2>1. j = stateTime /\ Poses \subseteq Int
    BY <1>2 DEF Poses, IInv, ImuPoseIsNow, TypeOK
  <2>2. j = k
    BY <1>2, <2>1
  <2>3. q # stateTime
    BY <1>2, <2>1, <2>2
  <2> QED BY <2>3 DEF Poses, IInv, ImuPoseIsNow
<1>3. KeyframeFor(t) \subseteq clones
  BY <1>1, <1>2
<1> QED BY <1>3 DEF NewCandidates

\* Dropping the keyframes leaves the newest clone, or none at all.
LEMMA DropPreserves ==
    ASSUME IInv, initialized, DropKeyframes, UNCHANGED <<stateTime, imu, imuPose>>
    PROVE  /\ clones' \subseteq clones /\ keyframes' = {} /\ candidates' = {}
           /\ stateTime \in clones' \cup imuPose
           /\ NewestStays' /\ WindowBound' /\ CloneSpacing'
           /\ \A c \in clones \ clones' : \E n \in clones' \cup imuPose' : n - c > Window
           /\ clones' = clones \ Promised!Behind(clones, stateTime)
<1> USE LimitsAreNatural
<1>1. /\ clones' = {c \in clones : \A n \in Poses : ~(n - c > Window)}
      /\ keyframes' = {} /\ candidates' = {}
  BY DEF DropKeyframes, Expired, Poses
<1>2. /\ Poses \subseteq Int /\ clones \subseteq Int /\ stateTime \in Poses
      /\ \A n \in Poses : n <= stateTime
  BY DEF IInv, TypeOK, CaughtUp, Poses
<1>3. stateTime \in clones' \cup imuPose
  BY <1>1, <1>2 DEF Poses
<1>4. NewestStays'
  <2> SUFFICES ASSUME clones' # {}
               PROVE  \E n \in clones' : \A c \in clones' : c <= n
    BY <1>1 DEF NewestStays
  <2>1. PICK n \in clones : \A c \in clones : c <= n
    BY <1>1 DEF NewestStays, IInv
  <2>2. PICK c \in clones' : TRUE
    OBVIOUS
  <2>3. c \in clones /\ c <= n /\ \A q \in Poses : ~(q - c > Window)
    BY <1>1, <2>1, <2>2
  <2>4. \A q \in Poses : ~(q - n > Window)
    BY <1>2, <2>1, <2>3
  <2>5. n \in clones'
    BY <1>1, <2>1, <2>4
  <2> QED BY <1>1, <2>1, <2>5
<1>5. WindowBound'
  BY <1>1, <1>2 DEF WindowBound, Poses
<1>6. CloneSpacing'
  BY <1>1 DEF IInv, CloneSpacing
<1>7. ASSUME NEW c \in clones \ clones' PROVE \E n \in clones' \cup imuPose' : n - c > Window
  <2>1. PICK n \in Poses : n - c > Window
    BY <1>1
  <2>2. stateTime - c > Window
    BY <1>2, <2>1
  <2> QED BY <1>3, <2>2
<1>8. clones' = clones \ Promised!Behind(clones, stateTime)
  <2>1. \A c \in clones : (\A n \in Poses : ~(n - c > Window)) <=> ~(stateTime - c > Window)
    BY <1>2
  <2> QED BY <1>1, <2>1 DEF Promised!Behind
<1> QED BY <1>1, <1>3, <1>4, <1>5, <1>6, <1>7, <1>8

\* The invariant after either GNSS handler, from what they have in common.
LEMMA GnssStep ==
    ASSUME IInv, initialized, NEW s \in Gnss, NEW t \in SensorStamps,
           hist' = Recorded(s, t), Corrected \/ UNCHANGED offset,
           UNCHANGED <<initialized, stateTime, imu, imuPose, fatal>>, gpsInit' \in BOOLEAN,
           \/ DropKeyframes /\ keyframes # {} /\ gpsInit'
           \/ /\ candidates \subseteq candidates'
              /\ candidates' \ candidates \subseteq clones \ (keyframes \cup candidates)
              /\ UNCHANGED <<keyframes, clones>>
    PROVE  Preserved
<1>1. hist' \in [Drivers -> SUBSET SensorStamps] /\ offset' \in [Drivers -> Offsets]
  BY RecordTypes DEF Drivers, IInv
<1>2. CASE DropKeyframes /\ keyframes # {} /\ gpsInit'
  <2>1. /\ clones' \subseteq clones /\ keyframes' = {} /\ candidates' = {}
        /\ stateTime \in clones' \cup imuPose
        /\ NewestStays' /\ WindowBound' /\ CloneSpacing'
        /\ \A c \in clones \ clones' : \E n \in clones' \cup imuPose' : n - c > Window
        /\ clones' = clones \ Promised!Behind(clones, stateTime)
    BY <1>2, DropPreserves
  <2>2. TypeOK'
    BY <1>1, <2>1 DEF IInv, TypeOK
  <2>3. NoFatalExit' /\ EmptyBeforeInit' /\ CaughtUp' /\ ImuPoseIsNow' /\ KeyframesHeld'
    BY <2>1 DEF IInv, NoFatalExit, EmptyBeforeInit, CaughtUp, Poses, ImuPoseIsNow, KeyframesHeld
  <2>4. IsFiniteSet(imu')
    BY DEF IInv
  <2>5. IInv'
    BY <2>1, <2>2, <2>3, <2>4 DEF IInv
  <2>6. AsPromised
    BY <1>2, <2>1 DEF AsPromised, Promised!Next, Promised!LetGo
  <2> QED BY <1>2, <2>1, <2>5, <2>6, WithoutClone
<1>3. CASE /\ candidates \subseteq candidates'
           /\ candidates' \ candidates \subseteq clones \ (keyframes \cup candidates)
           /\ UNCHANGED <<keyframes, clones>>
  <2>1. KeyframesHeld'
    BY <1>3 DEF IInv, KeyframesHeld
  <2>2. TypeOK'
    BY <1>1, <1>3, <2>1 DEF IInv, TypeOK, KeyframesHeld
  <2>3. NoFatalExit' /\ EmptyBeforeInit' /\ CaughtUp' /\ ImuPoseIsNow' /\ IsFiniteSet(imu')
    BY <1>3 DEF IInv, NoFatalExit, EmptyBeforeInit, CaughtUp, Poses, ImuPoseIsNow
  <2>4. NewestStays' /\ WindowBound' /\ CloneSpacing'
    BY <1>3 DEF IInv, NewestStays, WindowBound, CloneSpacing
  <2>5. keyframes \subseteq keyframes' \cap clones' /\ clones \ clones' = {}
    BY <1>3 DEF IInv, KeyframesHeld
  <2>6. IInv'
    BY <2>1, <2>2, <2>3, <2>4 DEF IInv
  <2>7. AsPromised
    BY <1>3 DEF AsPromised
  <2> QED BY <1>3, <2>5, <2>6, <2>7, WithoutClone
<1> QED BY <1>2, <1>3

\* A GNSS message before the initialization of its frame, or the one that makes it.
LEMMA GnssToInitStep ==
    ASSUME IInv, NEW s \in Gnss, NEW t \in SensorStamps, NEW far \in BOOLEAN, NEW success \in BOOLEAN,
           FeedGnssToInit(s, t, far, success)
    PROVE  Preserved
<1> USE StampsAreTimes
<1>1. t + offset[s] \in Int
  <2>1. offset[s] \in Offsets
    BY DEF IInv, TypeOK, Drivers
  <2>2. offset[s] \in Int /\ t \in Int
    BY <2>1
  <2> QED BY <2>2
<1>2. ~LosesKeyframe(t + offset[s])
  BY DEF LosesKeyframe, Poses, IInv, KeyframesHeld
<1>3. /\ initialized /\ hist' = Recorded(s, t) /\ gpsInit' = success
      /\ UNCHANGED <<initialized, stateTime, imu, imuPose, fatal>>
      /\ \/ success /\ keyframes # {} /\ DropKeyframes
         \/ /\ candidates' = candidates \cup NewCandidates(t + offset[s], far)
            /\ UNCHANGED <<keyframes, clones>>
  BY <1>2 DEF FeedGnssToInit
<1>4. Corrected \/ UNCHANGED offset
  BY <1>2 DEF FeedGnssToInit
<1>5. NewCandidates(t + offset[s], far) \subseteq clones \ (keyframes \cup candidates)
  BY <1>1, NewCandidatesAreClones
<1> QED BY <1>3, <1>4, <1>5, GnssStep

\* A GNSS message afterwards, which drops keyframes that are left.
LEMMA GnssAfterInitStep ==
    ASSUME IInv, NEW s \in Gnss, NEW t \in SensorStamps, FeedGnss(s, t) PROVE Preserved
<1>1. /\ initialized /\ gpsInit /\ hist' = Recorded(s, t)
      /\ UNCHANGED <<initialized, stateTime, imu, imuPose, gpsInit, fatal>>
      /\ (keyframes # {} /\ DropKeyframes) \/ UNCHANGED <<keyframes, candidates, clones>>
  BY DEF FeedGnss
<1>2. Corrected
  BY DEF FeedGnss
<1>3. gpsInit' /\ gpsInit' \in BOOLEAN
  BY <1>1 DEF IInv, TypeOK
<1> QED BY <1>1, <1>2, <1>3, GnssStep

-----------------------------------------------------------------------------
(* The theorems *)

\* Every step of the system, whichever message it handles, keeps the invariant, the
\* keyframes that still wait for the GNSS, and every clone inside the window.
LEMMA StepPreserves == ASSUME IInv, NoGt, [Next]_vars PROVE Preserved
<1>1. CASE UNCHANGED vars
  <2>1. IInv'
    BY <1>1 DEF vars, IInv, TypeOK, NoFatalExit, EmptyBeforeInit, CaughtUp, Poses, NewestStays,
       ImuPoseIsNow, KeyframesHeld, WindowBound, CloneSpacing
  <2>2. AsPromised
    BY <1>1 DEF AsPromised, vars
  <2> QED BY <1>1, <2>1, <2>2, WithoutClone DEF vars, IInv, KeyframesHeld
<1>2. ASSUME NEW m \in ImuStamps, InitFails(m) PROVE Preserved
  BY <1>2, InitFailsStep
<1>3. ASSUME NEW m \in ImuStamps, NEW t0 \in ImuStamps \cup GtStamps, Initialize(m, t0) PROVE Preserved
  BY <1>3, InitializeStep
<1>4. ASSUME NEW m \in ImuStamps, FeedImuFirstClone(m) PROVE Preserved
  BY <1>4, FirstCloneStep
<1>5. ASSUME NEW m \in ImuStamps, NEW p \in Periods, FeedImuClone(m, p) PROVE Preserved
  BY <1>5, CloneStep
<1>6. ASSUME NEW m \in ImuStamps, NEW p \in Periods, FeedImuOnly(m, p) PROVE Preserved
  BY <1>6, ImuOnlyStep
<1>7. ASSUME NEW s \in Sensors, NEW t \in SensorStamps, FeedSensor(s, t) PROVE Preserved
  BY <1>7, SensorPreserves
<1>8. ASSUME NEW s \in Gnss, NEW t \in SensorStamps, NEW far \in BOOLEAN, NEW success \in BOOLEAN,
             FeedGnssToInit(s, t, far, success)
      PROVE  Preserved
  BY <1>8, GnssToInitStep
<1>9. ASSUME NEW s \in Gnss, NEW t \in SensorStamps, FeedGnss(s, t) PROVE Preserved
  BY <1>9, GnssAfterInitStep
<1>10. ASSUME FeedWheel PROVE Preserved
  BY <1>10, WheelStep
<1> QED BY <1>1, <1>2, <1>3, <1>4, <1>5, <1>6, <1>7, <1>8, <1>9, <1>10
  DEF Next, ImuStep, ImuMessage, SensorStep

\* The handlers of the other sensors, the wheels included: they put no clone into the window.
OtherStep == SensorStep \/ FeedWheel

\* The two kinds of handlers are all there are.
LEMMA StepsAreNext == (ImuStep \/ OtherStep) => Next
BY DEF OtherStep, Next

\* The clone an IMU message adds is the only one.
LEMMA OneCloneAdded ==
    ASSUME ImuStep PROVE \E t : clones' \subseteq clones \cup {t}
<1>1. ASSUME NEW m, NEW buf, NEW ct, NEW t0, AddClone(ct, m, buf, t0)
      PROVE  \E t : clones' \subseteq clones \cup {t}
  BY <1>1 DEF AddClone, Stop, Advance
<1>2. PICK m \in ImuStamps : ImuMessage(m)
  BY DEF ImuStep
<1>3. CASE InitFails(m)
  BY <1>3 DEF InitFails
<1>4. CASE \E t0 \in ImuStamps \cup GtStamps : Initialize(m, t0)
  BY <1>1, <1>4 DEF Initialize
<1>5. CASE FeedImuFirstClone(m)
  BY <1>1, <1>5 DEF FeedImuFirstClone
<1>6. CASE \E p \in Periods : FeedImuClone(m, p)
  BY <1>1, <1>6 DEF FeedImuClone
<1>7. CASE \E p \in Periods : FeedImuOnly(m, p)
  BY <1>7 DEF FeedImuOnly, Advance
<1> QED BY <1>2, <1>3, <1>4, <1>5, <1>6, <1>7 DEF ImuMessage

\* After an IMU message the initialized filter has arrived at it: the message is the
\* newest reading of the buffer.
LEMMA ArrivesAtMessage ==
    ASSUME IInv, IInv', NEW m \in ImuStamps, ImuMessage(m), initialized'
    PROVE  stateTime' = m /\ (initialized => stateTime < m)
<1> USE StampsAreTimes
<1>1. NewImu(m) /\ imu' = Buffered(m)
  BY DEF ImuMessage, InitFails, Initialize, FeedImuFirstClone, FeedImuClone, FeedImuOnly
<1>2. m \in Buffered(m) /\ (\A i \in Buffered(m) : i <= m) /\ (initialized => stateTime < m)
  BY <1>1, BufferFacts
<1>3. stateTime' \in imu' /\ (\A i \in imu' : i <= stateTime') /\ stateTime' \in Int
  BY DEF IInv, CaughtUp, TypeOK
<1>4. stateTime' <= m /\ m <= stateTime'
  BY <1>1, <1>2, <1>3
<1> QED BY <1>2, <1>3, <1>4

\* With a new clone at t, the rest of the handler propagates from there; without one, the
\* handler failed to initialize or propagated only.
LEMMA TailOfHandler ==
    ASSUME IInv, IInv', NEW m \in ImuStamps, ImuMessage(m)
    PROVE  /\ \A t \in clones' \ clones : stateTime' = Propagated(imu', t, m) /\ initialized'
           /\ clones' \ clones = {} =>
                \/ InitFails(m)
                \/ /\ initialized /\ initialized' /\ clones' = clones /\ clones # {}
                   /\ keyframes' = keyframes
                   /\ stateTime' = Propagated(imu', stateTime, m)
<1>1. fatal' = "none"
  BY DEF IInv, NoFatalExit
<1>2. ASSUME NEW ct, NEW t0, imu' = Buffered(m), AddClone(ct, m, Buffered(m), t0), initialized'
      PROVE  /\ \A t \in clones' \ clones : stateTime' = Propagated(imu', t, m)
             /\ clones' \ clones # {}
  <2> DEFINE t == Propagated(Buffered(m), t0, ct)
             cl == clones \cup {t}
             kept == cl \ (Expired(cl, {}, keyframes) \ candidates)
  <2>1. t \notin clones /\ t \in kept /\ Advance(m, Buffered(m), t, kept)
    BY <1>1, <1>2 DEF AddClone, Stop
  <2>2. clones' = kept /\ stateTime' = Propagated(Buffered(m), t, m)
    BY <2>1 DEF Advance
  <2>3. \A u \in clones' \ clones : u = t
    BY <2>2
  <2> HIDE DEF t, kept
  <2> QED BY <1>2, <2>1, <2>2, <2>3
<1>3. CASE InitFails(m)
  BY <1>3 DEF InitFails
<1>4. CASE \E t0 \in ImuStamps \cup GtStamps : Initialize(m, t0)
  BY <1>2, <1>4 DEF Initialize
<1>5. CASE FeedImuFirstClone(m)
  BY <1>2, <1>5 DEF FeedImuFirstClone
<1>6. CASE \E p \in Periods : FeedImuClone(m, p)
  BY <1>2, <1>6 DEF FeedImuClone
<1>7. CASE \E p \in Periods : FeedImuOnly(m, p)
  BY <1>7 DEF FeedImuOnly, Advance
<1> QED BY <1>3, <1>4, <1>5, <1>6, <1>7 DEF ImuMessage

\* The other handlers leave time, the IMU data and pose alone; they drop keyframes and close the
\* window around the state time, from the oldest clone on, or keep both.
LEMMA OtherHandlers ==
    ASSUME IInv, OtherStep
    PROVE  /\ UNCHANGED <<initialized, stateTime, imu, imuPose>>
           /\ \/ keyframes' = keyframes /\ clones' = clones
              \/ /\ \A c \in clones' : c \in clones /\ stateTime - c <= Window
                 /\ \A c \in clones, d \in clones' : d <= c => c \in clones'
                 /\ keyframes' = {}
<1> USE LimitsAreNatural
<1>1. ASSUME DropKeyframes, initialized
      PROVE  /\ \A c \in clones' : c \in clones /\ stateTime - c <= Window
             /\ \A c \in clones, d \in clones' : d <= c => c \in clones'
             /\ keyframes' = {}
  <2>1. clones' = {c \in clones : \A n \in Poses : ~(n - c > Window)} /\ keyframes' = {}
    BY <1>1 DEF DropKeyframes, Expired, Poses
  <2>2. /\ Poses \subseteq Int /\ clones \subseteq Int /\ stateTime \in Poses
        /\ stateTime \in Int
    BY <1>1 DEF IInv, TypeOK, CaughtUp, Poses
  <2>3. \A c \in clones' : c \in clones /\ stateTime - c <= Window
    BY <2>1, <2>2
  <2>4. ASSUME NEW c \in clones, NEW d \in clones', d <= c, NEW n \in Poses PROVE ~(n - c > Window)
    <3>1. c \in Int /\ d \in Int /\ n \in Int /\ ~(n - d > Window)
      BY <2>1, <2>2
    <3> QED BY <2>4, <3>1
  <2> QED BY <2>1, <2>3, <2>4
<1>2. CASE \E s \in Sensors, t \in SensorStamps : FeedSensor(s, t)
  BY <1>2 DEF FeedSensor
<1>3. CASE \E s \in Gnss, t \in SensorStamps : FeedGnss(s, t)
  BY <1>1, <1>3 DEF FeedGnss
<1>4. ASSUME NEW s \in Gnss, NEW t \in SensorStamps, NEW far \in BOOLEAN, NEW success \in BOOLEAN,
             FeedGnssToInit(s, t, far, success)
      PROVE  /\ UNCHANGED <<initialized, stateTime, imu, imuPose>>
             /\ (keyframes' = keyframes /\ clones' = clones) \/ (DropKeyframes /\ initialized)
  BY <1>4 DEF FeedGnssToInit, Stop
<1>5. CASE FeedWheel
  BY <1>5 DEF FeedWheel
<1> QED BY <1>1, <1>2, <1>3, <1>4, <1>5 DEF OtherStep, SensorStep

\* No other handler adds one.
LEMMA NoCloneAdded == ASSUME OtherStep PROVE clones' \subseteq clones
<1>1. ASSUME NEW s \in Sensors, NEW t \in SensorStamps, FeedSensor(s, t) PROVE clones' \subseteq clones
  BY <1>1 DEF FeedSensor
<1>2. ASSUME NEW s \in Gnss, NEW t \in SensorStamps, FeedGnss(s, t) PROVE clones' \subseteq clones
  BY <1>2 DEF FeedGnss, DropKeyframes
<1>3. ASSUME NEW s \in Gnss, NEW t \in SensorStamps, NEW far \in BOOLEAN, NEW success \in BOOLEAN,
             FeedGnssToInit(s, t, far, success)
      PROVE  clones' \subseteq clones
  BY <1>3 DEF FeedGnssToInit, DropKeyframes, Stop
<1>4. CASE FeedWheel
  BY <1>4 DEF FeedWheel
<1> QED BY <1>1, <1>2, <1>3, <1>4 DEF OtherStep, SensorStep

\* The window stays finite.
LEMMA FiniteStays ==
    ASSUME IsFiniteSet(clones), ImuStep \/ OtherStep PROVE IsFiniteSet(clones')
<1>1. PICK t : clones' \subseteq clones \cup {t}
  BY OneCloneAdded, NoCloneAdded
<1>2. IsFiniteSet(clones \cup {t})
  BY FS_AddElement
<1> QED BY <1>1, <1>2, FS_Subset

\* An IMU message adds itself to the buffer and nothing else.
LEMMA BufferGrows ==
    ASSUME NEW m \in ImuStamps, ImuMessage(m) PROVE imu' \subseteq imu \cup {m}
<1>1. Buffered(m) \subseteq imu \cup {m}
  BY DEF Buffered
<1>2. imu' \subseteq Buffered(m)
  BY DEF ImuMessage, InitFails, Initialize, FeedImuFirstClone, FeedImuClone, FeedImuOnly
<1> QED BY <1>1, <1>2

\* A new clone is not before the IMU data nor after the state, and the clones that become
\* keyframes with it are more than the window older.
LEMMA NewCloneFacts ==
    ASSUME IInv, IInv', NoGt, NEW m \in ImuStamps, ImuMessage(m), NEW ct \in clones' \ clones
    PROVE  /\ ct \in Int /\ ct <= stateTime'
           /\ \E i \in imu' : i <= ct
           /\ \A k \in keyframes' \ keyframes : ct - k > Window
<1> USE StampsAreTimes, LimitsAreNatural
<1>1. /\ clones' \in SUBSET Int /\ clones \in SUBSET Int /\ keyframes \in SUBSET Int
      /\ stateTime \in Int /\ stateTime' \in Int
  BY DEF IInv, TypeOK
<1>2. initialized' /\ ct <= stateTime'
  <2>1. initialized'
    BY TailOfHandler
  <2> QED BY <2>1 DEF IInv, CaughtUp, Poses
<1>3. NewestClone
  <2>1. [Next]_vars
    BY DEF Next, ImuStep
  <2> QED BY <2>1, StepPreserves DEF Preserved
<1>4. NewImu(m)
  BY DEF ImuMessage, InitFails, Initialize, FeedImuFirstClone, FeedImuClone, FeedImuOnly
<1>5. ASSUME NEW at, NEW t0, imu' = Buffered(m), AddClone(at, m, Buffered(m), t0)
      PROVE  /\ ct = Propagated(Buffered(m), t0, at)
             /\ \A k \in keyframes' \ keyframes : ct - k > Window
  <2> DEFINE t == Propagated(Buffered(m), t0, at)
             cl == clones \cup {t}
             old == Expired(cl, {}, keyframes)
             kept == cl \ (old \ candidates)
  <2>1. fatal' = "none"
    BY DEF IInv, NoFatalExit
  <2>2. keyframes' = keyframes \cup (old \cap candidates) /\ Advance(m, Buffered(m), t, kept)
    BY <1>5, <2>1 DEF AddClone, Stop
  <2>3. clones' = kept
    BY <2>2 DEF Advance
  <2>4. ct = t
    <3> HIDE DEF t, old
    <3> QED BY <2>3
  <2>5. ASSUME NEW k \in keyframes' \ keyframes PROVE ct - k > Window
    <3>1. k \in old /\ k \in clones
      BY <2>2 DEF IInv, KeyframesHeld
    <3>2. PICK n \in cl : n - k > Window
      BY <3>1 DEF Expired
    <3>3. n \in Int /\ n <= ct /\ k \in Int
      BY <1>1, <1>3, <2>4, <3>1 DEF NewestClone
    <3> HIDE DEF cl, old
    <3> QED BY <1>1, <3>2, <3>3
  <2> QED BY <2>4, <2>5
<1>6. \E i \in imu' : i <= ct
  <2>1. CASE initialized
    <3>1. stateTime <= ct
      BY <1>3, <2>1 DEF NewestClone
    <3>2. stateTime \in Buffered(m)
      BY <1>4, <2>1, BufferFacts
    <3>3. imu' = Buffered(m)
      BY <2>1 DEF ImuMessage, InitFails, Initialize, FeedImuFirstClone, FeedImuClone, FeedImuOnly
    <3> QED BY <3>1, <3>2, <3>3
  <2>2. CASE ~initialized
    <3>1. PICK t0 \in ImuStamps \cup GtStamps : Initialize(m, t0)
      BY <1>2, <2>2 DEF ImuMessage, InitFails, FeedImuFirstClone, FeedImuClone, FeedImuOnly
    <3>2. /\ imu' = Buffered(m) /\ AddClone(t0, m, Buffered(m), t0)
          /\ \E i \in Buffered(m) : i <= t0
      BY <3>1 DEF Initialize, InitTimes, NoGt, UseGt
    <3>3. ct = t0
      BY <1>5, <3>2 DEF Propagated
    <3> QED BY <3>2, <3>3
  <2> QED BY <2>1, <2>2
<1>7. \A k \in keyframes' \ keyframes : ct - k > Window
  BY <1>5 DEF ImuMessage, InitFails, Initialize, FeedImuFirstClone, FeedImuClone, FeedImuOnly, Advance
<1> QED BY <1>1, <1>2, <1>6, <1>7

\* What is far behind a time is far behind a later one.
LEMMA FurtherBehind ==
    ASSUME NEW k \in Int, NEW n \in Int, NEW later \in Int, NEW w \in Int, n <= later, n - k > w
    PROVE  later - k > w /\ \A p \in Int : later - p <= w => k < p
OBVIOUS

\* A keyframe is more than the window behind the state: it would have been marginalized
\* otherwise.
KeyframesBehind == \A k \in keyframes : stateTime - k > Window

\* A clone, or the time of one that was: older than every pose that is no keyframe.
Current(a) == a \in clones \/ \A p \in Poses \ keyframes : a < p

\* What the handlers do to clones and keyframes: an IMU message makes a clone, or leaves
\* them alone, as the others do unless they drop the keyframes.
LEMMA KindsOfSteps ==
    ASSUME IInv, IInv', ImuStep \/ OtherStep
    PROVE  \/ ImuStep /\ clones' \ clones # {}
           \/ keyframes' = keyframes /\ clones' = clones
           \/ /\ OtherStep /\ UNCHANGED <<stateTime, imuPose>> /\ keyframes' = {}
              /\ \A c \in clones' : c \in clones /\ stateTime - c <= Window
<1>1. CASE ImuStep /\ clones' \ clones = {}
  <2>1. PICK m \in ImuStamps : ImuMessage(m)
    BY <1>1 DEF ImuStep
  <2>2. CASE InitFails(m)
    BY <2>2 DEF InitFails
  <2>3. CASE ~InitFails(m)
    BY <1>1, <2>1, <2>3, TailOfHandler
  <2> QED BY <2>2, <2>3
<1>2. CASE OtherStep
  BY <1>2, OtherHandlers
<1> QED BY <1>1, <1>2

\* Keyframes stay behind.
LEMMA KeyframesStayBehind ==
    ASSUME IInv, IInv', NoGt, KeyframesBehind, ImuStep \/ OtherStep PROVE KeyframesBehind'
<1> USE LimitsAreNatural
<1>1. /\ stateTime \in Int /\ stateTime' \in Int
      /\ keyframes \in SUBSET Int /\ keyframes' \in SUBSET Int
  BY DEF IInv, TypeOK
<1>2. keyframes # {} => stateTime <= stateTime'
  <2>1. initialized => stateTime <= stateTime'
    BY StepsAreNext, StepPreserves DEF Preserved
  <2> QED BY <2>1 DEF IInv, EmptyBeforeInit
<1>3. ASSUME NEW k \in keyframes' \ keyframes PROVE stateTime' - k > Window
  <2>1. ImuStep /\ clones' \ clones # {}
    BY KindsOfSteps
  <2>2. PICK m \in ImuStamps : ImuMessage(m)
    BY <2>1 DEF ImuStep
  <2>3. PICK ct \in clones' \ clones : TRUE
    BY <2>1
  <2>4. ct \in Int /\ ct <= stateTime' /\ ct - k > Window
    BY <2>2, NewCloneFacts
  <2>5. k \in Int /\ Window \in Int /\ stateTime' \in Int
    BY <1>1
  <2> QED BY <2>4, <2>5, FurtherBehind
<1>4. ASSUME NEW k \in keyframes PROVE stateTime' - k > Window
  <2>1. k \in Int /\ stateTime - k > Window /\ stateTime <= stateTime'
    BY <1>1, <1>2 DEF KeyframesBehind
  <2>2. Window \in Int /\ stateTime \in Int /\ stateTime' \in Int
    BY <1>1
  <2> QED BY <2>1, <2>2, FurtherBehind
<1> QED BY <1>3, <1>4 DEF KeyframesBehind

\* The poses of an initialized filter reach up to its state, which is no keyframe.
LEMMA StateIsPose ==
    ASSUME IInv, initialized PROVE stateTime \in Poses \ keyframes
<1>1. stateTime \in Poses /\ (\A c \in Poses : c <= stateTime) /\ stateTime \in Int /\ clones \in SUBSET Int
  BY DEF IInv, CaughtUp, TypeOK
<1>2. CASE stateTime \in imuPose
  BY <1>1, <1>2 DEF IInv, ImuPoseIsNow, KeyframesHeld
<1>3. CASE stateTime \in clones
  <2>1. PICK n \in clones \ keyframes : \A c \in clones : c <= n
    BY <1>3 DEF IInv, NewestStays
  <2>2. n = stateTime
    <3>1. n <= stateTime /\ stateTime <= n /\ n \in Int
      BY <1>1, <1>3, <2>1 DEF Poses
    <3> QED BY <1>1, <3>1
  <2> QED BY <1>1, <2>1, <2>2
<1> QED BY <1>1, <1>2, <1>3 DEF Poses

\* A clone that leaves is older than every pose that stays, keyframes aside.
LEMMA LeavingIsBehind ==
    ASSUME IInv, IInv', NoGt, ImuStep \/ OtherStep,
           NEW a \in clones \ clones', NEW p \in Poses' \ keyframes'
    PROVE  a < p
<1> USE LimitsAreNatural
<1>1. /\ clones \in SUBSET Int /\ clones' \in SUBSET Int /\ imuPose' \in SUBSET Int
      /\ stateTime' \in Int /\ a \in Int /\ p \in Int
  BY DEF IInv, TypeOK, Poses
<1>2. initialized'
  <2>1. initialized
    BY DEF IInv, EmptyBeforeInit
  <2> QED BY <2>1, StepsAreNext, StepPreserves DEF Preserved
<1>3. \A c \in Poses' : c <= stateTime'
  BY <1>2 DEF IInv, CaughtUp
<1>4. imuPose' \subseteq {stateTime'}
  BY DEF IInv, ImuPoseIsNow
<1>5. CASE ImuStep /\ clones' \ clones # {}
  <2>1. PICK n \in clones' : n - a > Window
    BY <1>5, StepsAreNext, StepPreserves DEF Preserved, NewestClone
  <2>2. CASE p \in clones'
    <3>1. n - p <= Window
      BY <2>2 DEF IInv, WindowBound
    <3> QED BY <1>1, <2>1, <3>1
  <2>3. CASE p \in imuPose'
    <3>1. n <= p
      BY <1>3, <1>4, <2>3 DEF Poses
    <3> QED BY <1>1, <2>1, <3>1
  <2> QED BY <2>2, <2>3 DEF Poses
<1>6. CASE \A c \in clones' : c \in clones /\ stateTime' - c <= Window
  <2>1. PICK n \in clones' \cup imuPose' : n - a > Window
    BY StepsAreNext, StepPreserves DEF Preserved
  <2>2. n \in Int /\ n <= stateTime'
    BY <1>1, <1>3 DEF Poses
  <2>3. CASE p \in clones'
    <3>1. stateTime' - p <= Window
      BY <1>6, <2>3
    <3>2. Window \in Int
      OBVIOUS
    <3> QED BY <1>1, <2>1, <2>2, <3>1, <3>2, FurtherBehind
  <2>4. CASE p \in imuPose'
    <3>1. n <= p
      BY <2>2, <1>4, <2>4
    <3> QED BY <1>1, <2>1, <2>2, <3>1
  <2> QED BY <2>3, <2>4 DEF Poses
<1> QED BY <1>5, <1>6, KindsOfSteps

\* A time that is a clone, or older than the poses, stays one of the two.
LEMMA CurrentStays ==
    ASSUME IInv, IInv', NoGt, KeyframesBehind, ImuStep \/ OtherStep, initialized,
           NEW a \in Int, Current(a)
    PROVE  Current(a)'
<1> USE LimitsAreNatural
<1>1. CASE a \in clones
  BY <1>1, LeavingIsBehind DEF Current
<1>2. CASE a \notin clones
  <2> SUFFICES ASSUME NEW p \in Poses' \ keyframes' PROVE a < p
    BY DEF Current
  <2>1. a < stateTime
    BY <1>2, StateIsPose DEF Current
  <2>2. /\ stateTime \in Int /\ stateTime' \in Int /\ p \in Int /\ stateTime <= stateTime'
        /\ imuPose' \subseteq {stateTime'}
    BY StepsAreNext, StepPreserves DEF Preserved, IInv, TypeOK, Poses, ImuPoseIsNow
  <2>3. CASE p \in imuPose'
    BY <2>1, <2>2, <2>3
  <2>4. CASE p \in clones' \ clones
    <3>1. stateTime <= p
      BY <2>4, StepsAreNext, StepPreserves DEF Preserved, NewestClone
    <3> QED BY <2>1, <2>2, <3>1
  <2>5. CASE p \in clones \cap clones' /\ p \notin keyframes
    BY <1>2, <2>5 DEF Current, Poses
  <2>6. CASE p \in clones \cap clones' /\ p \in keyframes
    <3>1. stateTime - p > Window
      BY <2>6 DEF KeyframesBehind
    <3>2. keyframes \subseteq keyframes' \/ stateTime - p <= Window
      <4>1. clones' \ clones # {} => keyframes \subseteq keyframes'
        BY StepsAreNext, StepPreserves DEF Preserved, NewestClone
      <4> QED BY <2>6, <4>1, KindsOfSteps
    <3> QED BY <2>2, <2>6, <3>1, <3>2
  <2> QED BY <2>3, <2>4, <2>5, <2>6 DEF Poses
<1> QED BY <1>1, <1>2

\* A message before the frame is known, when the program goes on.
LEMMA ToInitFacts ==
    ASSUME NEW s \in Gnss, NEW t \in SensorStamps, NEW far, NEW success \in BOOLEAN,
           FeedGnssToInit(s, t, far, success), fatal' = "none"
    PROVE  /\ NewStamp(s, t) /\ hist' = Recorded(s, t) /\ initialized /\ ~gpsInit /\ gpsInit' = success
           /\ imuPose' = imuPose
           /\ ~success => clones' = clones /\ offset' = offset
BY DEF FeedGnssToInit, Stop

\* Stamps recorded for a driver stay, or a newer one is recorded.
LEMMA RecordedGrows ==
    ASSUME IInv, NEW s \in Drivers, NEW t \in SensorStamps, NewStamp(s, t), hist' = Recorded(s, t)
    PROVE  /\ t \in hist'[s]
           /\ \A r \in Drivers : \A u \in hist[r] : \E v \in hist'[r] : u <= v
<1> USE StampsAreTimes
<1>1. hist \in [Drivers -> SUBSET SensorStamps]
  BY DEF IInv, TypeOK
<1>2. \A r \in Drivers : r # s => hist'[r] = hist[r]
  BY <1>1 DEF Recorded
<1>3. t \in hist'[s]
  BY <1>1 DEF Recorded
<1>4. ASSUME NEW r \in Drivers, NEW u \in hist[r] PROVE \E v \in hist'[r] : u <= v
  <2>1. u \in Int /\ t \in Int
    BY <1>1
  <2>2. CASE r # s
    BY <1>2, <2>1, <2>2
  <2>3. CASE r = s
    <3>1. u < t
      BY <2>3 DEF NewStamp
    <3> QED BY <1>3, <2>1, <2>3, <3>1
  <2> QED BY <2>2, <2>3
<1> QED BY <1>3, <1>4

\* No other handler takes stamps away.
LEMMA HistGrows ==
    ASSUME IInv, IInv', ImuStep \/ OtherStep, fatal' = "none"
    PROVE  \A r \in Drivers : \A u \in hist[r] : \E v \in hist'[r] : u <= v
<1>1. \A r \in Drivers : \A u \in hist[r] : u \in Int
  BY StampsAreTimes DEF IInv, TypeOK
<1>2. CASE hist' = hist
  BY <1>1, <1>2
<1>3. ASSUME NEW s \in Drivers, NEW t \in SensorStamps, NewStamp(s, t), hist' = Recorded(s, t)
      PROVE  \A r \in Drivers : \A u \in hist[r] : \E v \in hist'[r] : u <= v
  BY <1>3, RecordedGrows
<1>4. ImuStep => hist' = hist
  BY DEF ImuStep, ImuMessage, InitFails, Initialize, FeedImuFirstClone, FeedImuClone, FeedImuOnly
<1>5. OtherStep => \/ hist' = hist
                   \/ \E s \in Drivers, t \in SensorStamps : NewStamp(s, t) /\ hist' = Recorded(s, t)
  <2>1. ASSUME NEW s \in Sensors, NEW t \in SensorStamps, FeedSensor(s, t)
        PROVE  NewStamp(s, t) /\ hist' = Recorded(s, t) /\ s \in Drivers
    BY <2>1 DEF FeedSensor, Drivers
  <2>2. ASSUME NEW s \in Gnss, NEW t \in SensorStamps, FeedGnss(s, t)
        PROVE  NewStamp(s, t) /\ hist' = Recorded(s, t) /\ s \in Drivers
    BY <2>2 DEF FeedGnss, Drivers
  <2>3. ASSUME NEW s \in Gnss, NEW t \in SensorStamps, NEW far \in BOOLEAN, NEW success \in BOOLEAN,
               FeedGnssToInit(s, t, far, success)
        PROVE  NewStamp(s, t) /\ hist' = Recorded(s, t) /\ s \in Drivers
    BY <2>3, ToInitFacts DEF Drivers
  <2>4. FeedWheel => hist' = hist
    BY DEF FeedWheel
  <2> QED BY <2>1, <2>2, <2>3, <2>4 DEF OtherStep, SensorStep
<1> QED BY <1>2, <1>3, <1>4, <1>5

-----------------------------------------------------------------------------
(* With the ground truth: the state time comes from a file and may lie     *)
(* outside the IMU buffer                                                  *)

\* Initialized away from the IMU data, and not yet there: the only clone stands at the
\* state's time, and no propagation has succeeded.
Drifting ==
    /\ TypeOK /\ IsFiniteSet(imu) /\ NoFatalExit
    /\ initialized
    /\ clones = {stateTime} /\ imuPose = {} /\ keyframes = {} /\ candidates \subseteq clones

\* Stopped by one of the two exits the ground truth leads to.
Ended ==
    /\ TypeOK
    /\ fatal \in {"same_time_clone", "empty_imu_buffer"}
    /\ KeyframesHeld /\ ImuPoseApart /\ WindowBound /\ CloneSpacing

\* The inductive invariant for every ground truth file.
GtInv == IInv \/ Drifting \/ Ended

\* What a step keeps whatever the ground truth is.
GtPreserved ==
    /\ GtInv'
    /\ gpsInit' \/ keyframes \subseteq keyframes' \cap clones'
    /\ \A c \in clones \ clones' : \E n \in clones' \cup imuPose' : n - c > Window
    /\ AsPromised

\* Without the ground truth no more is needed.
LEMMA PreservedSuffices == Preserved => GtPreserved
BY DEF Preserved, GtPreserved, GtInv

\* A step that leaves the window alone and ends in one of the three.
LEMMA WindowAlone ==
    ASSUME GtInv, GtInv', UNCHANGED <<initialized, stateTime, clones, keyframes>> PROVE GtPreserved
<1>1. keyframes \subseteq clones
  BY DEF GtInv, IInv, Drifting, Ended, KeyframesHeld
<1> QED BY <1>1 DEF GtPreserved, AsPromised

\* The invariant's parts that speak of the window when its only clone is at t and no
\* keyframe is held.
LEMMA SingleClone ==
    ASSUME NEW t \in Int, clones = {t}, keyframes = {}, candidates \subseteq {t}
    PROVE  NewestStays /\ KeyframesHeld /\ WindowBound /\ CloneSpacing
<1> USE LimitsAreNatural
<1>1. NewestStays
  BY DEF NewestStays
<1>2. WindowBound
  BY DEF WindowBound
<1> QED BY <1>1, <1>2 DEF KeyframesHeld, CloneSpacing

\* Each failed look-up drops the first reading, and the last reading ends the program.
LEMMA FailsWithGt ==
    ASSUME IInv, NEW m \in ImuStamps, InitFails(m) PROVE GtPreserved
<1> USE StampsAreTimes
<1>1. ~initialized /\ NewImu(m)
  BY DEF InitFails
<1>2. Buffered(m) \in SUBSET Int /\ IsFiniteSet(Buffered(m))
  BY <1>1, BufferFacts
<1>3. /\ imu' \subseteq Buffered(m) /\ fatal' \in {"none", "empty_imu_buffer"}
      /\ UNCHANGED <<initialized, stateTime, clones, imuPose, keyframes, candidates, hist, offset, gpsInit>>
  BY DEF InitFails
<1>4. IsFiniteSet(imu') /\ imu' \in SUBSET Int
  BY <1>2, <1>3, FS_Subset
<1>5. TypeOK'
  BY <1>3, <1>4 DEF IInv, TypeOK, Fatal, Drivers
<1>6. /\ EmptyBeforeInit' /\ CaughtUp' /\ NewestStays' /\ ImuPoseIsNow'
      /\ KeyframesHeld' /\ WindowBound' /\ CloneSpacing' /\ ImuPoseApart'
  BY <1>1, <1>3 DEF IInv, EmptyBeforeInit, CaughtUp, NewestStays, ImuPoseIsNow, ImuPoseApart,
     KeyframesHeld, WindowBound, CloneSpacing
<1>7. GtInv'
  BY <1>3, <1>4, <1>5, <1>6 DEF GtInv, IInv, NoFatalExit, Ended
<1> QED BY <1>3, <1>7, WindowAlone DEF GtInv

\* Around the only clone, propagation that reaches the message catches up with it; one
\* that does not leaves the filter where it was.
LEMMA AfterSingleClone ==
    ASSUME NEW m \in Int, NEW t0 \in Int, imu' \in SUBSET Int, IsFiniteSet(imu'),
           \A i \in imu' : i <= m, t0 < m => m \in imu',
           Advance(m, imu', t0, {t0}), initialized', keyframes' = {}, candidates' \subseteq {t0},
           hist' \in [Drivers -> SUBSET SensorStamps], offset' \in [Drivers -> Offsets], gpsInit' \in BOOLEAN
    PROVE  /\ IInv' \/ Drifting'
           /\ clones' = {t0} /\ fatal' = "none" /\ t0 <= stateTime'
           /\ stateTime' = t0 \/ t0 < stateTime'
<1>1. /\ stateTime' = Propagated(imu', t0, m) /\ clones' = {t0}
      /\ imuPose' = {stateTime'} \ {t0} /\ fatal' = "none"
  BY DEF Advance
<1>2. NewestStays' /\ KeyframesHeld' /\ WindowBound' /\ CloneSpacing'
  <2>1. clones' = {t0} /\ keyframes' = {} /\ candidates' \subseteq {t0}
    BY <1>1
  <2> QED BY <2>1, LimitsAreNatural DEF NewestStays, KeyframesHeld, WindowBound, CloneSpacing
<1>3. CASE Reaches(imu', t0, m)
  <2>1. stateTime' = m /\ t0 < m /\ m \in imu' /\ imuPose' = {m}
    BY <1>1, <1>3 DEF Propagated, Reaches
  <2>2. TypeOK'
    BY <1>1, <2>1 DEF TypeOK, Fatal
  <2>3. CaughtUp'
    BY <1>1, <2>1 DEF CaughtUp, Poses
  <2>4. ImuPoseIsNow' /\ NoFatalExit' /\ EmptyBeforeInit'
    BY <1>1, <2>1 DEF ImuPoseIsNow, NoFatalExit, EmptyBeforeInit
  <2>5. IInv'
    BY <1>2, <2>2, <2>3, <2>4 DEF IInv
  <2> QED BY <1>1, <2>1, <2>5
<1>4. CASE ~Reaches(imu', t0, m)
  <2>1. stateTime' = t0 /\ imuPose' = {}
    BY <1>1, <1>4 DEF Propagated
  <2>2. TypeOK'
    BY <1>1, <2>1 DEF TypeOK, Fatal
  <2>3. Drifting'
    BY <1>1, <2>1, <2>2 DEF Drifting, NoFatalExit
  <2> QED BY <1>1, <2>1, <2>3
<1> QED BY <1>3, <1>4

\* The first clone is made at the ground truth's time, whether there is IMU data or not.
LEMMA InitializeWithGt ==
    ASSUME IInv, ~NoGt, NEW m \in ImuStamps, NEW t0 \in ImuStamps \cup GtStamps, Initialize(m, t0)
    PROVE  GtPreserved
<1> USE StampsAreTimes, LimitsAreNatural
<1> DEFINE buf == Buffered(m)
<1>1. /\ ~initialized /\ NewImu(m) /\ imu' = buf /\ initialized'
      /\ AddClone(t0, m, buf, t0) /\ UNCHANGED <<hist, offset, gpsInit>>
  BY DEF Initialize
<1>2. t0 \in Int /\ m \in Int
  OBVIOUS
<1>3. buf \in SUBSET Int /\ IsFiniteSet(buf) /\ m \in buf /\ \A i \in buf : i <= m
  BY <1>1, BufferFacts
<1>4. clones = {} /\ keyframes = {} /\ candidates = {}
  BY <1>1 DEF IInv, EmptyBeforeInit
<1>5. Propagated(buf, t0, t0) = t0
  BY <1>2 DEF Propagated
<1>6. Expired({t0}, {}, {}) = {}
  BY <1>2 DEF Expired
<1>7. /\ keyframes' = {} /\ candidates' = {}
      /\ Advance(m, buf, t0, {t0})
  <2>1. clones \cup {t0} = {t0} /\ {t0} \ ({} \ {}) = {t0}
    BY <1>4
  <2> QED BY <1>1, <1>4, <1>5, <1>6, <2>1 DEF AddClone
<1>8. /\ hist' \in [Drivers -> SUBSET SensorStamps] /\ offset' \in [Drivers -> Offsets]
      /\ gpsInit' \in BOOLEAN
  BY <1>1 DEF IInv, TypeOK, Drivers
<1>9. /\ IInv' \/ Drifting'
      /\ clones' = {t0} /\ fatal' = "none" /\ t0 <= stateTime'
  BY <1>1, <1>2, <1>3, <1>7, <1>8, AfterSingleClone
<1>10. t0 \in clones' /\ Promised!Clone(t0)
  BY <1>1, <1>2, <1>4, <1>5, <1>9, CloneAsPromised DEF IInv
<1>11. AsPromised
  BY <1>10 DEF AsPromised, Promised!Next
<1> QED BY <1>4, <1>9, <1>11 DEF GtPreserved, GtInv

\* A drifting filter takes readings as ever; the newest message is among them once it is
\* ahead of the state.
LEMMA DriftingBuffer ==
    ASSUME Drifting, NEW m \in ImuStamps, NewImu(m)
    PROVE  /\ Buffered(m) \in SUBSET Int /\ IsFiniteSet(Buffered(m))
           /\ \A i \in Buffered(m) : i <= m
           /\ stateTime < m => m \in Buffered(m)
<1> USE StampsAreTimes, LimitsAreNatural
<1>1. imu \in SUBSET Int /\ IsFiniteSet(imu) /\ m \in Int /\ stateTime \in Int
  BY DEF Drifting, TypeOK
<1>2. Buffered(m) \subseteq imu \cup {m}
  BY DEF Buffered
<1>3. IsFiniteSet(imu \cup {m})
  BY <1>1, FS_AddElement
<1>4. IsFiniteSet(Buffered(m))
  BY <1>2, <1>3, FS_Subset
<1>5. \A i \in imu \cup {m} : i <= m
  BY <1>1 DEF NewImu
<1>6. stateTime < m => m \in Buffered(m)
  <2> HAVE stateTime < m
  <2>1. stateTime \in Poses
    BY DEF Drifting, Poses
  <2>2. m >= stateTime - KeepTime
    BY <1>1
  <2> QED BY <2>1, <2>2 DEF Buffered
<1> QED BY <1>1, <1>2, <1>4, <1>5, <1>6

\* A drifting filter that propagates only: it catches up, or stays.
LEMMA DriftingOnly ==
    ASSUME Drifting, NEW m \in ImuStamps, NEW p \in Periods, FeedImuOnly(m, p) PROVE GtPreserved
<1> USE StampsAreTimes
<1>1. /\ initialized /\ NewImu(m) /\ imu' = Buffered(m)
      /\ Advance(m, Buffered(m), stateTime, clones)
      /\ UNCHANGED <<initialized, keyframes, candidates, hist, offset, gpsInit>>
  BY DEF FeedImuOnly
<1>2. m \in Int /\ stateTime \in Int /\ clones = {stateTime} /\ keyframes = {} /\ candidates \subseteq {stateTime}
  BY DEF Drifting, TypeOK
<1>3. /\ hist' \in [Drivers -> SUBSET SensorStamps] /\ offset' \in [Drivers -> Offsets]
      /\ gpsInit' \in BOOLEAN
  BY <1>1 DEF Drifting, TypeOK, Drivers
<1>4. /\ Buffered(m) \in SUBSET Int /\ IsFiniteSet(Buffered(m))
      /\ \A i \in Buffered(m) : i <= m
      /\ stateTime < m => m \in Buffered(m)
  BY <1>1, DriftingBuffer
<1>5. /\ IInv' \/ Drifting'
      /\ clones' = {stateTime}
      /\ stateTime' = stateTime \/ stateTime < stateTime'
  BY <1>1, <1>2, <1>3, <1>4, AfterSingleClone
<1>6. AsPromised
  <2>1. stateTime' \in Int
    BY <1>5 DEF IInv, Drifting, TypeOK
  <2> QED BY <1>1, <1>2, <1>5, <2>1 DEF AsPromised, Promised!Next, Promised!Move
<1> QED BY <1>2, <1>5, <1>6 DEF GtPreserved, GtInv

\* A drifting filter asked for a clone: it propagates there and catches up, or does not
\* move and meets the clone it has.
LEMMA DriftingClone ==
    ASSUME Drifting, NEW m \in ImuStamps, NEW p \in Periods, FeedImuClone(m, p) PROVE GtPreserved
<1> USE StampsAreTimes, LimitsAreNatural, PeriodsArePositive
<1> DEFINE buf == Buffered(m)
<1>1. /\ initialized /\ initialized' /\ NewImu(m) /\ imu' = buf
      /\ UNCHANGED <<hist, offset, gpsInit>>
  BY DEF FeedImuClone
<1>2. /\ m \in Int /\ stateTime \in Int /\ clones = {stateTime} /\ keyframes = {} /\ candidates \subseteq {stateTime}
      /\ imuPose = {} /\ TypeOK /\ NoFatalExit
  BY DEF Drifting, TypeOK
<1>3. /\ buf \in SUBSET Int /\ IsFiniteSet(buf)
      /\ \A i \in buf : i <= m
      /\ stateTime < m => m \in buf
  BY <1>1, DriftingBuffer
<1>4. PICK ct \in CloneTimes(stateTime, p, m, buf) : AddClone(ct, m, buf, stateTime)
  BY <1>2 DEF FeedImuClone
<1>5. /\ ct \in Int /\ ct <= m
      /\ \A c \in clones : 10 * (ct - c) >= 9 * p
  <2>1. stateTime \in clones /\ (\A c \in clones : c <= stateTime) /\ ~(stateTime < stateTime)
    BY <1>2
  <2> QED BY <1>2, <1>3, <1>4, <2>1, CloneTimeFacts
<1>6. stateTime < ct /\ p \in Nat /\ p > 0
  <2>1. 10 * (ct - stateTime) >= 9 * p
    BY <1>2, <1>5
  <2> QED BY <1>2, <1>5, <2>1
<1>7. KeyframesHeld /\ WindowBound /\ CloneSpacing
  BY <1>2, SingleClone
<1>8. CASE Reaches(buf, stateTime, ct)
  <2>1. Propagated(buf, stateTime, ct) = ct
    BY <1>8 DEF Propagated
  <2>2. \E i \in buf : i <= stateTime
    BY <1>8 DEF Reaches
  <2>3. m \in buf /\ stateTime < m
    BY <1>2, <1>3, <1>5, <1>6
  <2>4. \A c \in clones : c < ct
    BY <1>2, <1>6
  <2>5. \A c \in clones : \E q \in Periods : 10 * (ct - c) >= 9 * q
    BY <1>5
  <2>6. clones \in SUBSET Int /\ keyframes \in SUBSET Int /\ candidates \in SUBSET Int
    BY <1>2
  <2>7. stateTime <= ct
    BY <1>2, <1>5, <1>6
  <2>8. /\ fatal' = "none"
        /\ stateTime' = m
        /\ clones' \in SUBSET Int /\ keyframes' \in SUBSET Int /\ candidates' \in SUBSET Int
        /\ imuPose' = {m} \ clones'
        /\ \A c \in clones' : c <= m
        /\ NewestStays'
        /\ KeyframesHeld' /\ WindowBound' /\ CloneSpacing'
        /\ keyframes \subseteq keyframes' \cap clones'
        /\ \A c \in clones \ clones' : \E n \in clones' : n - c > Window
    BY <1>2, <1>3, <1>4, <1>5, <1>7, <2>2, <2>3, <2>4, <2>5, <2>6, <2>7, AddCloneStep
  <2>9. TypeOK'
    BY <1>1, <1>2, <1>3, <2>8 DEF TypeOK, Fatal, Drivers
  <2>10. CaughtUp'
    BY <1>1, <1>2, <1>3, <2>3, <2>8 DEF CaughtUp, Poses
  <2>11. ImuPoseIsNow' /\ NoFatalExit' /\ EmptyBeforeInit'
    BY <1>1, <2>8 DEF ImuPoseIsNow, NoFatalExit, EmptyBeforeInit
  <2>12. IInv'
    BY <1>1, <1>3, <2>8, <2>9, <2>10, <2>11 DEF IInv
  <2>13. ct \in clones' /\ Promised!Clone(ct)
    BY <1>1, <1>2, <1>4, <1>5, <1>7, <2>1, <2>3, <2>4, <2>5, <2>6, <2>7, <2>8, CloneAsPromised
  <2>14. AsPromised
    BY <2>13 DEF AsPromised, Promised!Next
  <2> QED BY <2>8, <2>12, <2>14 DEF GtPreserved, GtInv
<1>9. CASE ~Reaches(buf, stateTime, ct)
  <2>1. Stop("same_time_clone")
    BY <1>2, <1>4, <1>9 DEF AddClone, Propagated
  <2>2. fatal' = "same_time_clone" /\ UNCHANGED <<stateTime, clones, imuPose, keyframes, candidates>>
    BY <2>1 DEF Stop
  <2>3. TypeOK'
    BY <1>1, <1>2, <1>3, <2>2 DEF TypeOK, Fatal, Drivers
  <2>4. Ended'
    BY <1>2, <1>7, <2>2, <2>3 DEF Ended, KeyframesHeld, WindowBound, CloneSpacing, ImuPoseApart
  <2> QED BY <1>1, <2>2, <2>4, WindowAlone DEF GtInv
<1> QED BY <1>8, <1>9

\* A drifting filter and the other sensors: stamps, offsets and candidates.
LEMMA DriftingOther ==
    ASSUME Drifting, OtherStep PROVE GtPreserved
<1> USE StampsAreTimes
<1>1. /\ TypeOK /\ stateTime \in Int /\ clones = {stateTime} /\ imuPose = {} /\ keyframes = {}
      /\ candidates \subseteq {stateTime}
  BY DEF Drifting, TypeOK
<1>2. ASSUME UNCHANGED <<initialized, stateTime, imu, clones, imuPose, keyframes, fatal>>,
             candidates' \subseteq clones,
             hist' \in [Drivers -> SUBSET SensorStamps], offset' \in [Drivers -> Offsets], gpsInit' \in BOOLEAN
      PROVE  GtPreserved
  <2>1. TypeOK'
    BY <1>1, <1>2 DEF TypeOK
  <2>2. Drifting'
    BY <1>2, <2>1 DEF Drifting, NoFatalExit
  <2> QED BY <1>2, <2>2, WindowAlone DEF GtInv
<1>3. \A t : NewCandidates(t, TRUE) \subseteq clones /\ NewCandidates(t, FALSE) \subseteq clones
  BY <1>1 DEF NewCandidates, KeyframeFor, Poses
<1>4. \A t : ~LosesKeyframe(t)
  BY <1>1 DEF LosesKeyframe, Poses
<1>5. ASSUME NEW s \in Sensors, NEW t \in SensorStamps, FeedSensor(s, t) PROVE GtPreserved
  <2>1. s \in Drivers
    BY DEF Drivers
  <2>2. hist' \in [Drivers -> SUBSET SensorStamps] /\ offset' \in [Drivers -> Offsets]
    BY <1>1, <1>5, <2>1, RecordTypes DEF FeedSensor
  <2> QED BY <1>1, <1>2, <1>5, <2>2 DEF FeedSensor, TypeOK
<1>6. ASSUME NEW s \in Gnss, NEW t \in SensorStamps, NEW far \in BOOLEAN, NEW success \in BOOLEAN,
             FeedGnssToInit(s, t, far, success)
      PROVE  GtPreserved
  <2>1. s \in Drivers
    BY DEF Drivers
  <2>2. /\ hist' = Recorded(s, t) /\ gpsInit' = success
        /\ UNCHANGED <<initialized, stateTime, imu, clones, imuPose, keyframes, fatal>>
        /\ candidates' = candidates \cup NewCandidates(t + offset[s], far)
        /\ Corrected \/ UNCHANGED offset
    BY <1>1, <1>4, <1>6 DEF FeedGnssToInit
  <2>3. hist' \in [Drivers -> SUBSET SensorStamps] /\ offset' \in [Drivers -> Offsets]
    BY <1>1, <2>1, <2>2, RecordTypes
  <2>4. candidates' \subseteq clones
    BY <1>1, <1>3, <2>2
  <2> QED BY <1>2, <2>2, <2>3, <2>4
<1>7. ASSUME NEW s \in Gnss, NEW t \in SensorStamps, FeedGnss(s, t) PROVE GtPreserved
  <2>1. s \in Drivers
    BY DEF Drivers
  <2>2. /\ hist' = Recorded(s, t) /\ Corrected
        /\ UNCHANGED <<initialized, stateTime, imu, clones, imuPose, keyframes, candidates, gpsInit, fatal>>
    BY <1>1, <1>7 DEF FeedGnss
  <2>3. hist' \in [Drivers -> SUBSET SensorStamps] /\ offset' \in [Drivers -> Offsets]
    BY <1>1, <2>1, <2>2, RecordTypes
  <2> QED BY <1>1, <1>2, <2>2, <2>3 DEF TypeOK
<1>8. CASE FeedWheel
  BY <1>1, <1>2, <1>8 DEF FeedWheel, Corrected, TypeOK
<1> QED BY <1>5, <1>6, <1>7, <1>8 DEF OtherStep, SensorStep

\* Every step, with any ground truth file or none.
LEMMA GtStepPreserves == ASSUME GtInv, [Next]_vars PROVE GtPreserved
<1>1. CASE UNCHANGED vars
  <2>1. IInv => IInv'
    BY <1>1 DEF vars, IInv, TypeOK, NoFatalExit, EmptyBeforeInit, CaughtUp, Poses, NewestStays,
       ImuPoseIsNow, KeyframesHeld, WindowBound, CloneSpacing
  <2>2. Drifting => Drifting'
    BY <1>1 DEF vars, Drifting, TypeOK, NoFatalExit
  <2>3. Ended => Ended'
    BY <1>1 DEF vars, Ended, TypeOK, KeyframesHeld, ImuPoseApart, WindowBound, CloneSpacing
  <2> QED BY <1>1, <2>1, <2>2, <2>3, WindowAlone DEF vars, GtInv
<1>2. CASE Ended /\ Next
  <2>1. fatal # "none"
    BY <1>2 DEF Ended
  <2> QED BY <1>2, <2>1 DEF Next, ImuStep, ImuMessage, SensorStep, InitFails, Initialize, FeedImuFirstClone,
      FeedImuClone, FeedImuOnly, FeedSensor, FeedGnssToInit, FeedGnss, FeedWheel, NewImu, NewStamp
<1>3. CASE Drifting /\ Next
  <2>1. initialized /\ clones # {}
    BY <1>3 DEF Drifting
  <2>2. ASSUME NEW m \in ImuStamps, ImuMessage(m) PROVE GtPreserved
    <3>1. \E p \in Periods : FeedImuClone(m, p) \/ FeedImuOnly(m, p)
      BY <2>1, <2>2 DEF ImuMessage, InitFails, Initialize, FeedImuFirstClone
    <3> QED BY <1>3, <3>1, DriftingClone, DriftingOnly
  <2>3. OtherStep => GtPreserved
    BY <1>3, DriftingOther
  <2> QED BY <1>3, <2>2, <2>3 DEF Next, OtherStep, ImuStep
<1>4. CASE IInv /\ Next
  <2>1. CASE NoGt
    BY <1>4, <2>1, StepPreserves, PreservedSuffices
  <2>2. CASE ~NoGt
    <3>1. ASSUME NEW m \in ImuStamps, ImuMessage(m) PROVE GtPreserved
      <4>1. InitFails(m) => GtPreserved
        BY <1>4, FailsWithGt
      <4>2. (\E t0 \in ImuStamps \cup GtStamps : Initialize(m, t0)) => GtPreserved
        BY <1>4, <2>2, InitializeWithGt
      <4>3. FeedImuFirstClone(m) => GtPreserved
        BY <1>4, FirstCloneStep, PreservedSuffices
      <4>4. ASSUME NEW p \in Periods, FeedImuClone(m, p) \/ FeedImuOnly(m, p) PROVE GtPreserved
        BY <1>4, <4>4, CloneStep, ImuOnlyStep, PreservedSuffices
      <4> QED BY <3>1, <4>1, <4>2, <4>3, <4>4 DEF ImuMessage
    <3>2. OtherStep => GtPreserved
      BY <1>4, SensorPreserves, GnssToInitStep, GnssAfterInitStep, WheelStep, PreservedSuffices
        DEF OtherStep, SensorStep
    <3> QED BY <1>4, <3>1, <3>2 DEF Next, OtherStep, ImuStep
  <2> QED BY <2>1, <2>2
<1> QED BY <1>1, <1>2, <1>3, <1>4 DEF GtInv

-----------------------------------------------------------------------------
(* What holds throughout *)

\* The inductive invariant holds throughout: the window, the keyframe lists, the IMU
\* buffer and the state time stay consistent with one another after every message.
THEOREM Invariance == ASSUME NoGt PROVE Spec => []IInv
<1>1. Init => IInv
  BY InitIInv
<1>2. IInv /\ [Next]_vars => IInv'
  BY StepPreserves DEF Preserved
<1> QED BY <1>1, <1>2, PTL DEF Spec

\* With any ground truth file, or none, the filter is consistent with the IMU data, or
\* drifts with a single clone until a propagation succeeds, or has ended.
THEOREM GtInvariance == Spec => []GtInv
<1>1. Init => GtInv
  BY InitIInv DEF GtInv
<1>2. GtInv /\ [Next]_vars => GtInv'
  BY GtStepPreserves DEF GtPreserved
<1> QED BY <1>1, <1>2, PTL DEF Spec

\* Type correctness of the sliding window.
THEOREM TypeCorrect == Spec => []TypeOK
<1>1. GtInv => TypeOK
  BY DEF GtInv, IInv, Drifting, Ended
<1> QED BY <1>1, GtInvariance, PTL

\* No order of messages makes the program reach one of its exits or a null clone.
THEOREM NeverExits == ASSUME NoGt PROVE Spec => []NoFatalExit
<1>1. IInv => NoFatalExit
  BY DEF IInv
<1> QED BY <1>1, Invariance, PTL

\* The ground truth adds two ways to end, an emptied IMU buffer and a second clone at the
\* same time; no null clone or lost keyframe is ever reached.
THEOREM OnlyGtExits == Spec => [](fatal \in {"none", "same_time_clone", "empty_imu_buffer"})
<1>1. GtInv => fatal \in {"none", "same_time_clone", "empty_imu_buffer"}
  BY DEF GtInv, IInv, Drifting, Ended, NoFatalExit
<1> QED BY <1>1, GtInvariance, PTL

\* After every message the filter has reached the newest IMU reading.
THEOREM FilterCaughtUp == ASSUME NoGt PROVE Spec => []CaughtUp
<1>1. IInv => CaughtUp
  BY DEF IInv
<1> QED BY <1>1, Invariance, PTL

\* Clones are never denser than nine tenths of a clone period.
THEOREM ClonesSpaced == Spec => []CloneSpacing
<1>1. Drifting => CloneSpacing
  BY SingleClone DEF Drifting, TypeOK
<1>2. GtInv => CloneSpacing
  BY <1>1 DEF GtInv, IInv, Ended
<1> QED BY <1>2, GtInvariance, PTL

\* Every clone that is no keyframe is within the window of the newest clone.
THEOREM ClonesInWindow == Spec => []WindowBound
<1>1. Drifting => WindowBound
  BY SingleClone DEF Drifting, TypeOK
<1>2. GtInv => WindowBound
  BY <1>1 DEF GtInv, IInv, Ended
<1> QED BY <1>2, GtInvariance, PTL

\* The keyframe lists only name clones the state has, and the IMU pose is none of them.
THEOREM KeyframesAreClones == Spec => [](KeyframesHeld /\ ImuPoseApart)
<1>1. GtInv => KeyframesHeld /\ ImuPoseApart
  BY DEF GtInv, IInv, Drifting, Ended, KeyframesHeld, ImuPoseApart, ImuPoseIsNow
<1> QED BY <1>1, GtInvariance, PTL

\* A keyframe's clone leaves the state only once the GNSS is initialized.
THEOREM KeyframesStay == Spec => KeyframesKept
<1>1. GtInv /\ [Next]_vars => [gpsInit' \/ keyframes \subseteq keyframes' \cap clones']_vars
  BY GtStepPreserves DEF GtPreserved
<1> QED BY <1>1, GtInvariance, PTL DEF Spec, KeyframesKept

\* A clone leaves the state only when it is older than the window.
THEOREM OldClonesLeave == Spec => OnlyOldClonesLeave
<1>1. GtInv /\ [Next]_vars =>
        [\A c \in clones \ clones' : \E n \in clones' \cup imuPose' : n - c > Window]_vars
  BY GtStepPreserves DEF GtPreserved
<1> QED BY <1>1, GtInvariance, PTL DEF Spec, OnlyOldClonesLeave

\* The handlers implement PoseWindow: whatever they do inside, time, clones and keyframes
\* change as the abstract window's steps say, or not at all.
THEOREM WindowIsAsPromised == Spec => WindowPromised
<1>1. Init => Promised!Init
  BY DEF Init, Promised!Init
<1>2. GtInv /\ [Next]_vars => [Promised!Next]_(Promised!promisedVars)
  BY GtStepPreserves DEF GtPreserved, AsPromised, Promised!promisedVars
<1> QED BY <1>1, <1>2, GtInvariance, PTL DEF Spec, WindowPromised, Promised!Spec

\* The window's poses are few: with no period shorter than g, those that are no keyframe
\* number at most one more than the nine-tenths of g that fit into the window, so that the
\* state and its covariance do not grow while the filter runs.
THEOREM WindowIsSmall ==
    ASSUME NEW g \in Nat \ {0}, \A p \in Periods : g <= p
    PROVE  Spec => [](/\ IsFiniteSet(clones \ keyframes)
                      /\ Cardinality(clones \ keyframes) <= (10 * Window) \div (9 * g) + 1)
<1>1. ASSUME TypeOK, WindowBound, CloneSpacing
      PROVE  /\ IsFiniteSet(clones \ keyframes)
             /\ Cardinality(clones \ keyframes) <= (10 * Window) \div (9 * g) + 1
  <2>1. clones \ keyframes \in SUBSET Int /\ Window \in Nat /\ 9 * g \in Nat \ {0}
    BY <1>1, LimitsAreNatural DEF TypeOK
  <2>2. \A c \in clones \ keyframes, d \in clones \ keyframes : d - c <= Window
    BY <1>1 DEF WindowBound
  <2>3. ASSUME NEW c \in clones \ keyframes, NEW d \in clones \ keyframes, c < d
        PROVE  10 * (d - c) >= 9 * g
    <3>1. PICK p \in Periods : 10 * (d - c) >= 9 * p
      BY <1>1, <2>3 DEF CloneSpacing
    <3>2. p \in Nat /\ g <= p /\ c \in Int /\ d \in Int
      BY <2>1, PeriodsArePositive
    <3> QED BY <3>1, <3>2
  <2> QED BY <2>1, <2>2, <2>3, SpacedCount
<1>2. TypeOK /\ WindowBound /\ CloneSpacing =>
        /\ IsFiniteSet(clones \ keyframes)
        /\ Cardinality(clones \ keyframes) <= (10 * Window) \div (9 * g) + 1
  BY <1>1
<1> QED BY <1>2, TypeCorrect, ClonesInWindow, ClonesSpaced, PTL
=============================================================================
