---------------------------- MODULE SlidingWindow ----------------------------
(***************************************************************************)
(* The sliding window of stochastic clones that SystemManager, Propagator  *)
(* and StateHelper keep: the state time, the IMU buffer, the clones, the   *)
(* IMU pose that stands in for "now", and the keyframes that wait for the  *)
(* GNSS initialization.                                                    *)
(*                                                                         *)
(* The estimator runs in one thread: an action is one feed_measurement_*   *)
(* call, from its first line to its return.  What is concurrent is the     *)
(* sensors: messages of different topics arrive in any order, late, or     *)
(* never.  Times are integers (ticks); 1/freq is a period of some ticks.   *)
(***************************************************************************)
EXTENDS Integers, FiniteSets

CONSTANTS
    Sensors,        \* camera, LiDAR and VICON ids: sensors that may set a clone time
    Gnss,           \* GNSS receiver ids: they set clone times and keyframes
    ImuStamps,      \* time stamps an IMU message may carry
    SensorStamps,   \* time stamps a message of another sensor may carry
    Offsets,        \* values the estimated time offsets (cam_dt, gps_dt, ...) may take
    Periods,        \* 1/freq for every clone rate dynamic_cloning may choose
    Window,         \* op->window_size
    KeepTime,       \* the second of IMU data kept behind the oldest clone
    InitWindow,     \* 3 * op->init->window_time
    HistCap,        \* the 100 stamps kept per sensor in t_hist
    WheelEnabled,   \* op->wheel->enabled
    GtStamps,       \* stamps of the ground truth file; {} unless init->use_gt
    GtReach         \* the 0.1 s within which a ground truth stamp is taken

ASSUME StampsAreTimes ==
    ImuStamps \subseteq Int /\ SensorStamps \subseteq Int /\ Offsets \subseteq Int /\ GtStamps \subseteq Int
ASSUME PeriodsArePositive == Periods \subseteq Nat \ {0}
ASSUME LimitsAreNatural ==
    Window \in Nat /\ KeepTime \in Nat /\ InitWindow \in Nat /\ HistCap \in Nat /\ GtReach \in Nat
ASSUME WheelIsOnOrOff == WheelEnabled \in BOOLEAN

VARIABLES
    initialized,    \* state->initialized
    stateTime,      \* state->time
    imu,            \* stamps of Propagator::imu_data
    clones,         \* times of the stochastic clones of state->clones
    imuPose,        \* {t} when state->clones holds imu->pose() at t, {} otherwise
    keyframes,      \* state->keyframes
    candidates,     \* state->keyframes_candidate
    hist,           \* t_hist of every sensor
    offset,         \* the estimated time offset of every sensor
    gpsInit,        \* up_gps->initialized
    fatal           \* "none", or the exit or failed dereference that ended the program

vars == <<initialized, stateTime, imu, clones, imuPose, keyframes, candidates, hist, offset, gpsInit, fatal>>

Drivers == Sensors \cup Gnss
Poses == clones \cup imuPose
Distance(a, b) == IF a < b THEN b - a ELSE a - b

Fatal == {"none", "same_time_clone", "no_clone_for_cpi", "no_oldest_clone", "null_keyframe", "empty_imu_buffer"}

TypeOK ==
    /\ initialized \in BOOLEAN
    /\ stateTime \in Int
    /\ imu \subseteq Int
    /\ clones \subseteq Int
    /\ imuPose \subseteq Int
    /\ keyframes \subseteq Int
    /\ candidates \subseteq Int
    /\ hist \in [Drivers -> SUBSET SensorStamps]
    /\ offset \in [Drivers -> Offsets]
    /\ gpsInit \in BOOLEAN
    /\ fatal \in Fatal

Init ==
    /\ initialized = FALSE
    /\ stateTime = -1
    /\ imu = {}
    /\ clones = {}
    /\ imuPose = {}
    /\ keyframes = {}
    /\ candidates = {}
    /\ hist = [s \in Drivers |-> {}]
    /\ offset \in [Drivers -> Offsets]
    /\ gpsInit = FALSE
    /\ fatal = "none"

-----------------------------------------------------------------------------
(* Propagation *)

\* Mutant of Buffered: the second of data is counted from the message, not the oldest pose.
BufferedBehindMessage(m) == {t \in imu \cup {m} : t >= m - KeepTime}

\* Propagator::feed_imu: append, then drop what is KeepTime older than the oldest pose.
Buffered(m) == {t \in imu \cup {m} : Poses = {} \/ \E c \in Poses : t >= c - KeepTime}

\* Propagator::select_imu_readings succeeds.
Reaches(buf, t0, t1) ==
    /\ Cardinality(buf) >= 2
    /\ t1 > t0
    /\ \E i \in buf : i <= t0
    /\ \E i \in buf : i >= t1

\* Propagator::propagate: the state time afterwards; a request it cannot serve changes nothing.
Propagated(buf, t0, t1) == IF Reaches(buf, t0, t1) THEN t1 ELSE t0

-----------------------------------------------------------------------------
(* Choosing the clone time: SystemManager::get_next_clone_time *)

\* Measurement times in the IMU clock, over every sensor's history.
MeasTimes == UNION {{t + offset[s] : t \in hist[s]} : s \in Drivers}

\* Newest clone plus the period, or the IMU time when the state is past that already.
Desired(newest, p, m) == IF newest + p < stateTime THEN m ELSE newest + p

\* Mutant of Eligible: measurements any distance before the desired time may be taken.
EligibleNoSlack(d, p) == {t \in MeasTimes : t >= stateTime}

\* Measurements a clone may be put on: at most a tenth of the period early, not in the past.
Eligible(d, p) == {t \in MeasTimes : 10 * (d - t) <= p /\ t >= stateTime}

\* The clone times get_next_clone_time may return; measurements at one distance tie.
CloneTimes(newest, p, m, buf) ==
    LET d == Desired(newest, p, m)
        near == {t \in Eligible(d, p) : \A u \in Eligible(d, p) : Distance(t, d) <= Distance(u, d)}
        chosen == IF Eligible(d, p) # {} THEN near
                  ELSE IF WheelEnabled \/ \E t \in MeasTimes : t > newest THEN {d} ELSE {}
    IN  {t \in chosen : (\E i \in buf : i >= t) /\ (\E i \in buf : i <= t)}

-----------------------------------------------------------------------------
(* StateHelper::marginalize_old_clone, the loop run to its end.  It walks  *)
(* from the oldest pose that is no keyframe; a candidate it meets becomes  *)
(* a keyframe and stays, any other clone leaves the state.                 *)

\* Mutant of Expired: keyframes are not skipped.
ExpiredIgnoringKeyframes(cl, pose, kf) == {c \in cl : \E n \in cl \cup pose : n - c > Window}
\* Mutant of Expired: a clone exactly Window old is taken as well.
ExpiredEarly(cl, pose, kf) == {c \in cl \ kf : \E n \in cl \cup pose : n - c >= Window}

\* Clones that are no keyframe and more than Window behind the newest pose.
Expired(cl, pose, kf) == {c \in cl \ kf : \E n \in cl \cup pose : n - c > Window}

-----------------------------------------------------------------------------
(* SystemManager::feed_measurement_imu *)

\* The tail of the handler: propagate to the message, put imu->pose() at the new time.
Advance(m, buf, t0, cl) ==
    /\ stateTime' = Propagated(buf, t0, m)
    /\ clones' = cl
    /\ imuPose' = {stateTime'} \ cl
    /\ fatal' = "none"

Stop(reason) ==
    /\ fatal' = reason
    /\ UNCHANGED <<stateTime, clones, imuPose, keyframes, candidates>>

\* Mutant of AddClone: augment_clone runs without marginalize_old_clone after it.
AddCloneOnly(ct, m, buf, t0) ==
    LET t == Propagated(buf, t0, ct)
    IN  Advance(m, buf, t, clones \cup {t}) /\ UNCHANGED <<keyframes, candidates>>

\* Mutant of AddClone: a candidate is marginalized like any other clone.
AddCloneLosingCandidates(ct, m, buf, t0) ==
    LET t == Propagated(buf, t0, ct)
        old == Expired(clones \cup {t}, {}, keyframes)
    IN  Advance(m, buf, t, (clones \cup {t}) \ old) /\ UNCHANGED <<keyframes, candidates>>

\* Propagate to the clone time, augment_clone, marginalize_old_clone, reset_cpi, Advance.
AddClone(ct, m, buf, t0) ==
    LET t == Propagated(buf, t0, ct)
        cl == clones \cup {t}
        old == Expired(cl, {}, keyframes)
        kept == cl \ (old \ candidates)
    IN  IF t \in clones THEN Stop("same_time_clone")
        ELSE IF cl \subseteq keyframes THEN Stop("no_oldest_clone")
        ELSE IF t \notin kept THEN Stop("no_clone_for_cpi")
        ELSE /\ keyframes' = keyframes \cup (old \cap candidates)
             /\ candidates' = candidates \ old
             /\ Advance(m, buf, t, kept)

\* An IMU stamp newer than the ones before it: drivers publish in order.
NewImu(m) == fatal = "none" /\ m \in ImuStamps /\ \A i \in imu : i < m

UseGt == GtStamps # {}

\* Ground truth stamps get_gt_state may settle on: the closest to the first IMU reading.
GtTimes(buf) ==
    {t \in GtStamps : \E f \in buf :
        /\ \A i \in buf : f <= i
        /\ \A u \in GtStamps : Distance(t, f) <= Distance(u, f)
        /\ Distance(t, f) < GtReach}

\* State times an initializer may set: inside the buffer, or the ground truth stamp.
InitTimes(buf) ==
    IF UseGt THEN GtTimes(buf)
    ELSE {t \in ImuStamps : (\E i \in buf : i <= t) /\ (\E i \in buf : i >= t)}

\* Initializer::try_initializtion fails; delete_old_measurements trims the buffer, after
\* a failed look-up in the ground truth has dropped the first reading.
InitFails(m) ==
    LET buf == Buffered(m)
        left == IF UseGt THEN {t \in buf : \E i \in buf : i < t} ELSE buf
    IN  /\ ~initialized /\ NewImu(m)
        /\ UseGt => GtTimes(buf) = {}
        /\ imu' = {t \in left : \A i \in left : i - t <= InitWindow}
        /\ fatal' = IF left = {} THEN "empty_imu_buffer" ELSE "none"
        /\ UNCHANGED <<initialized, stateTime, clones, imuPose, keyframes, candidates, hist, offset, gpsInit>>

\* Initialization succeeds at t0 and the rest of the handler clones there right away.
Initialize(m, t0) ==
    LET buf == Buffered(m)
    IN  /\ ~initialized /\ NewImu(m)
        /\ t0 \in InitTimes(buf)
        /\ imu' = buf
        /\ initialized' = TRUE
        /\ AddClone(t0, m, buf, t0)
        /\ UNCHANGED <<hist, offset, gpsInit>>

\* No stochastic clone is left: clone at the state time, whatever was measured.
FeedImuFirstClone(m) ==
    LET buf == Buffered(m)
    IN  /\ initialized /\ NewImu(m)
        /\ clones = {}
        /\ imu' = buf
        /\ AddClone(stateTime, m, buf, stateTime)
        /\ UNCHANGED <<initialized, hist, offset, gpsInit>>

\* A clone is due.
FeedImuClone(m, p) ==
    LET buf == Buffered(m)
    IN  /\ initialized /\ NewImu(m)
        /\ imu' = buf
        /\ \E newest \in clones :
              /\ \A c \in clones : c <= newest
              /\ \E ct \in CloneTimes(newest, p, m, buf) : AddClone(ct, m, buf, stateTime)
        /\ UNCHANGED <<initialized, hist, offset, gpsInit>>

\* No clone is due: propagate only.
FeedImuOnly(m, p) ==
    LET buf == Buffered(m)
    IN  /\ initialized /\ NewImu(m)
        /\ imu' = buf
        /\ \E newest \in clones :
              /\ \A c \in clones : c <= newest
              /\ CloneTimes(newest, p, m, buf) = {}
        /\ Advance(m, buf, stateTime, clones)
        /\ UNCHANGED <<initialized, keyframes, candidates, hist, offset, gpsInit>>

-----------------------------------------------------------------------------
(* The other sensors *)

\* Mutant of Recorded: the stamp is recorded in the IMU clock instead of the sensor's.
RecordedInImuClock(s, t) == [hist EXCEPT ![s] = @ \cup {t + offset[s]}]

\* t_hist: append, and drop the oldest stamp when there were more than HistCap.
Recorded(s, t) ==
    LET full == Cardinality(hist[s]) > HistCap
    IN  [hist EXCEPT ![s] = {u \in @ : full => \E v \in @ : v < u} \cup {t}]

\* A stamp newer than the sensor's last ones: each topic is delivered in order.
NewStamp(s, t) == fatal = "none" /\ t \in SensorStamps /\ \A u \in hist[s] : u < t

\* StateHelper::EKFUpdate corrects every variable of the state: an update with the data
\* of one sensor moves the time offsets of all of them, as they are correlated.
Corrected == offset' \in [Drivers -> Offsets]

\* feed_measurement_camera, _lidar, _vicon: record; an update may move the time offsets.
FeedSensor(s, t) ==
    /\ NewStamp(s, t)
    /\ hist' = Recorded(s, t)
    /\ IF initialized THEN Corrected ELSE UNCHANGED offset
    /\ UNCHANGED <<initialized, stateTime, imu, clones, imuPose, keyframes, candidates, gpsInit, fatal>>

\* Mutant of KeyframeFor: the step back from the IMU pose is lost.
KeyframeForAnyPose(t) == {k \in Poses : k < t /\ \A c \in Poses : c < t => c <= k}

\* The clone add_keyframes looks at: the newest one before the measurement, the one
\* before that when the newest is the IMU pose.
KeyframeFor(t) ==
    LET latest(S, u) == {k \in S : k < u /\ \A c \in S : c < u => c <= k}
        k0 == latest(Poses, t)
    IN  IF k0 \subseteq clones THEN k0 ELSE UNION {latest(Poses, k) : k \in k0}

\* add_keyframes measures the distance to the last keyframe through clones[...], which
\* is a null pointer when that clone has left the state.
LosesKeyframe(t) ==
    KeyframeFor(t) \ (keyframes \cup candidates) # {} /\ ~(keyframes \cup candidates \subseteq Poses)

\* UpdaterGPS::add_keyframes: the first clone it sees, then every clone far enough from
\* the last keyframe (far stands for "more than 1 m").
NewCandidates(t, far) ==
    IF keyframes \cup candidates = {} \/ far THEN KeyframeFor(t) \ (keyframes \cup candidates) ELSE {}

\* The end of feed_measurement_gps once the GNSS is initialized and keyframes are there:
\* forget them and close the window, with the IMU pose as its newest pose.
DropKeyframes ==
    /\ keyframes' = {} /\ candidates' = {}
    /\ clones' = clones \ Expired(clones, imuPose, {})

\* feed_measurement_gps before the GNSS is initialized: add_keyframes, record, try to
\* initialize, which consumes the keyframes.
FeedGnssToInit(s, t, far, success) ==
    /\ initialized /\ ~gpsInit /\ NewStamp(s, t)
    /\ IF LosesKeyframe(t + offset[s])
       THEN Stop("null_keyframe") /\ UNCHANGED <<hist, offset, gpsInit>>
       ELSE /\ hist' = Recorded(s, t)
            /\ gpsInit' = success
            /\ IF success THEN Corrected ELSE UNCHANGED offset
            /\ IF success /\ keyframes # {} THEN DropKeyframes
               ELSE /\ candidates' = candidates \cup NewCandidates(t + offset[s], far)
                    /\ UNCHANGED <<keyframes, clones>>
            /\ UNCHANGED <<stateTime, imuPose, fatal>>
    /\ UNCHANGED <<initialized, imu>>

\* feed_measurement_gps afterwards: record, update, drop keyframes if there are any.
FeedGnss(s, t) ==
    /\ initialized /\ gpsInit /\ NewStamp(s, t)
    /\ hist' = Recorded(s, t)
    /\ Corrected
    /\ IF keyframes # {} THEN DropKeyframes ELSE UNCHANGED <<keyframes, candidates, clones>>
    /\ UNCHANGED <<initialized, stateTime, imu, imuPose, gpsInit, fatal>>

\* feed_measurement_wheel: its stamps set no clone time; an update moves the offsets.
FeedWheel ==
    /\ fatal = "none" /\ WheelEnabled /\ initialized
    /\ Corrected
    /\ UNCHANGED <<initialized, stateTime, imu, clones, imuPose, keyframes, candidates, hist, gpsInit, fatal>>

\* feed_measurement_imu, in whichever way it goes.
ImuMessage(m) ==
    \/ InitFails(m)
    \/ \E t0 \in ImuStamps \cup GtStamps : Initialize(m, t0)
    \/ FeedImuFirstClone(m)
    \/ \E p \in Periods : FeedImuClone(m, p) \/ FeedImuOnly(m, p)

ImuStep == \E m \in ImuStamps : ImuMessage(m)

SensorStep ==
    \/ \E s \in Sensors, t \in SensorStamps : FeedSensor(s, t)
    \/ \E s \in Gnss, t \in SensorStamps, far, success \in BOOLEAN : FeedGnssToInit(s, t, far, success)
    \/ \E s \in Gnss, t \in SensorStamps : FeedGnss(s, t)

Next == ImuStep \/ SensorStep \/ FeedWheel

Spec == Init /\ [][Next]_vars

-----------------------------------------------------------------------------
(* Properties *)

\* No message sequence reaches one of the program's exits or a null clone: augment_clone
\* never meets a clone at the state time, reset_cpi finds its clone, the marginalization
\* loop always has a clone to look at, add_keyframes a last keyframe to measure from.
NoFatalExit == fatal = "none"

\* augment_clone: "We can't insert a clone that occured at the same timestamp!"
NoSameTimeClone == fatal # "same_time_clone"

\* After every handler the filter stands at the newest IMU message, and the newest pose
\* of the window is at that time: no propagation request was silently refused.
CaughtUp ==
    initialized =>
        /\ stateTime \in imu /\ \A i \in imu : i <= stateTime
        /\ stateTime \in Poses /\ \A c \in Poses : c <= stateTime

\* get_next_clone_time: "only allow cloning -10% < of desired clone time to prevent too
\* dense cloning": two clones are never closer than nine tenths of some clone period.
CloneSpacing ==
    \A c, d \in clones : c < d => \E p \in Periods : 10 * (d - c) >= 9 * p

\* Every clone that is no keyframe lies within the window of the newest clone, however
\* the last steps interleaved clones, candidates and the GNSS initialization.
WindowBound == \A c \in clones \ keyframes : \A d \in clones : d - c <= Window

\* The keyframe lists name clones the state still has, each in one list only, so that
\* add_keyframes and the GNSS initialization may read their poses.
KeyframesHeld == keyframes \cup candidates \subseteq clones /\ keyframes \cap candidates = {}

\* The IMU pose stands for a time of its own: it is erased before it could shadow a
\* stochastic clone at the same time, or be marginalized as one.
ImuPoseApart == imuPose \cap (clones \cup keyframes \cup candidates) = {}

\* A keyframe's clone stays in the state until the GNSS initialization has used it.
KeyframesKept == [][gpsInit' \/ keyframes \subseteq keyframes' \cap clones']_vars

\* What leaves the window is older than the window, judged by the poses after the step.
OnlyOldClonesLeave ==
    [][\A c \in clones \ clones' : \E n \in clones' \cup imuPose' : n - c > Window]_vars

\* Every handler does to time, clones and keyframes one of the three things PoseWindow
\* allows, or nothing: refused propagations, late or missing messages, candidates and
\* the ground truth initialization are not to be told from outside.
Promised == INSTANCE PoseWindow
WindowPromised == Promised!Spec
=============================================================================
