------------------------------ MODULE LidarMap ------------------------------
(***************************************************************************)
(* The scans of a LiDAR and the frame of its map (UpdaterLidar,            *)
(* LidarHelper), composed with the sliding window and its interpolation.   *)
(* Scans wait until the window has passed them, are matched to the map and *)
(* join it.  The map stands in the frame of a past LiDAR pose, its anchor, *)
(* which has to stay inside the window: the IMU handler moves it to the    *)
(* newest clone before the clones it lies between are marginalized.        *)
(*                                                                         *)
(* One LiDAR: several have a map each and act alike.                       *)
(***************************************************************************)
EXTENDS InterpolationCache

CONSTANTS
    Lidar,      \* the LiDAR: one of Sensors, and no receiver
    Delay,      \* the 0.05 s a scan is held back
    Patience    \* the second after which a map nobody matched is given up

ASSUME LidarAssumption == Lidar \in Sensors \ Gnss /\ Delay \in Nat /\ Patience \in Nat

VARIABLES
    raw,        \* stack_lidar_raw: scan times
    ready,      \* stack_lidar_new
    anchor,     \* {ikd->time} of an initialized tree, {} before
    lastUp,     \* ikd->last_up_time
    stopped,    \* the exit or assertion of the LiDAR code that was reached, or "none"
    matched     \* the scans the filter was corrected with in the last step: what EKFUpdate
                \* was called for, which the code keeps no record of and never reads

lidarVars == <<raw, ready, anchor, lastUp, stopped>>
allVars   == <<cacheVars, raw, ready, anchor, lastUp, stopped, matched>>

Stops == {"none", "no_anchor_to_match", "no_anchor_to_move", "no_pose_for_scan", "no_third_clone"}

LidarInit ==
    /\ CacheInit
    /\ raw = {} /\ ready = {} /\ anchor = {}
    /\ lastUp = -1
    /\ stopped = "none"
    /\ matched = {}

-----------------------------------------------------------------------------
(* Receiving: UpdaterLidar::feed_measurement *)

\* Not before State::oldest_clone_time, the oldest pose that is no keyframe.
InWindow(t) == Poses \subseteq keyframes \/ t >= Min(Poses \ keyframes)

\* Mutant of Sorted: a scan that is ready stays in the first stack too.
SortedTwice(st, x) ==
    LET t == x + offset[Lidar] IN
    IF ~InWindow(t) THEN [st EXCEPT !.raw = @ \ {x}]
    ELSE IF t + Delay > Max(Poses) THEN st
    ELSE IF st.anchor = {} \/ st.lastUp + Patience < x
    THEN [st EXCEPT !.raw = @ \ {x}, !.anchor = {x}, !.lastUp = x]
    ELSE [st EXCEPT !.ready = @ \cup {x}]

\* What becomes of the scan x: too old, too young, the start of a map, or ready.
Sorted(st, x) ==
    LET t == x + offset[Lidar] IN
    IF ~InWindow(t) THEN [st EXCEPT !.raw = @ \ {x}]
    ELSE IF t + Delay > Max(Poses) THEN st
    ELSE IF st.anchor = {} \/ st.lastUp + Patience < x
    THEN [st EXCEPT !.raw = @ \ {x}, !.anchor = {x}, !.lastUp = x]
    ELSE [st EXCEPT !.raw = @ \ {x}, !.ready = @ \cup {x}]

Received(x) ==
    LET all == raw \cup {x}
        st == [raw |-> all, ready |-> ready, anchor |-> anchor, lastUp |-> lastUp]
    IN  IF Poses = {} THEN st
        ELSE LET done == FoldLeft(Sorted, st, Ascending(all))
             IN  [done EXCEPT !.ready = {y \in @ : InWindow(y + offset[Lidar])}]

-----------------------------------------------------------------------------
(* Updating: UpdaterLidar::try_update *)

\* get_interpolated_jacobian gives a pose at t, given what is cached already.
JacobianAt(t) ==
    /\ Cardinality(Poses) >= Order + 1
    /\ HasJacobian(Lidar, t) \/ (t <= Max(Poses) /\ PolynomialReady(t))

\* Mutant of Tried: a scan that no point of matches the map is taken for used as well.
TriedOnce(st, x, matches, dts) ==
    LET dt == dts[IF st.used = {} THEN 1 ELSE 2]
        t == x + dt
        a == Max(st.anchor) + dt
    IN  IF st.stopped # "none" \/ ~JacobianAt(t) THEN st
        ELSE IF ~JacobianAt(a)
        THEN [st EXCEPT !.asked = @ \cup {t},
                        !.stopped = IF InWindow(a - 1) THEN @ ELSE "no_anchor_to_match"]
        ELSE IF ~(PolynomialReady(t) /\ PolynomialReady(a))
        THEN [st EXCEPT !.stopped = "no_pose_for_scan"]
        ELSE [st EXCEPT !.asked = @ \cup {t, a}, !.used = @ \cup {x},
                        !.matched = IF x \in matches THEN @ \cup {x} ELSE @]

\* One scan: matches tells whether any of its points passes the tests, dts the offset
\* before and after the first update of this call.
Tried(st, x, matches, dts) ==
    LET dt == dts[IF st.used = {} THEN 1 ELSE 2]
        t == x + dt
        a == Max(st.anchor) + dt
    IN  IF st.stopped # "none" \/ ~JacobianAt(t) THEN st
        ELSE IF ~JacobianAt(a)
        THEN [st EXCEPT !.asked = @ \cup {t},
                        !.stopped = IF InWindow(a - 1) THEN @ ELSE "no_anchor_to_match"]
        ELSE IF ~(PolynomialReady(t) /\ PolynomialReady(a))
        THEN [st EXCEPT !.stopped = "no_pose_for_scan"]
        ELSE IF x \notin matches THEN [st EXCEPT !.asked = @ \cup {t, a}]
        ELSE [st EXCEPT !.asked = @ \cup {t, a}, !.used = @ \cup {x}, !.matched = @ \cup {x}]

Updated(st, matches, dts) ==
    FoldLeft(LAMBDA acc, x : Tried(acc, x, matches, dts),
             [used |-> {}, matched |-> {}, asked |-> {}, anchor |-> st.anchor, stopped |-> "none"],
             Ascending(st.ready))

\* feed_measurement_lidar: receive, update, register what was used in the map, where ICP
\* has placed it; a second try at placing it reads the poses again.
FeedLidar(x) ==
    LET st == Received(x) IN
    /\ stopped = "none"
    /\ FeedSensor(Lidar, x)
    /\ anchor' = st.anchor /\ raw' = st.raw
    /\ IF ~initialized
       THEN /\ ready' = st.ready /\ lastUp' = st.lastUp /\ matched' = {}
            /\ UNCHANGED <<stopped, fej, est, jacobians>>
       ELSE \E matches \in SUBSET st.ready :
              LET up == Updated(st, matches, <<offset[Lidar], offset'[Lidar]>>) IN
              /\ up.used = {} => offset' = offset
              /\ ready' = st.ready \ up.used /\ matched' = up.matched
              /\ \E placed \in SUBSET up.used :
                    lastUp' = IF placed = {} THEN st.lastUp ELSE Max(placed)
              /\ stopped' \in {up.stopped} \cup
                    IF up.used # {} /\ ~PolynomialReady(Max(st.anchor) + offset'[Lidar])
                    THEN {"no_anchor_to_match"} ELSE {}
              /\ jacobians' = Cached(Lidar, up.asked)
              /\ est' = IF up.used = {} THEN est ELSE Rebuilt(Poses, imuPose)
              /\ UNCHANGED fej

-----------------------------------------------------------------------------
(* The IMU handler *)

\* The poses of S from the n-th one on, counted from the oldest that is no keyframe.
From(S, n) == {c \in S : Cardinality({d \in S : Min(S \ keyframes) <= d /\ d <= c}) >= n}

\* Mutant of MapMoved: the map waits until its anchor is behind the second clone.
MapMovedLate(S) ==
    LET at == Max(anchor) + offset[Lidar]
        due == Cardinality(S) >= 3 /\ at <= Min(From(S, 2))
    IN  IF anchor = {} \/ Cardinality(S) < Order + 1
        THEN UNCHANGED <<anchor, stopped>>
        ELSE IF Cardinality(S) >= 3 /\ From(S, 3) = {}
        THEN stopped' = "no_third_clone" /\ UNCHANGED anchor
        ELSE IF ~due THEN UNCHANGED <<anchor, stopped>>
        ELSE IF ~PolynomialIn(S, Added(fej, S, {}), at)
        THEN stopped' = "no_anchor_to_move" /\ UNCHANGED anchor
        ELSE anchor' = {Max(S) - offset[Lidar]} /\ UNCHANGED stopped

\* UpdaterLidar::propagate_map_frame, after augment_clone and before the window is
\* marginalized: S are the clones then.  oldest_3rd_clone_time asserts that there is one.
\* Old and distant points are dropped on the way; some are taken to be left (a map that
\* comes out empty is started again by the next scan).
MapMoved(S) ==
    LET at == Max(anchor) + offset[Lidar]
        due == Cardinality(S) >= 3 /\ at <= Min(From(S, 3))
    IN  IF anchor = {} \/ Cardinality(S) < Order + 1
        THEN UNCHANGED <<anchor, stopped>>
        ELSE IF Cardinality(S) >= 3 /\ From(S, 3) = {}
        THEN stopped' = "no_third_clone" /\ UNCHANGED anchor
        ELSE IF ~due THEN UNCHANGED <<anchor, stopped>>
        ELSE IF ~PolynomialIn(S, Added(fej, S, {}), at)
        THEN stopped' = "no_anchor_to_move" /\ UNCHANGED anchor
        ELSE anchor' = {Max(S) - offset[Lidar]} /\ UNCHANGED stopped

FeedImu ==
    /\ stopped = "none"
    /\ CacheImu
    /\ IF clones' \ clones = {} THEN UNCHANGED <<anchor, stopped>> ELSE MapMoved(clones \cup clones')
    /\ raw' = IF ~initialized' /\ (\E i \in imu : i \notin imu')
              THEN {x \in raw : \A i \in imu' : i - x <= InitWindow} ELSE raw
    /\ matched' = {}
    /\ UNCHANGED <<ready, lastUp>>

\* A GNSS message moves the window too: keyframes, and the initialization.  Wheel updates
\* refit the polynomials.
FeedOther ==
    /\ stopped = "none"
    /\ CacheGnss \/ CacheGnssInit \/ CacheWheel
    /\ matched' = {}
    /\ UNCHANGED lidarVars

LidarNext == FeedImu \/ FeedOther \/ \E x \in SensorStamps : FeedLidar(x)

LidarSpec == LidarInit /\ [][LidarNext]_allVars

-----------------------------------------------------------------------------
\* The types of the variables; a scan is in one stack only.
LidarTypeOK ==
    /\ raw \subseteq SensorStamps /\ ready \subseteq SensorStamps /\ raw \cap ready = {}
    /\ anchor \subseteq Int /\ Cardinality(anchor) <= 1
    /\ lastUp \in Int
    /\ stopped \in Stops
    /\ matched \subseteq SensorStamps

\* The anchor time in the IMU clock.
Anchored == {a + offset[Lidar] : a \in anchor}

\* None of the exits and assertions of the LiDAR code is reached.
NoLidarExit == stopped = "none"

\* What each stop of the LiDAR code takes.  The exit of propagate_map_frame: an anchor
\* older than every pose.  Those of update and of the registration: such an anchor too, or
\* one newer than every pose, where a correction of the time offset may carry it, or, as
\* for the assertions on interpolated poses, a polynomial of a keyframe the GNSS
\* initialization has dropped, which the next IMU message takes away.  The assertion of
\* oldest_3rd_clone_time, which counts the keyframes among the clones and not on the way
\* from the oldest to the third, is the one an anchor inside the window meets as well: it
\* takes a keyframe older than every other clone and at most two of those.  A map that has
\* not been started stops nothing; whatever became of the clones around the anchor, of the
\* polynomials over them and of the cached Jacobians, none of the four stops comes without
\* its cause.
ExitsHaveACause ==
    LET behind == \E a \in Anchored : \A c \in Poses : a + DtExp < c
        ahead == \E a \in Anchored : \A c \in Poses : c + DtExp < a
        dangling == ~(DOMAIN fej \subseteq Poses)
    IN  /\ stopped = "no_anchor_to_move" => behind
        /\ stopped = "no_anchor_to_match" => behind \/ ahead \/ dangling
        /\ stopped = "no_pose_for_scan" => dangling
        /\ stopped = "no_third_clone" =>
              /\ anchor # {} /\ Cardinality(clones \ keyframes) <= 2
              /\ \E k \in clones \cap keyframes : \A c \in clones \ keyframes : k < c

\* propagate_map_frame: "check if map is older than the clone to be marginalized": a step
\* that marginalizes at most two clones of a window with enough of them does not leave
\* the anchor behind.
AnchorFollows ==
    [][ /\ imu' # imu
        /\ Cardinality(clones \ clones') \in {1, 2}
        /\ Cardinality(clones \cup clones') >= (IF Order < 3 THEN 3 ELSE Order + 1)
        /\ \A a \in Anchored : a >= Min(Poses)
        => \A a \in Anchored' : a >= Min(Poses')]_allVars

\* A scan leaves the stacks, or the message it came with, only when the filter has been
\* corrected with it, so that one without a pose or without a match is kept and tried
\* again; when it starts the map, or started it until a scan more than Patience newer did
\* at the same message; when it is older than the window; or when it is too old to
\* initialize with.
NoScanLost ==
    [][\A x \in (raw \cup ready \cup (hist'[Lidar] \ hist[Lidar])) \ (raw' \cup ready') :
        \/ x \in matched'
        \/ x \notin ready /\ lastUp' # lastUp /\ \E a \in anchor' : x = a \/ x + Patience < a
        \/ \A c \in Poses \ keyframes : x + offset[Lidar] < c
        \/ ~initialized' /\ \E i \in imu' : i - x > InitWindow]_allVars
=============================================================================
