-------------------------- MODULE InterpolationCache --------------------------
(***************************************************************************)
(* What State caches to interpolate poses between clones: a polynomial per *)
(* clone (one map for first estimates, one for current ones) and, per      *)
(* sensor and time, the Jacobian of an interpolated pose.  The caches are  *)
(* keyed by times only; the clones behind those times come and go with the *)
(* sliding window this module composes with.                               *)
(***************************************************************************)
EXTENDS SlidingWindow, CloneLookup, Functions

CONSTANTS
    Order,      \* op->intr_order, odd
    DtExp,      \* op->dt_exp, the tolerance around clone times
    Queries     \* bound: interpolations one handler asks for

ASSUME OrderIsOdd == Order \in Nat /\ Order % 2 = 1
ASSUME ToleranceIsNatural == DtExp \in Nat /\ Queries \in Nat

VARIABLES
    fej,    \* _polynomial_fej: oldest clone time -> what the polynomial was fitted to
    est,    \* _polynomial_est, the same for current estimates
    jacobians   \* intr_jcb: <<sensor, time>> -> what the Jacobian was taken over

cacheVars == <<vars, fej, est, jacobians>>

\* A fit: the clone times it is over, and the one of them that was the IMU pose then.
Fit(S, pose) == [times |-> S, imu |-> S \cap pose]

Nothing == [t \in {} |-> Fit({}, {})]

CacheInit == Init /\ fej = Nothing /\ est = Nothing /\ jacobians = Nothing

-----------------------------------------------------------------------------
(* Polynomials *)

\* Mutant of LastPoses: one pose short.
LastPosesShort(S) == {c \in S : Cardinality({d \in S : d > c}) < Order}

\* The newest Order + 1 of the poses S.
LastPoses(S) == {c \in S : Cardinality({d \in S : d > c}) <= Order}

\* Mutant of Added: a polynomial that is there is not fitted again.
AddedOnce(map, S, pose) ==
    IF Cardinality(S) < Order + 1 THEN Nothing
    ELSE LET last == LastPoses(S)
             key == Min(last)
         IN  [t \in (DOMAIN map \cap S) \cup {key} |->
                 IF t \in DOMAIN map THEN map[t] ELSE Fit(last, pose)]

\* Mutant of Added: the entries whose clone has left are kept.
AddedKeeping(map, S, pose) ==
    IF Cardinality(S) < Order + 1 THEN Nothing
    ELSE LET last == LastPoses(S)
             key == Min(last)
         IN  [t \in DOMAIN map \cup {key} |-> IF t = key THEN Fit(last, pose) ELSE map[t]]

\* State::add_polynomial: drop the entries whose clone has left, fit the newest poses.
Added(map, S, pose) ==
    IF Cardinality(S) < Order + 1 THEN Nothing
    ELSE LET last == LastPoses(S)
             key == Min(last)
         IN  [t \in (DOMAIN map \cap S) \cup {key} |-> IF t = key THEN Fit(last, pose) ELSE map[t]]

\* Mutant of Rebuilt: the newest fit is left out.
RebuiltShort(S, pose) ==
    IF Cardinality(S) < Order + 1 THEN Nothing
    ELSE [t \in {c \in S : Cardinality({d \in S : d > c}) > Order} |->
            Fit({c \in S : c >= t /\ Cardinality({d \in S : t < d /\ d < c}) < Order}, pose)]

\* State::build_polynomial_data: a fit at every pose that has Order newer ones.
Rebuilt(S, pose) ==
    IF Cardinality(S) < Order + 1 THEN Nothing
    ELSE [t \in {c \in S : Cardinality({d \in S : d > c}) >= Order} |->
            Fit({c \in S : c >= t /\ Cardinality({d \in S : t < d /\ d < c}) < Order}, pose)]

\* The IMU handler: augment_clone rebuilds est and adds to fej before the window is
\* marginalized; the end of the handler adds the IMU pose to both.
ImuPolynomials ==
    LET added == clones' \ clones
        S == clones \cup added
        fej1 == IF added = {} THEN fej ELSE Added(fej, S, {})
        est1 == IF added = {} THEN est ELSE Rebuilt(S, {})
    IN  IF initialized'
        THEN /\ fej' = Added(fej1, clones' \cup imuPose', imuPose')
             /\ est' = Added(est1, clones' \cup imuPose', imuPose')
        ELSE UNCHANGED <<fej, est>>

-----------------------------------------------------------------------------
(* Interpolated Jacobians *)

\* The clones an interpolation at t is taken over now.
Around(t) == BoundingPoses(Poses, Order, t, DtExp)

\* State::check_polynomial, of the poses S and the polynomials map.
PolynomialIn(S, map, t) ==
    LET around == BoundingPoses(S, Order, t, DtExp)
    IN  /\ DOMAIN map # {} /\ DOMAIN map \subseteq S
        /\ around # {} /\ Min(around) \in DOMAIN map

PolynomialReady(t) == PolynomialIn(Poses, fej, t)

\* Mutant of HasJacobian: an entry is taken whatever became of its clones.
HasJacobianAny(s, t) == <<s, t>> \in DOMAIN jacobians

\* State::have_jacobian: an entry is taken when its clone times are all still there.
HasJacobian(s, t) == <<s, t>> \in DOMAIN jacobians /\ jacobians[<<s, t>>].times \subseteq Poses

\* State::get_interpolated_jacobian computes and caches a new entry.
Computes(s, t) ==
    /\ Cardinality(Poses) >= Order + 1
    /\ ~HasJacobian(s, t)
    /\ \A c \in Poses : Cardinality({d \in Poses : d > c}) > 0 \/ t <= c
    /\ PolynomialReady(t)

\* The cache after the handler of a message of sensor s interpolated at times Q.
Cached(s, Q) ==
    LET new == {<<s, t>> : t \in {u \in Q : Computes(s, u)}}
    IN  [k \in DOMAIN jacobians \cup new |->
            IF k \in new THEN Fit(Around(k[2]), imuPose) ELSE jacobians[k]]

\* State::flush_old_data, the Jacobian part: per sensor, from the front of the map.
FlushedJacobians(oldest) ==
    Restrict(jacobians, {k \in DOMAIN jacobians :
        \E j \in DOMAIN jacobians : j[1] = k[1] /\ j[2] <= k[2] /\ oldest <= j[2] + DtExp})

-----------------------------------------------------------------------------
(* The system with its caches *)

CacheImu ==
    /\ ImuStep
    /\ ImuPolynomials
    /\ jacobians' = IF clones' \ clones = {} THEN jacobians ELSE FlushedJacobians(Min(clones'))

\* Measurement times of s an updater may interpolate at: with the offset before the
\* message, or the one its update left.
Wanted(s) == IF initialized THEN {t + offset[s] : t \in hist'[s]} \cup {t + offset'[s] : t \in hist'[s]} ELSE {}

\* EKFUpdate fits est anew; with too few clones that clears both maps.
Refitted ==
    /\ initialized
    /\ est' = Rebuilt(Poses, imuPose)
    /\ fej' = IF Cardinality(Poses) < Order + 1 THEN Nothing ELSE fej

\* A handler interpolates, and refits est whenever it calls EKFUpdate.
Interpolates(s) ==
    /\ \E Q \in SUBSET Wanted(s) : Cardinality(Q) <= Queries /\ jacobians' = Cached(s, Q)
    /\ UNCHANGED <<fej, est>> \/ Refitted

CacheSensor == \E s \in Sensors, t \in SensorStamps : FeedSensor(s, t) /\ Interpolates(s)

CacheGnss == \E s \in Gnss, t \in SensorStamps : FeedGnss(s, t) /\ Interpolates(s)

\* Turning the state into the ENU frame touches no cache.
CacheGnssInit ==
    \E s \in Gnss, t \in SensorStamps, far, success \in BOOLEAN :
        /\ FeedGnssToInit(s, t, far, success)
        /\ Interpolates(s)
        /\ success \/ UNCHANGED <<fej, est>>

CacheWheel == FeedWheel /\ (UNCHANGED <<fej, est>> \/ Refitted) /\ UNCHANGED jacobians

CacheNext == CacheImu \/ CacheSensor \/ CacheGnss \/ CacheGnssInit \/ CacheWheel

CacheSpec == CacheInit /\ [][CacheNext]_cacheVars

-----------------------------------------------------------------------------
(* Properties *)

Fits == [times : SUBSET Int, imu : SUBSET Int]

\* A polynomial is over Order + 1 poses and kept under the oldest of them.
Polynomials(map) ==
    \A t \in DOMAIN map :
        map[t] \in Fits /\ Cardinality(map[t].times) = Order + 1 /\ t = Min(map[t].times)

CacheTypeOK ==
    /\ Polynomials(fej) /\ Polynomials(est)
    /\ \A k \in DOMAIN jacobians : k[1] \in Drivers /\ jacobians[k] \in Fits

\* Times an updater may ask an interpolated pose for.
Askable == IF initialized THEN {t \in MeasTimes : \E c \in Poses : t <= c} ELSE {}

\* The polynomial f describes an interpolation at t: it was fitted to the very clones the
\* interpolation is expressed in, to the IMU pose for the IMU pose.
Describes(f, t) == f.times = Around(t) /\ f.imu = f.times \cap imuPose

\* check_polynomial: "check if we have correct polynomial times for given time": what it
\* lets pass describes the interpolation.
PolynomialCorrect == \A t \in Askable : PolynomialReady(t) => Describes(fej[Min(Around(t))], t)

\* The same for every window that does not start at a keyframe, however clones, keyframes
\* and the IMU pose came and went between the fit and the request.
WindowPolynomialCorrect ==
    \A t \in Askable : PolynomialReady(t) =>
        Min(Around(t)) \in keyframes \/ Describes(fej[Min(Around(t))], t)

\* get_interpolated_pose_poly reads _polynomial_est.at(times[0]) after check_polynomial
\* has looked at _polynomial_fej only: the key is there whatever was added, rebuilt or
\* dropped in either map, and away from keyframes both maps hold the same window.
EstimateFitted ==
    \A t \in Askable : PolynomialReady(t) =>
        LET key == Min(Around(t))
        IN  key \in DOMAIN est /\ (key \in keyframes \/ est[key].times = fej[key].times)
=============================================================================
