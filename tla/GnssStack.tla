------------------------------ MODULE GnssStack ------------------------------
(***************************************************************************)
(* The measurements that wait in the GNSS updater (UpdaterGPS), composed   *)
(* with the sliding window and its interpolation.  A measurement waits     *)
(* until the window can be interpolated at its time; before the frame of   *)
(* the GNSS is known it waits for an initialization, which takes all that  *)
(* can be interpolated at once.  Every message retries everything.         *)
(***************************************************************************)
EXTENDS InterpolationCache

CONSTANT Needed     \* the 3 measurements an initialization takes at least

ASSUME NeededIsPositive == Needed \in Nat \ {0}

VARIABLES
    waiting,    \* data_stack: <<receiver, stamp>> in the order of arrival
    spent,      \* measurements that have constrained the filter (history)
    failed      \* an assertion of the initialization has failed

gnssVars == <<cacheVars, waiting, spent, failed>>

GnssInit == CacheInit /\ waiting = <<>> /\ spent = {} /\ failed = FALSE

-----------------------------------------------------------------------------

\* The time of measurement m in the IMU clock, the offsets being off.
At(m, off) == m[2] + off[m[1]]

\* get_interpolated_jacobian gives a pose for m, given what is cached already.
Interpolable(m, off) ==
    /\ Cardinality(Poses) >= Order + 1
    /\ \/ HasJacobian(m[1], At(m, off))
       \/ At(m, off) <= Max(Poses) /\ PolynomialReady(At(m, off))

\* The cache after the poses at the pairs Q have been asked for.
CachedAll(Q) ==
    LET new == {k \in Q : Computes(k[1], k[2])}
    IN  [k \in DOMAIN jacobians \cup new |->
            IF k \in new THEN Fit(Around(k[2]), imuPose) ELSE jacobians[k]]

Members(s) == {s[i] : i \in DOMAIN s}
Without(s, S) == FoldLeft(LAMBDA left, m : IF m \in S THEN left ELSE Append(left, m), <<>>, s)

\* The measurements of s an initialization would be made of.
Usable(s) == {m \in Members(s) : Interpolable(m, offset)}

\* The assertions of get_initial_guess and construct_init_linsys: the poses that had a
\* Jacobian can be interpolated, between two clones and on the polynomial.
Asserted(M) ==
    \A m \in M : BoundingIndex(Poses, At(m, offset), DtExp) # 0 /\ PolynomialReady(At(m, offset))

\* What a failed StateHelper::initialize leaves: the first goes, the second stays, ...
EveryOther(s) == [i \in 1 .. Len(s) \div 2 |-> s[2 * i]]

\* Mutant of Tried: a measurement that constrained the filter is kept.
TriedKeeping(st, m, accepted, offs) ==
    LET off == offs[IF st.used = {} THEN 1 ELSE 2]
        can == Interpolable(m, off) /\ PolynomialReady(At(m, off))
    IN  [left |-> IF At(m, off) < Min(Poses) THEN st.left ELSE Append(st.left, m),
         used |-> IF can /\ m \in accepted THEN st.used \cup {m} ELSE st.used,
         asked |-> st.asked \cup {<<m[1], At(m, off)>>}]

\* Mutant of Tried: a measurement is dropped whether or not the update went through.
TriedOnce(st, m, accepted, offs) ==
    LET off == offs[IF st.used = {} THEN 1 ELSE 2]
        can == Interpolable(m, off) /\ PolynomialReady(At(m, off))
    IN  [left |-> IF can \/ At(m, off) < Max(Poses) THEN st.left ELSE Append(st.left, m),
         used |-> IF can /\ m \in accepted THEN st.used \cup {m} ELSE st.used,
         asked |-> st.asked \cup {<<m[1], At(m, off)>>}]

\* One turn of try_update's loop: accepted are the measurements that pass a chi2 test,
\* offs the offsets before and after the first update.
Tried(st, m, accepted, offs) ==
    LET off == offs[IF st.used = {} THEN 1 ELSE 2]
        can == Interpolable(m, off) /\ PolynomialReady(At(m, off))
        done == can /\ m \in accepted
    IN  [left |-> IF done \/ At(m, off) < Min(Poses) THEN st.left ELSE Append(st.left, m),
         used |-> IF done THEN st.used \cup {m} ELSE st.used,
         asked |-> st.asked \cup {<<m[1], At(m, off)>>}]

Updated(s, accepted, offs) ==
    FoldLeft(LAMBDA st, m : Tried(st, m, accepted, offs),
             [left |-> <<>>, used |-> {}, asked |-> {}], s)

\* The loop over the measurements s, after those of M have initialized the frame and
\* changed the offsets.
UpdateAll(s, M, offs) ==
    \E accepted \in SUBSET Members(s) :
        LET up == Updated(s, accepted, offs)
            inits == {<<m[1], At(m, offset)>> : m \in M}
        IN  /\ waiting' = up.left
            /\ spent' = spent \cup up.used \cup M
            /\ jacobians' = CachedAll(up.asked \cup inits)
            /\ M = {} /\ up.used = {} => offset' = offset
            /\ est' = IF M \cup up.used = {} THEN est ELSE Rebuilt(Poses, imuPose)

\* feed_measurement_gps once the frame is known.
FeedUpdate(s, t) ==
    /\ ~failed /\ FeedGnss(s, t)
    /\ UpdateAll(Append(waiting, <<s, t>>), {}, <<offset, offset'>>)
    /\ UNCHANGED <<fej, failed>>

\* Before: no initialization, for want of measurements, of distance, or of a first guess.
FeedWaiting(s, t, far) ==
    LET all == Append(waiting, <<s, t>>)
        tried == Cardinality(Usable(all)) >= Needed
    IN  /\ ~failed /\ FeedGnssToInit(s, t, far, FALSE) /\ fatal' = "none"
        /\ waiting' = all
        /\ jacobians' = CachedAll({<<m[1], At(m, offset)>> : m \in Members(all)})
        /\ failed' \in {FALSE} \cup (IF tried /\ ~Asserted(Usable(all)) THEN {TRUE} ELSE {})
        /\ UNCHANGED <<fej, est, spent>>

\* The initialization is refused by its chi2 test.
FeedRefused(s, t, far) ==
    LET all == Append(waiting, <<s, t>>)
    IN  /\ Cardinality(Usable(all)) >= Needed /\ Asserted(Usable(all))
        /\ ~failed /\ FeedGnssToInit(s, t, far, FALSE) /\ fatal' = "none"
        /\ waiting' = EveryOther(all)
        /\ jacobians' = CachedAll({<<m[1], At(m, offset)>> : m \in Members(all)})
        /\ UNCHANGED <<fej, est, spent, failed>>

\* The initialization goes through, and the loop runs over what it has left.
FeedInitialize(s, t, far) ==
    LET all == Append(waiting, <<s, t>>)
    IN  /\ Cardinality(Usable(all)) >= Needed /\ Asserted(Usable(all))
        /\ ~failed /\ FeedGnssToInit(s, t, far, TRUE) /\ fatal' = "none"
        /\ UpdateAll(Without(all, Usable(all)), Usable(all), <<offset', offset'>>)
        /\ UNCHANGED <<fej, failed>>

\* The handlers of the IMU, the wheels and the other sensors.
FeedOther ==
    /\ ~failed
    /\ CacheImu \/ CacheSensor \/ CacheWheel
    /\ UNCHANGED <<waiting, spent, failed>>

GnssNext ==
    \/ FeedOther
    \/ \E s \in Gnss, t \in SensorStamps : FeedUpdate(s, t)
    \/ \E s \in Gnss, t \in SensorStamps, far \in BOOLEAN : FeedWaiting(s, t, far)
    \/ \E s \in Gnss, t \in SensorStamps, far \in BOOLEAN : FeedRefused(s, t, far)
    \/ \E s \in Gnss, t \in SensorStamps, far \in BOOLEAN : FeedInitialize(s, t, far)

GnssSpec == GnssInit /\ [][GnssNext]_gnssVars

-----------------------------------------------------------------------------
(* Properties *)

\* The types of the variables; a measurement waits or has been used, never both, and
\* waits once: nothing constrains the filter twice.
GnssTypeOK ==
    /\ Members(waiting) \cup spent \subseteq Gnss \X SensorStamps
    /\ Members(waiting) \cap spent = {}
    /\ \A i, j \in DOMAIN waiting : waiting[i] = waiting[j] => i = j
    /\ failed \in BOOLEAN

\* A measurement whose Jacobian is at hand, perhaps from an earlier message, can also be
\* interpolated: "bool success = ...; assert(success)" holds in get_initial_guess and in
\* construct_init_linsys, whatever became of clones and polynomials in between.
InitAssertionsHold == ~failed

\* A measurement leaves the stack only after it has constrained the filter, when it is
\* older than every pose, or when an initialization of the frame has been refused; one
\* that cannot be interpolated yet, or is refused itself, is kept for the next message.
NoMeasurementLost ==
    [][\A m \in Members(waiting) \ Members(waiting') :
        \/ m \in spent'
        \/ gpsInit' /\ \E off \in {offset, offset'} : \A c \in Poses : At(m, off) < c
        \/ ~gpsInit' /\ Len(waiting) + 1 >= Needed]_gnssVars

\* A measurement that lies inside the window when a message comes is tried: its Jacobian
\* is there afterwards, unless the keyframes just dropped have left polynomials behind.
InsideIsTried ==
    [][waiting' # waiting /\ gpsInit =>
        \A m \in Members(waiting') :
            /\ Cardinality(Poses) >= Order + 1 /\ DOMAIN fej \subseteq Poses
            /\ Min(Poses) <= At(m, offset) /\ At(m, offset) <= Max(Poses)
            /\ offset' = offset
            => <<m[1], At(m, offset)>> \in DOMAIN jacobians']_gnssVars
=============================================================================
