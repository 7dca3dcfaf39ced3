----------------------------- MODULE WheelChain -----------------------------
(***************************************************************************)
(* The wheel updater (UpdaterWheel), composed with the sliding window.     *)
(* Wheel readings are kept in a stack; an update integrates the readings   *)
(* between two poses into one relative motion.  The updater remembers the  *)
(* pose its last update ended at and links on from there, pose by pose;    *)
(* with reuse_of_information it spans the whole window instead.            *)
(***************************************************************************)
EXTENDS SlidingWindow, CloneLookup

CONSTANTS
    WheelStamps,    \* time stamps a wheel message may carry
    Keep,           \* the 100 s of readings kept
    MaxReadings     \* bound on the readings in the stack

ASSUME WheelAssumption ==
    WheelStamps \subseteq Int /\ Keep \in Nat /\ MaxReadings \in Nat

VARIABLES
    readings,   \* data_stack: stamps, in the order of arrival
    lastUp,     \* last_updated_clone_time
    wheelDt,    \* state->wheel_dt
    used,       \* the updates of the last wheel message (history)
    reuse,      \* op->wheel->reuse_of_information, an option
    threw       \* data_stack.at has thrown, which nothing catches

wheelVars == <<vars, readings, lastUp, wheelDt, used, reuse, threw>>

WheelInit ==
    /\ Init
    /\ readings = <<>> /\ used = <<>>
    /\ lastUp = -1
    /\ wheelDt \in Offsets
    /\ reuse \in BOOLEAN
    /\ threw = FALSE

-----------------------------------------------------------------------------
(* UpdaterWheel::select_wheel_data *)

Halves(rd, i, t0) == rd[i] < t0 /\ t0 < rd[i + 1]

\* Mutant of Collect: the reading before the end is taken though it is behind it.
CollectPastEnd(rd, t0, t1, acc, i) ==
    IF acc.done THEN acc
    ELSE IF Halves(rd, i, t0) THEN [acc EXCEPT !.times = Append(@, t0)]
    ELSE IF rd[i] >= t0 /\ rd[i + 1] <= t1 THEN [acc EXCEPT !.times = Append(@, rd[i])]
    ELSE IF rd[i + 1] > t1
    THEN [done |-> TRUE, times |-> acc.times \o (IF rd[i] = t1 THEN <<t1>> ELSE <<rd[i], t1>>)]
    ELSE acc

\* One turn of the loop: split the reading t0 falls into, take what lies inside, end at t1.
Collect(rd, t0, t1, acc, i) ==
    IF acc.done THEN acc
    ELSE IF Halves(rd, i, t0) THEN [acc EXCEPT !.times = Append(@, t0)]
    ELSE IF rd[i] >= t0 /\ rd[i + 1] <= t1 THEN [acc EXCEPT !.times = Append(@, rd[i])]
    ELSE IF rd[i + 1] > t1
    THEN [done |-> TRUE, times |-> acc.times \o (IF rd[i] >= t1 THEN <<t1>> ELSE <<rd[i], t1>>)]
    ELSE acc

\* Of neighbours at one time one is kept.
Spread(s) == FoldLeft(LAMBDA kept, r : IF kept # <<>> /\ Last(kept) = r THEN kept ELSE Append(kept, r),
                      <<>>, s)

\* The times the readings handed to the integration stand for; <<>> when it fails.
Selected(rd, t0, t1) ==
    LET all == FoldLeft(LAMBDA acc, i : Collect(rd, t0, t1, acc, i),
                        [done |-> FALSE, times |-> <<>>], [i \in 1 .. Len(rd) - 1 |-> i]).times
    IN  IF rd = <<>> \/ rd[Len(rd)] <= t1 \/ rd[1] > t0 \/ Len(all) < 2 THEN <<>> ELSE Spread(all)

\* Mutant of Throws: the test that the first reading is not behind t0 comes too late.
ThrowsBeforeTest(rd, t0, t1) == Len(rd) >= 2 /\ t1 < rd[1] /\ ~Halves(rd, 1, t0)

\* The first turn, of index 0, cuts at an end t1 that is before the first reading: it takes
\* data_stack.at(i - 1).  Behind the tests on both ends of the stack that needs t1 < t0.
Throws(rd, t0, t1) == Len(rd) >= 2 /\ t1 < rd[1] /\ rd[1] <= t0 /\ ~Halves(rd, 1, t0)

-----------------------------------------------------------------------------
(* UpdaterWheel::update and try_update *)

Motion(from, to, dt, rd) ==
    [from |-> from, to |-> to, dt |-> dt, times |-> Selected(rd, from - dt, to - dt)]

\* Mutant of Linked: the walk over the poses stops at the first update.
LinkedOnce(st, c, rd, dts) ==
    LET m == Motion(st.last, c, dts[IF st.used = <<>> THEN 1 ELSE 2], rd)
    IN  IF st.broken \/ c <= st.last THEN st
        ELSE IF m.times = <<>> THEN [st EXCEPT !.broken = TRUE]
        ELSE [last |-> c, broken |-> TRUE, used |-> Append(st.used, m)]

\* From the last pose to c; dts is the time offset before and after the first update.
Linked(st, c, rd, dts) ==
    LET m == Motion(st.last, c, dts[IF st.used = <<>> THEN 1 ELSE 2], rd)
    IN  IF st.broken \/ c <= st.last THEN st
        ELSE IF m.times = <<>> THEN [st EXCEPT !.broken = TRUE]
        ELSE [st EXCEPT !.last = c, !.used = Append(@, m)]

\* Mutant of Start: a pose that is gone is replaced by the one before it.
StartOlder == IF lastUp \in Poses THEN {lastUp} ELSE ClosestOlder(Poses, lastUp) \cup {Min(Poses)}

\* The pose the chain goes on from: the last one, or the next newer when that is gone.
Start == IF lastUp \in Poses THEN {lastUp} ELSE ClosestNewer(Poses, lastUp)

\* The chain after a wheel message; nothing newer left resets it to the newest pose.
Chained(rd, dts) ==
    IF Start = {} THEN [last |-> Max(Poses), broken |-> TRUE, used |-> <<>>]
    ELSE FoldLeft(LAMBDA st, c : Linked(st, c, rd, dts),
                  [last |-> Max(Start), broken |-> FALSE, used |-> <<>>], Ascending(Poses))

\* State::oldest_clone_time: the oldest pose that is no keyframe.
OldestPose == IF Poses \subseteq keyframes THEN {} ELSE {Min(Poses \ keyframes)}

\* With reuse_of_information: from the oldest clone to the last pose before the reading.
Spanned(rd, dt) ==
    LET oldest == OldestPose
        ends == ClosestOlder(Poses, rd[Len(rd)] + dt)
        m == Motion(Max(oldest), Max(ends), dt, rd)
    IN  IF oldest = {} \/ ends = {} THEN [last |-> lastUp, used |-> <<>>]
        ELSE IF Max(Poses) - Max(oldest) > Window \/ m.times = <<>> THEN [last |-> lastUp, used |-> <<>>]
        ELSE [last |-> m.to, used |-> <<m>>]

\* The last pose before the reading may be a keyframe older than the oldest clone.  The
\* chain asks for motions to newer poses only, for which nothing throws.
SpanThrows(rd, dt) ==
    \E from \in OldestPose, to \in ClosestOlder(Poses, rd[Len(rd)] + dt) :
        Max(Poses) - from <= Window /\ Throws(rd, from - dt, to - dt)

\* Mutant of Stacked: stamps are kept in the IMU clock.
StackedInImuClock(w) == Append(readings, w + wheelDt)

\* UpdaterWheel::feed_measurement.
Stacked(w) == FoldLeft(LAMBDA kept, r : IF w - r > Keep THEN kept ELSE Append(kept, r),
                       <<>>, Append(readings, w))

\* feed_measurement_wheel.  A driver publishes in order, two readings at one time included.
FeedReading(w) ==
    /\ fatal = "none" /\ ~threw /\ Len(readings) < MaxReadings
    /\ \A i \in DOMAIN readings : readings[i] <= w
    /\ readings' = Stacked(w)
    /\ \E dt \in Offsets :
          LET up == IF ~initialized THEN [last |-> lastUp, used |-> <<>>]
                    ELSE IF reuse THEN Spanned(readings', wheelDt)
                    ELSE Chained(readings', <<wheelDt, dt>>)
          IN  /\ IF up.used = <<>> THEN dt = wheelDt /\ UNCHANGED vars ELSE FeedWheel
              /\ wheelDt' = dt /\ lastUp' = up.last /\ used' = up.used
    /\ threw' = (initialized /\ reuse /\ SpanThrows(readings', wheelDt))
    /\ UNCHANGED reuse

\* The other handlers leave the wheel updater alone; what they update moves wheel_dt.
Other ==
    /\ ~threw
    /\ \/ ImuStep /\ UNCHANGED wheelDt
       \/ SensorStep /\ wheelDt' \in (IF initialized THEN Offsets ELSE {wheelDt})
    /\ used' = <<>>
    /\ UNCHANGED <<readings, lastUp, reuse, threw>>

WheelNext == Other \/ \E w \in WheelStamps : FeedReading(w)

WheelSpec == WheelInit /\ [][WheelNext]_wheelVars

-----------------------------------------------------------------------------
(* Properties *)

\* The types of the variables; the chain has never run ahead of the poses.
WheelTypeOK ==
    /\ \A i \in DOMAIN readings : readings[i] \in WheelStamps
    /\ lastUp \in Int /\ wheelDt \in Offsets /\ reuse \in BOOLEAN /\ threw \in BOOLEAN
    /\ Poses # {} => \E c \in Poses : lastUp <= c

\* What is integrated begins at one pose and ends at the other (in the clock of the
\* wheel), time advances with every reading, and no reading in between is left out,
\* however the readings lie around the two poses: far apart, on them, or two at a time.
SelectionSpans ==
    ~reuse => \A i \in DOMAIN used :
        LET m == used[i]
            ends == {m.from - m.dt, m.to - m.dt}
        IN  /\ \A j \in 2 .. Len(m.times) : m.times[j - 1] < m.times[j]
            /\ {m.times[j] : j \in DOMAIN m.times} =
                 ends \cup {r \in {readings[j] : j \in DOMAIN readings} : Min(ends) <= r /\ r <= Max(ends)}

\* No motion is integrated twice: the updates of a wheel message start at or after the
\* pose the chain had reached, each where the one before ended, and connect poses the
\* state has, although the pose of the last update may have left in between.
MotionUsedOnce ==
    [][~reuse => \A i \in DOMAIN used' :
            /\ {used'[i].from, used'[i].to} \subseteq Poses
            /\ used'[i].from >= (IF i = 1 THEN lastUp ELSE used'[i - 1].to)
            /\ used'[i].from < used'[i].to]_wheelVars

\* A wheel message brings the chain up to every pose its last two readings have passed,
\* if the stack reaches back to where the chain goes on: nothing gets stuck behind a pose
\* that cannot be linked.
ChainReaches ==
    [][readings' # readings /\ initialized /\ ~reuse =>
        \A c \in Poses :
            /\ Len(readings') >= 2
            /\ \A dt \in {wheelDt, wheelDt'} :
                  /\ c - dt <= readings'[Len(readings') - 1] /\ c - dt < readings'[Len(readings')]
                  /\ \A s \in Start : readings'[1] <= s - dt
            => (\E s \in Start : c <= s) \/ \E i \in DOMAIN used' : used'[i].to = c]_wheelVars

\* With reuse_of_information the poses are taken from two searches that do not know of each
\* other, one that skips keyframes and one that does not, so what is to be integrated may
\* end before it begins, or throw.  That takes a message the window has overtaken: no
\* reading is newer than a pose that is no keyframe, and a keyframe is the last pose
\* before the readings; to throw, before all of them.  Without reuse neither can be.
TurnsBackAtKeyframes ==
    LET dt == IF used = <<>> THEN wheelDt ELSE used[1].dt
        overtaken(k) == k < readings[Len(readings)] + dt /\
                        \A c \in Poses \ keyframes : readings[Len(readings)] + dt <= c
    IN  /\ \A i \in DOMAIN used :
              used[i].to < used[i].from => reuse /\ used[i].to \in keyframes /\ overtaken(used[i].to)
        /\ threw => reuse /\ \E k \in keyframes \cap Poses :
              overtaken(k) /\ \A i \in DOMAIN readings : k < readings[i] + dt

\* try_update: "find the closest newer clone time if it does not exist (mostly due to
\* ZUPT)": the pose of the last update is there at the next message as long as it is
\* within the window.
LastPoseStays ==
    [][~reuse /\ used' # <<>> /\ lastUp >= 0 =>
        used'[1].from = lastUp \/ \E c \in Poses : c - lastUp > Window]_wheelVars

\* select_wheel_data: "Check that we have at least one measurement to propagate with".
SomethingIntegrated == \A i \in DOMAIN used : Len(used[i].times) >= 2
=============================================================================
