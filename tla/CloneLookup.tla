----------------------------- MODULE CloneLookup -----------------------------
(***************************************************************************)
(* The searches State runs over the clone map: which clones bracket a      *)
(* time, which n+1 of them carry the interpolation polynomial, which one   *)
(* is closest.  Pure functions of the set S of clone times.                *)
(***************************************************************************)
EXTENDS Integers, FiniteSets, FiniteSetsExt, SequencesExt

Gap(a, b) == IF a < b THEN b - a ELSE a - b

\* The clone times in the map's order.
Ascending(S) == [i \in 1 .. Cardinality(S) |-> CHOOSE c \in S : Cardinality({d \in S : d < c}) = i - 1]

Newest(S) == Max(S)
Oldest(S) == Min(S)

\* State::closest_older_clone_time and closest_newer_clone_time: {} when there is none.
ClosestOlder(S, t) == LET older == {c \in S : c < t} IN IF older = {} THEN {} ELSE {Max(older)}
ClosestNewer(S, t) == LET newer == {c \in S : c > t} IN IF newer = {} THEN {} ELSE {Min(newer)}

\* Mutant of BoundingIndex: the last pair of clones is not looked at.
BoundingIndexShort(S, t, e) ==
    LET seq == Ascending(S)
        ok == {i \in 1 .. Len(seq) - 2 : seq[i] - e <= t /\ t <= seq[i + 1] + e}
    IN  IF Cardinality(S) < 2 \/ ok = {} THEN 0 ELSE Min(ok)

\* State::bounding_times: the index of the first pair of neighbours whose interval,
\* widened by dt_exp = e on both sides, holds t; 0 when there is none.
BoundingIndex(S, t, e) ==
    LET seq == Ascending(S)
        ok == {i \in 1 .. Len(seq) - 1 : seq[i] - e <= t /\ t <= seq[i + 1] + e}
    IN  IF Cardinality(S) < 2 \/ ok = {} THEN 0 ELSE Min(ok)

\* Mutant of FirstPose: one clone too far towards the newest.
FirstPoseLate(len, i, n) ==
    LET side == (n + 1) \div 2
    IN  IF i - side + 1 < 1 THEN 1 ELSE IF i + side >= len THEN len - n ELSE i - side + 2

\* Where n+1 clones around the i-th interval start: as many before as after it, pushed
\* inwards at either end of the map.
FirstPose(len, i, n) ==
    LET side == (n + 1) \div 2
    IN  IF i - side + 1 < 1 THEN 1 ELSE IF i + side > len THEN len - n ELSE i - side + 1

\* State::bounding_poses_n: n+1 consecutive clones, evenly around t where the map allows.
BoundingPoses(S, n, t, e) ==
    LET seq == Ascending(S)
        i == BoundingIndex(S, t, e)
        start == FirstPose(Len(seq), i, n)
    IN  IF Len(seq) < n + 1 \/ i = 0 THEN {} ELSE {seq[j] : j \in start .. start + n}

\* What State.h says of bounding_poses_n: n+1 clones without a hole between them, those next
\* to the request among them; "Ideally we are evenly space over interpolated pose", as many
\* before as after it unless the map ends on that side; and always something when the
\* request is inside a map with enough clones.  Near a clone nothing is interpolated.
SpreadAround(S, n, t, e) ==
    LET poly == BoundingPoses(S, n, t, e)
        near == \E c \in S : Gap(c, t) <= e
        before == {c \in poly : c < t}
        after == {c \in poly : c > t}
    IN  /\ poly # {} =>
            /\ Cardinality(poly) = n + 1
            /\ \A c \in S : Min(poly) <= c /\ c <= Max(poly) => c \in poly
            /\ near \/ ClosestOlder(S, t) \cup ClosestNewer(S, t) \subseteq poly
            /\ near \/ Cardinality(before) = Cardinality(after) \/ {Min(S), Max(S)} \cap poly # {}
        /\ Cardinality(S) >= n + 1 /\ Min(S) <= t /\ t <= Max(S) => poly # {}

\* State::closest_clone_time_not_imu over the stochastic clones S (closest_clone_time is
\* the same loop over all poses).  The loop compares |t - clone| with t_diff, but sets
\* t_diff from the output argument's previous value instead of from t: first from what
\* the caller left there (garbage), then from the clone chosen last.
Scan(S, t, garbage) ==
    LET step(best, c) ==
            IF best.at = {} THEN [at |-> {c}, diff |-> Gap(garbage, c)]
            ELSE IF Gap(t, c) < best.diff THEN [at |-> {c}, diff |-> Gap(CHOOSE b \in best.at : TRUE, c)]
            ELSE best
    IN  FoldLeft(step, [at |-> {}, diff |-> 0], Ascending(S)).at

\* The results the uninitialized argument of create_new_cpi_integrate can lead to: any
\* value of it puts the first t_diff somewhere between 0 and past the last clone.
ClosestNotImu(S, t) ==
    IF S = {} THEN {}
    ELSE UNION {Scan(S, t, Min(S) - d) : d \in 0 .. 1 + Max({Gap(t, c) : c \in S})}
=============================================================================
