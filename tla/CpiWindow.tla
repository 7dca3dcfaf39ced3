------------------------------ MODULE CpiWindow ------------------------------
(***************************************************************************)
(* The continuous preintegrations (State::cpis) kept beside the sliding    *)
(* window: one entry per IMU time, each integrated from the clone it names *)
(* as its anchor.  Propagation adds entries, reset_cpi starts a new anchor *)
(* at every clone, flush_old_data forgets, and an updater that asks for a  *)
(* time between the entries makes have_cpi create one.                     *)
(***************************************************************************)
EXTENDS SlidingWindow, CloneLookup, Functions

VARIABLES
    cpis,       \* state->cpis: time -> [anchor |-> clone_t, enu |-> the frame of its v]
    cpiClone    \* prop->cpi_clone_t

cpiVars == <<cpis, cpiClone>>
allVars == <<vars, cpis, cpiClone>>

Times == DOMAIN cpis

\* Times the program can have seen: an entry left unassigned has -1 for its anchor.
Seen(t) == t \in Int /\ \E i \in ImuStamps \cup GtStamps : i <= t

CpiTypeOK ==
    /\ \A t \in Times : Seen(t) /\ Seen(cpis[t].anchor) /\ cpis[t].enu \in BOOLEAN
    /\ Seen(cpiClone) \/ cpiClone = -1

CpiInit ==
    /\ Init
    /\ cpis = [t \in {} |-> [anchor |-> 0, enu |-> FALSE]]
    /\ cpiClone = -1

-----------------------------------------------------------------------------
(* Filling the map *)

\* select_imu_readings: the end of the request and the readings inside it that another
\* reading inside it follows.
SelectedImu(buf, t0, t1) == {r \in buf : t0 < r /\ \E q \in buf : r < q /\ q < t1} \cup {t1}

\* Mutant of Integrated: the anchor is left unassigned.
IntegratedUnset(map, buf, t0, t1, anchor) ==
    IF ~Reaches(buf, t0, t1) THEN map
    ELSE [t \in DOMAIN map \cup SelectedImu(buf, t0, t1) |->
            IF t \in DOMAIN map THEN map[t] ELSE [anchor |-> -1, enu |-> map[anchor].enu]]

\* Propagator::propagate: an entry per selected reading, anchored at the clone of the
\* last reset, with its velocity in that clone's frame; entries already there stay.
Integrated(map, buf, t0, t1, anchor) ==
    IF ~Reaches(buf, t0, t1) THEN map
    ELSE [t \in DOMAIN map \cup SelectedImu(buf, t0, t1) |->
            IF t \in DOMAIN map THEN map[t]
            ELSE [anchor |-> anchor, enu |-> map[anchor].enu]]

\* Mutant of Reset: an entry that propagation left at the clone time is kept.
ResetKeeping(map, t, enu) ==
    IF t \in DOMAIN map THEN map
    ELSE [u \in DOMAIN map \cup {t} |-> IF u = t THEN [anchor |-> t, enu |-> enu] ELSE map[u]]

\* Propagator::reset_cpi: the clone becomes its own anchor.
Reset(map, t, enu) ==
    [u \in DOMAIN map \cup {t} |-> IF u = t THEN [anchor |-> t, enu |-> enu] ELSE map[u]]

\* Mutant of Flushed: entries are judged by their own time instead of their anchor's.
FlushedByTime(map, oldest) == Restrict(map, {t \in DOMAIN map : t >= oldest})

\* State::flush_old_data: erase from the front, up to the first entry whose anchor is
\* not older than the oldest pose.
Flushed(map, oldest) ==
    Restrict(map, {t \in DOMAIN map : \E u \in DOMAIN map : u <= t /\ map[u].anchor >= oldest})

\* The part of the IMU handler that touches the map: the entries on the way to the new
\* clone, its reset and the flush, if there is one; then the entries up to the message.
ImuCpis(m) ==
    LET added == clones' \ clones
        ct == Max(added)
        start == IF initialized THEN stateTime ELSE ct
        fresh == Reset(Integrated(cpis, imu', start, ct, cpiClone), ct, gpsInit)
    IN  IF added = {}
        THEN /\ cpis' = IF initialized THEN Integrated(cpis, imu', stateTime, m, cpiClone) ELSE cpis
             /\ UNCHANGED cpiClone
        ELSE /\ cpis' = Integrated(Flushed(fresh, Min(clones')), imu', ct, m, ct)
             /\ cpiClone' = ct

-----------------------------------------------------------------------------
(* State::have_cpi *)

HasCpi(t) == t \in Times /\ cpis[t].anchor \in clones

\* State::oldest_clone_time: the oldest pose that is no keyframe.
OldestClone == Min(Poses \ keyframes)

\* Mutant of LinearAnchor: the anchor's age is not checked.
LinearAnchorAnyAge(t) ==
    IF Times = {} \/ t < Min(Times) \/ t > Max(Times) THEN {}
    ELSE LET t0 == IF t = Min(Times) THEN t ELSE Max({u \in Times : u < t})
             t1 == IF t = Max(Times) THEN t ELSE Min({u \in Times : u > t})
         IN  {cpis[u].anchor : u \in {t0}} \cap {cpis[u].anchor : u \in {t1}}

\* create_new_cpi_linear: the neighbours share an anchor that is still in the window.
LinearAnchor(t) ==
    IF Times = {} \/ t < Min(Times) \/ t > Max(Times) THEN {}
    ELSE LET t0 == IF t = Min(Times) THEN t ELSE Max({u \in Times : u < t})
             t1 == IF t = Max(Times) THEN t ELSE Min({u \in Times : u > t})
         IN  {a \in {cpis[t0].anchor} \cap {cpis[t1].anchor} : a >= OldestClone}

\* create_new_cpi_integrate: from a clone the search returns, over the IMU buffer.
IntegrateAnchors(t) ==
    {a \in ClosestNotImu(clones, t) :
        IF a <= t THEN Reaches(imu, a, t) ELSE Reaches(imu, t, a)}

\* The anchors have_cpi may give a new entry for time t; {} when it returns false.
NewAnchors(t) ==
    IF Times = {} THEN {} ELSE IF LinearAnchor(t) # {} THEN LinearAnchor(t) ELSE IntegrateAnchors(t)

\* An anchor the program looks up in both maps: at() throws when one of them misses it.
Known(a) == a \in clones /\ a \in Times

\* An updater asks for time t: what the map becomes.
AfterRequest(t) ==
    IF HasCpi(t) \/ NewAnchors(t) = {} THEN {cpis}
    ELSE {[u \in Times \cup {t} |-> IF u = t THEN [anchor |-> a, enu |-> cpis[a].enu] ELSE cpis[u]] :
             a \in {b \in NewAnchors(t) : b \in Times}}

-----------------------------------------------------------------------------
(* The system with its preintegrations *)

Asked(t) == cpis' \in AfterRequest(t)

CpiImu ==
    \E m \in ImuStamps :
        /\ ImuMessage(m)
        /\ ImuCpis(m)

\* A sensor message may make its updater ask for one preintegrated pose.
CpiSensor ==
    /\ SensorStep
    /\ \/ initialized /\ \E t \in MeasTimes : t <= stateTime /\ Asked(t)
       \/ UNCHANGED cpis
    /\ UNCHANGED cpiClone

\* The wheel updater connects clones and asks for no pose between them.
CpiWheel == FeedWheel /\ UNCHANGED <<cpis, cpiClone>>

CpiNext == CpiImu \/ CpiSensor \/ CpiWheel

CpiSpec == CpiInit /\ [][CpiNext]_allVars

-----------------------------------------------------------------------------
(* Properties *)

\* The lookups the code makes without checking find their keys, whatever was marginalized
\* and flushed before: cpis.at(clone_t) and clones.at(clone_t) after have_cpi(t), for entries
\* already there and for the ones it would create; the entry at the state time and its
\* anchor, which compute_accelerations and the next propagation read.
AnchorsResolve ==
    /\ \A t \in Times : cpis[t].anchor \in clones => cpis[t].anchor \in Times
    /\ \A t \in MeasTimes : initialized /\ t <= stateTime /\ ~HasCpi(t) => \A a \in NewAnchors(t) : Known(a)
    /\ initialized /\ clones # {} =>
          stateTime \in Times /\ Known(cpis[stateTime].anchor) /\ cpiClone = Max(clones)

\* Every clone of the window is its own anchor, so that dt = 0 and its velocity is its own.
ClonesAnchorThemselves == \A c \in clones : c \in Times /\ cpis[c].anchor = c

\* No step takes a preintegration away, or hangs it on another anchor, while the clone it
\* was integrated from is in the window; only a new clone takes the entry at its own time.
UsableEntriesStay ==
    [][\A t \in Times :
        cpis[t].anchor \in clones \cap clones' =>
            t \in DOMAIN cpis' /\ (cpis'[t].anchor = cpis[t].anchor \/ t \in clones' \ clones)]_allVars

\* select_imu_readings "will select IMU readings between the two times": once a reading
\* lies between the first clone and the state time, propagation used it.
NoReadingSkipped ==
    initialized =>
        \A r \in imu : cpiClone < r /\ r <= stateTime /\ cpiClone \in Times => r \in Times

\* transform_state_to_ENU: "Now transform every state into ENU frame": the velocity of
\* every anchor in use is in the frame of the clones.
VelocitiesTransformed == \A c \in clones : c \in Times => cpis[c].enu = gpsInit
=============================================================================
