------------------------------ MODULE Covariance ------------------------------
(***************************************************************************)
(* The layout of the filter's covariance: State's constructor and the       *)
(* operations of StateHelper that add, copy and remove variables, in the    *)
(* order in which the handlers of SystemManager, UpdaterCamera and          *)
(* UpdaterGPS call them.                                                    *)
(*                                                                          *)
(* The numbers of the matrix are abstracted to what they are about: row (and *)
(* column) i of State::cov stands for the error of the state components in  *)
(* cov[i], pairs <<variable, index>>.  A row that is what it should be holds *)
(* one component; an operation that addresses wrong rows leaves another     *)
(* variable's components there.                                             *)
(*                                                                          *)
(* A handler runs alone.  It is divided into the iterations of its loops,   *)
(* with "doing" naming the loop.  Which clones leave is SlidingWindow's      *)
(* concern and open here, and so is whether an update passes its tests.      *)
(***************************************************************************)
EXTENDS Integers, Sequences

CONSTANTS Calibrated,  \* the calibration variables, in the order of the constructor
          CalibDim,    \* and the size of each
          Clones,      \* clones of the IMU pose (PoseJPL), objects to be allocated
          Landmarks,   \* SLAM features (Landmark), objects to be allocated
          Imu,         \* State::imu
          Trans        \* State::trans_WtoE

PoseDim == 6
CalibVars == {Calibrated[i] : i \in DOMAIN Calibrated}
Variables == {Imu, Trans} \cup CalibVars \cup Clones \cup Landmarks

ASSUME VariablesAssumption ==
    /\ Calibrated \in Seq(CalibVars)
    /\ \A i, j \in DOMAIN Calibrated : Calibrated[i] = Calibrated[j] => i = j
    /\ CalibDim \in [CalibVars -> Nat \ {0}]
    /\ Imu \notin CalibVars \cup Clones \cup Landmarks
    /\ Trans \notin {Imu} \cup CalibVars \cup Clones \cup Landmarks
    /\ CalibVars \cap (Clones \cup Landmarks) = {}
    /\ Clones \cap Landmarks = {}

VARIABLES layout,  \* State::variables, their ids, State::cov
          clones,  \* State::clones without the entry that is the IMU pose
          slam,    \* State::cam_SLAM_features
          marked,  \* the features of slam with should_marg set
          gnss,    \* UpdaterGPS::initialized
          built,   \* how many calibration variables the constructor has added
          doing    \* the loop the running handler is in

vars == <<layout, clones, slam, marked, gnss, built, doing>>

Handlers == {"constructor", "idle", "clones", "camera slam", "camera update",
             "gnss slam", "transform"}

\* Type::size
Dim == [v \in Variables |->
          CASE v = Imu -> 15
            [] v = Trans -> 4
            [] v \in CalibVars -> CalibDim[v]
            [] v \in Clones -> PoseDim
            [] OTHER -> 3]
-----------------------------------------------------------------------------
(* The operations of StateHelper on the layout.                             *)

\* The variable's rows, numbered from 0.
Rows(n) == 0 .. n - 1

\* push_back of a variable with the id at the end of the covariance, which grows by
\* the given rows.
Pushed(L, v, new) ==
    [vars |-> L.vars \cup {v},
     id   |-> [L.id EXCEPT ![v] = L.rows],
     rows |-> L.rows + Dim[v],
     cov  |-> [i \in Rows(L.rows + Dim[v]) |-> IF i < L.rows THEN L.cov[i] ELSE new[i - L.rows]]]

\* The rows of a variable that an estimator has computed for it.
Computed(v) == [k \in Rows(Dim[v]) |-> {<<v, k>>}]

\* Mutant of Copied: the position comes first, as if the pose were at the id of its position.
CopiedFromPosition(L, c) ==
    [k \in Rows(PoseDim) |->
       {IF e = <<Imu, k>> THEN <<c, k>> ELSE e : e \in L.cov[L.id[Imu] + 3 + k]}]

\* StateHelper::clone of imu->pose(): the rows at the pose's id are copied, and what
\* is about the IMU there is about the clone here.
Copied(L, c) ==
    [k \in Rows(PoseDim) |->
       {IF e = <<Imu, k>> THEN <<c, k>> ELSE e : e \in L.cov[L.id[Imu] + k]}]

\* Mutant of Marginalized: the variables beyond keep their ids.
MarginalizedUnshifted(L, m) ==
    [vars |-> L.vars \ {m},
     id   |-> [L.id EXCEPT ![m] = -1],
     rows |-> L.rows - Dim[m],
     cov  |-> [i \in Rows(L.rows - Dim[m]) |->
                 IF i < L.id[m] THEN L.cov[i] ELSE L.cov[i + Dim[m]]]]

\* StateHelper::marginalize
Marginalized(L, m) ==
    [vars |-> L.vars \ {m},
     id   |-> [v \in Variables |->
                 IF v = m THEN -1
                 ELSE IF v \in L.vars /\ L.id[v] > L.id[m] THEN L.id[v] - Dim[m]
                 ELSE L.id[v]],
     rows |-> L.rows - Dim[m],
     cov  |-> [i \in Rows(L.rows - Dim[m]) |->
                 IF i < L.id[m] THEN L.cov[i] ELSE L.cov[i + Dim[m]]]]

\* Mutant of Back: the first of the calibration variables and the clones.
BackFirst(L) == CHOOSE v \in L.vars \ {Imu} : \A w \in L.vars \ {Imu} : L.id[v] <= L.id[w]

\* variables.back(): the vector is in the order of the ids, since every push_back
\* takes the id at its end.
Back(L) == CHOOSE v \in L.vars : \A w \in L.vars : L.id[w] <= L.id[v]

\* Mutant of Reverted: the new variable is added and stays.
RevertedNot(L, v) == Pushed(L, v, Computed(v))

\* StateHelper::initialize whose update failed: the new variable is added and taken back.
Reverted(L, v) == LET added == Pushed(L, v, Computed(v))
                  IN Marginalized(added, Back(added))

\* The rows that the Jacobian of transform_state_to_ENU adds to row k of a pose, and
\* to the velocity of the IMU.  A clone's position takes column 3, the IMU's position.
PoseTerms(L, v, k) ==
    {L.id[Trans]} \cup (IF k < 3 THEN {} ELSE {L.id[Trans] + k - 2, k})

EnuTerms(L, poses, i) ==
    (UNION {PoseTerms(L, v, i - L.id[v]) :
              v \in {w \in poses : L.id[w] <= i /\ i < L.id[w] + PoseDim}})
    \cup (IF i \in 6 .. 8 THEN {L.id[Trans]} ELSE {})

\* UpdaterGPS::transform_state_to_ENU after the features are gone: the first rows of
\* the covariance are combined, then the transformation is marginalized and the
\* result overwritten.  The terms of the transformation are the change of frame.
Transformed(L, poses) ==
    LET size == L.rows - Dim[Trans]
        Combined(i) == UNION {L.cov[j] : j \in {i} \cup EnuTerms(L, poses, i)}
    IN [Marginalized(L, Trans) EXCEPT
          !.cov = [i \in Rows(size) |-> {e \in Combined(i) : e[1] # Trans}]]
-----------------------------------------------------------------------------
Init ==
    /\ layout = [vars |-> {Imu}, id |-> [v \in Variables |-> IF v = Imu THEN 0 ELSE -1],
                 rows |-> Dim[Imu], cov |-> Computed(Imu)]
    /\ clones = {} /\ slam = {} /\ marked = {}
    /\ gnss = FALSE /\ built = 0 /\ doing = "constructor"

\* set_camera_state .. set_lidar_state: the next variable that is calibrated.
AddCalibration ==
    /\ doing = "constructor" /\ built < Len(Calibrated)
    /\ LET v == Calibrated[built + 1] IN layout' = Pushed(layout, v, Computed(v))
    /\ built' = built + 1
    /\ UNCHANGED <<clones, slam, marked, gnss, doing>>

\* set_state_covariance
Constructed ==
    /\ doing = "constructor" /\ built = Len(Calibrated)
    /\ doing' = "idle"
    /\ UNCHANGED <<layout, clones, slam, marked, gnss, built>>

\* feed_measurement_imu with a new clone: augment_clone ...
AugmentClone(c) ==
    /\ doing = "idle" /\ c \notin clones
    /\ layout' = Pushed(layout, c, Copied(layout, c))
    /\ clones' = clones \cup {c}
    /\ doing' = "clones"
    /\ UNCHANGED <<slam, marked, gnss, built>>

\* ... and marginalize_old_clone, one iteration,
MarginalizeOldClone(c) ==
    /\ doing = "clones" /\ c \in clones
    /\ layout' = Marginalized(layout, c)
    /\ clones' = clones \ {c}
    /\ UNCHANGED <<slam, marked, gnss, built, doing>>

\* until the window is short enough.
WindowShort ==
    /\ doing = "clones"
    /\ doing' = "idle"
    /\ UNCHANGED <<layout, clones, slam, marked, gnss, built>>

\* feed_measurement_camera: features of this camera that have lost their track ...
LoseTracks(lost) ==
    /\ doing = "idle"
    /\ marked' = lost
    /\ doing' = "camera slam"
    /\ UNCHANGED <<layout, clones, slam, gnss, built>>

\* ... leave in marginalize_slam,
MarginalizeSlam(f) ==
    /\ doing \in {"camera slam", "gnss slam"} /\ f \in marked
    /\ layout' = Marginalized(layout, f)
    /\ slam' = slam \ {f} /\ marked' = marked \ {f}
    /\ UNCHANGED <<clones, gnss, built, doing>>

\* and what follows depends on the handler.
SlamMarginalized ==
    /\ doing \in {"camera slam", "gnss slam"} /\ marked = {}
    /\ doing' = IF doing = "camera slam" THEN "camera update" ELSE "transform"
    /\ UNCHANGED <<layout, clones, slam, marked, gnss, built>>

\* slam_init: a new feature passes its tests and its update,
SlamInit(f) ==
    /\ doing = "camera update" /\ f \notin slam
    /\ layout' = Pushed(layout, f, Computed(f))
    /\ slam' = slam \cup {f}
    /\ UNCHANGED <<clones, marked, gnss, built, doing>>

\* or the update after it fails.
SlamInitReverted(f) ==
    /\ doing = "camera update" /\ f \notin slam
    /\ layout' = Reverted(layout, f)
    /\ UNCHANGED <<clones, slam, marked, gnss, built, doing>>

CameraUpdated ==
    /\ doing = "camera update"
    /\ doing' = "idle"
    /\ UNCHANGED <<layout, clones, slam, marked, gnss, built>>

\* feed_measurement_gps: try_initialization adds the transformation and marks every
\* feature in transform_state_to_ENU, or its update fails.
GnssInit ==
    /\ doing = "idle" /\ ~ gnss
    /\ layout' = Pushed(layout, Trans, Computed(Trans))
    /\ marked' = slam
    /\ doing' = "gnss slam"
    /\ UNCHANGED <<clones, slam, gnss, built>>

GnssInitReverted ==
    /\ doing = "idle" /\ ~ gnss
    /\ layout' = Reverted(layout, Trans)
    /\ UNCHANGED <<clones, slam, marked, gnss, built, doing>>

\* The state changes its frame; then the clones kept for the GNSS leave.
TransformToEnu ==
    /\ doing = "transform"
    /\ layout' = Transformed(layout, {Imu} \cup clones)
    /\ gnss' = TRUE
    /\ doing' = "clones"
    /\ UNCHANGED <<clones, slam, marked, built>>

Next ==
    \/ AddCalibration \/ Constructed
    \/ \E c \in Clones : AugmentClone(c) \/ MarginalizeOldClone(c)
    \/ WindowShort
    \/ \E lost \in SUBSET slam : LoseTracks(lost)
    \/ \E f \in Landmarks : MarginalizeSlam(f) \/ SlamInit(f) \/ SlamInitReverted(f)
    \/ SlamMarginalized \/ CameraUpdated
    \/ GnssInit \/ GnssInitReverted \/ TransformToEnu

Spec == Init /\ [][Next]_vars
-----------------------------------------------------------------------------
(* Properties                                                               *)

CovTypeOK ==
    /\ layout.vars \subseteq Variables
    /\ layout.rows \in Nat
    /\ layout.id \in [Variables -> -1 .. layout.rows - 1]
    /\ layout.cov \in [Rows(layout.rows) -> SUBSET (Variables \X Nat)]
    /\ clones \subseteq Clones
    /\ slam \subseteq Landmarks
    /\ marked \subseteq slam
    /\ gnss \in BOOLEAN
    /\ built \in 0 .. Len(Calibrated)
    /\ doing \in Handlers

\* The variables lie side by side in the covariance, and cover it.
Inside(L) == \A v \in L.vars : L.id[v] >= 0 /\ L.id[v] + Dim[v] <= L.rows

Apart(L) ==
    \A v, w \in L.vars : v # w => \/ L.id[v] + Dim[v] <= L.id[w]
                                 \/ L.id[w] + Dim[w] <= L.id[v]

Covered(L) == \A i \in Rows(L.rows) : \E v \in L.vars : L.id[v] <= i /\ i < L.id[v] + Dim[v]

\* Each row is about the component at its place, a clone's possibly about the IMU's too.
Expected(v, k) == {<<v, k>>} \cup (IF v \in Clones THEN {<<Imu, k>>} ELSE {})

About(L) ==
    \A v \in L.vars : \A k \in Rows(Dim[v]) :
        <<v, k>> \in L.cov[L.id[v] + k] /\ L.cov[L.id[v] + k] \subseteq Expected(v, k)

\* Whatever is added, copied, marginalized and taken back in whatever order: an id leads
\* to the variable's own rows, no two variables share a row and no row is left over.
LayoutCorrect == Inside(layout) /\ Apart(layout) /\ Covered(layout) /\ About(layout)

\* Between the maps of State and the filter nothing is lost and nothing is left behind:
\* the variables are the IMU, the calibration, the clones and the SLAM features, and what
\* is marginalized has given its id back.  The transformation is there only while
\* try_initialization runs.
MapsMatch ==
    /\ layout.vars = {Imu} \cup {Calibrated[i] : i \in 1 .. built} \cup clones \cup slam
                     \cup (IF doing \in {"gnss slam", "transform"} THEN {Trans} ELSE {})
    /\ \A v \in Variables \ layout.vars : layout.id[v] = -1

\* "Revert the initialization": a variable whose update failed leaves the ids and the
\* covariance exactly as they were (StateHelper::initialize).
RevertedUnchanged ==
    [][(\E f \in Landmarks : SlamInitReverted(f)) \/ GnssInitReverted
       => layout' = layout]_vars

\* "Now transform every state into ENU frame": a clone's rows keep to the clone, its
\* pose in ENU depends on its pose in the world frame and on the transformation.
ClonesKeepToThemselves ==
    \A c \in clones : \A k \in Rows(PoseDim) : layout.cov[layout.id[c] + k] = {<<c, k>>}
=============================================================================
