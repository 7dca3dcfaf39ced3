# A TLA+ model of MINS

MINS is a multi-sensor aided inertial navigation system: an error-state Kalman
filter that is propagated by an IMU and updated by cameras, GNSS receivers,
LiDARs, wheel encoders and a VICON. Its correctness as a *program* rests on
bookkeeping that no unit test of the repository reaches: which clones of the IMU
pose are in the sliding window, which of them are held as keyframes, which times
the derived data (preintegrations, polynomials, Jacobians) refer to, and what
happens to all of that when measurements arrive late, out of order across topics,
or while the filter initializes. This directory models that bookkeeping.
Paths below are relative to `mins/src/` unless they start with another directory.

## 1. Inventory

| component | state | operations | how it interacts |
|---|---|---|---|
| `core/SystemManager` | owner of everything below, `gps_datum`, `tc_sensors` | `feed_measurement_imu/camera/gps/lidar/vicon/wheel`, `get_next_clone_time`, `dynamic_cloning`, `compute_accelerations` | called by the subscriber, the bag player and the simulation loop, one call at a time |
| `state/Propagator` | `imu_data`, `t_hist`, `cpiv1`, `cpi_clone_t` | `feed_imu`, `propagate`, `select_imu_readings`, `reset_cpi` | moves `state->time`, fills `state->cpis`; its buffer is trimmed by the oldest pose |
| `state/State` | `time`, `clones`, `keyframes`, `keyframes_candidate`, `cpis`, `_polynomial_*`, `intr_jcb`, `cov`, `variables` | clone look-ups, `have_cpi`, `add_polynomial`, `get_interpolated_*`, `flush_old_data` | read by every updater |
| `state/StateHelper` | none of its own | `augment_clone`, `marginalize_old_clone`, `marginalize`, `clone`, `initialize`, `EKFUpdate`, `EKFPropagation` | the only code that changes the size of `cov` |
| `init/Initializer`, `I_`, `IW_Initializer` | `last_cam_delete_t` | `try_initializtion`, `delete_old_measurements`, `set_state` | runs inside the IMU handler; trims every updater's stack |
| `update/gps/UpdaterGPS` | `data_stack`, `t_hist`, `initialized` | `add_keyframes`, `try_initialization`, `transform_state_to_ENU`, `update` | fills the keyframe lists; its initialization turns the whole state into another frame |
| `update/cam/UpdaterCamera`, `CamHelper` | feature databases, `t_hist`, SLAM features in `State` | `feed_measurement`, `try_update`, `marginalize_slam_features` | interpolates poses at its stamps, adds and removes state variables |
| `update/lidar/UpdaterLidar`, `LidarHelper` | three scan stacks, a map anchored at a clone | `feed_measurement`, `try_update`, `propagate_map_frame` | called from the IMU handler before marginalization as well |
| `update/lidar/ikd_Tree` | the k-d tree, an operation log, a search counter, flags, the mutexes `working_flag`, `search_flag`, `rebuild_ptr`, `rebuild_logger` | `Add_Points`, `Nearest_Search`, `flatten`, `reset`, `Build`; rebuild in a second thread | the only concurrency of the estimator: its rebuild thread, and the threads `UpdaterLidar::update` searches with |
| `update/wheel/UpdaterWheel` | `data_stack`, `last_updated_clone_time` | `try_update`, `update`, `select_wheel_data` | clone to clone constraints; an update, as that of any sensor, moves every time offset |
| `update/vicon/UpdaterVicon` | `data_stack`, `t_hist` | `try_update`, `update` | as GNSS without an initialization |
| `core/ROSSubscriber`, `run_subscribe` | none | callbacks | one executor thread (`rclcpp::spin`): callbacks never overlap |
| `run_bag`, `run_simulation`, `sim/` | stereo queue; spline and clocks of every sensor | time-ordered dispatch; measurement generation | call the same handlers |
| `options/`, `utils/`, `core/ROSPublisher`, `mins_eval` | configuration, timing, output | parsing, printing, publishing | none that the properties tell apart |

**What is hard here.** The estimator is single threaded, so the difficulty is not
locking but *order*: topics are delivered in order each, but interleave freely,
and their clocks are corrected by offsets the filter itself moves. A handler
leaves data for later handlers (histories, candidates, cached fits) that the next
one uses without asking whether the clones behind it are still there. Several
loops stop at the first young entry or silently refuse a request and leave the
state as it was. The one place with two threads is the k-d tree.

**What makes each part correct.** Window: the filter reaches every IMU message,
clones are neither denser nor older than configured, keyframes outlive the
window, no look-up meets a missing clone. Preintegrations: every entry's anchor is
found where the code looks for it without checking. Interpolation: a cached fit
describes the clones it is used with. Covariance: ids partition its rows. GNSS,
wheel, LiDAR stacks: every measurement constrains the filter at most once, and
leaves only when it has or is too old. LiDAR map: its anchor stays inside the
window. k-d tree: the estimator sees a map that changes when it has asked for it and
as it has asked, whatever the rebuild thread does, and neither waits for the other
for ever.

The hazards are listed with their lines in `PROJECT.json`.

## 2. Modules

| module | models | state |
|---|---|---|
| `SlidingWindow` | `feed_measurement_*`, `get_next_clone_time`, `propagate`, `augment_clone`, `marginalize_old_clone`, `add_keyframes`, the outcome of the initializers | `stateTime`, `imu`, `clones`, `imuPose`, `keyframes`, `candidates`, `hist`, `offset`, `gpsInit`, `fatal` |
| `PoseWindow` | the abstract specification: what the window promises the updaters | `initialized`, `stateTime`, `clones`, `keyframes` |
| `CloneLookup` | `bounding_times`, `bounding_poses_n`, `closest_*_clone_time` as operators on a set of clone times | none |
| `CpiWindow` | `state->cpis`: `propagate`, `reset_cpi`, `flush_old_data`, `have_cpi`, `create_new_cpi_*`, composed with `SlidingWindow` | `cpis`, `cpiClone` |
| `InterpolationCache` | `_polynomial_fej`, `_polynomial_est`, `intr_jcb`: `add_polynomial`, `build_polynomial_data`, `check_polynomial`, `have_jacobian`, `flush_old_data`, composed with `SlidingWindow` | `fej`, `est`, `jacobians` |
| `LidarMap` | `UpdaterLidar`, `LidarHelper`: scan stacks, updates and retries, registration, the anchor of the map, on top of `InterpolationCache` | `raw`, `ready`, `anchor`, `lastUp`, `stopped`, `matched` |
| `GnssStack` | `UpdaterGPS`: the stack of waiting measurements, the initialization with its refusals and assertions, on top of `InterpolationCache` | `waiting`, `spent`, `failed` |
| `WheelChain` | `UpdaterWheel`: the stack, `select_wheel_data`, the chain of updates, composed with `SlidingWindow` | `readings`, `lastUp`, `wheelDt`, `used`, `reuse`, `threw` |
| `Covariance` | `State::State`, `clone`, `initialize`, `marginalize`, `transform_state_to_ENU`: variables, their ids and the rows of `cov`, as the IMU, camera and GNSS handlers change them | `layout`, `clones`, `slam`, `marked`, `gnss`, `built`, `doing` |
| `Cloud` | point clouds and the downsampling of `Add_Points`, as operators | none |
| `PointMap` | the abstract specification: a map that answers requests, one point or one new map at a time | `map`, `owed`, `building`, `downsample`, `intact` |
| `IkdTree` | `KD_TREE` and its threads, lock by lock | `tree`, `target`, `log`, `counter`, the place of every thread, and more |
| `SlidingWindowProofs`, `InterpolationCacheProofs`, `UpdaterProofs`, `LidarMapProofs`, `CovarianceProofs`, `IkdTreeProofs`, `LookupProofs` | proofs about them (`UpdaterProofs`: `GnssStack`, `WheelChain` and `CpiWindow`; `LookupProofs`: `MCCloneLookup`) | |
| `CloneLookupProofs` | lemmas: a finite set of times has a least and a greatest element, which `Min` and `Max` are; what the searches of `CloneLookup` return; how many times fit into an interval; how a fold goes through its list | |
| `MC*` | instances for TLC | |

**How they correspond to the code.** An action is one call of a
`feed_measurement_*` handler from its first line to its return, because callbacks
never overlap. The IMU handler is split into the ways it can go: initialization
fails (`InitFails`), initialization succeeds and clones at once (`Initialize`),
the window is empty (`FeedImuFirstClone`), a clone is due (`FeedImuClone`) or not
(`FeedImuOnly`); each contains everything the handler does, the marginalization
loop and the insertion of the IMU pose included. Camera, LiDAR and VICON act on
the window alike (`FeedSensor`); GNSS has two forms, before and after its
initialization. The wheel handler (`FeedWheel`) changes time offsets only.

*A time offset* is a variable of the filter, and one update of any sensor moves
all of them (`Corrected`; `EKFUpdate` ends with an update of every variable). Within
one message the first update that goes through may therefore change the offset the
next measurement of the same loop is read with (`dts` and `offs` in the stacks). Two
values are kept for one message, before the first update and after it: a third
measurement that goes through in the same message is read with the second value again.

*Times* are integers. One tick is whatever the instance wants it to be; `10 * (d -
t) <= p` is the code's `sensor_t >= clone_time - 0.1 / freq`. *Poses* have no
value; "moved more than one metre" (`add_keyframes`), success of an initializer,
the clone rate `dynamic_cloning` picks and the new value of a time offset after an
update are nondeterministic choices. *The IMU pose* is kept apart from the clones
although the code has both in one map: `imuPose` is the singleton of its time, or
empty when a stochastic clone is at that time. *The marginalization loop* is
closed into one step: it removes or promotes exactly the clones that are no
keyframe and older than the window (`Expired`). *Exits* of the program, and reads
through a null pointer, are states with `fatal # "none"` in which nothing happens
any more.

*Where measurements tie* in `get_next_clone_time` (two at the same distance from
the desired time) the code takes the one its container order brings first; the
model allows either.

*The stacks* (`LidarMap`, `GnssStack`, `WheelChain`) are composed with the window:
every handler is the window's action together with what happens to the stack, the
caches and the anchor. The loop over a stack is a fold over its members in the
code's order. Whether a measurement passes its chi-square test, a point finds a
match, ICP places a scan or the initialization of the GNSS goes through is a
nondeterministic choice; whether its pose can be interpolated is computed from the
window and the caches. `wheel` readings keep their stamps only: `Selected` gives the
times the integration runs over, and `Throws` the request for which the first turn of
the loop takes `data_stack.at(i - 1)` with `i = 0` (`UpdaterWheel.cpp:189`): nothing
catches what that throws, so `threw` ends the run.

*The k-d tree.* A node is the part of space below it, a member of `Regions`; the
tree is how often each point occurs. A section between lock and unlock in which
nothing waits is one step; a mutex held across steps is a set of places of a thread
(`WorkingHeld`, `RebuildPtrHeld`, `SearchFlagHeld`), and polling a counter is a guard.
Threads that read without a mutex or a number may hold a subtree when it is
taken out of the tree (`stranded`), and may crash when it is deleted: a
nondeterministic outcome. They are four: `flatten`; `Search_by_range` from the root
(`rangeInRoot`); a search that has not taken its number yet, because it measures
the distance to the boxes of both sons first (`ikd_Tree.cpp:919`, place `peek`); and
an insertion or deletion on its way back up, where `Update` reads both sons of every
node after `working_flag_mutex` was given back (`:704`, `:879`, places `upDelete` and
`upAdd`). On that way the nodes ask for a rebuild (`Rebuild`, as often as nodes do),
until the call on the root returns (`ReachRoot`). `None` is the null `Rebuild_Ptr`.

*Preintegrations* keep their time, their anchor and the frame their velocity is
in. *Polynomials and Jacobians* keep the clone times they were taken over and
which of those was the IMU pose. `InterpolationCache`, and the stacks on top of it,
are the configuration `use_imu_res = false` (the default of
`options/OptionsEstimator.h`), in which both polynomial maps are kept. The shipped
configuration files set `use_imu_res: true`, in which poses come from
preintegrations: that one is `CpiWindow`.

*The covariance* is a sequence of rows that remember what they are about: row `i`
of `layout.cov` is a set of pairs (variable, index), the components whose errors
it combines. A block copy with a wrong offset, a forgotten id shift or a wrong
column of a Jacobian shows as a row about another variable. Each variable is an
object that may be allocated again after it was marginalized. `Covariance` does
not know times: which clones leave is `SlidingWindow`'s concern, and open in it.
Here a handler is divided into the iterations of its loops (`doing` names the
loop), so that the layout is checked between them too. `EKFUpdate` and
`EKFPropagation` change numbers and no layout; a successful `initialize` is one
step, a reverted one is the addition and the removal of `variables.back()`.

**Assumptions about the outside** (guards `NewImu`, `NewStamp`): stamps of one
topic increase. Nothing is assumed across topics: a camera image may arrive a
second after the IMU passed it, or never.

## 3. Runs

Runs use `CHECK_DEADLOCK FALSE` where stamps are a finite set or calls are
counted: when the last one has been delivered nothing is left to happen, and after
an exit neither. `covariance` has no stamps and checks deadlock.

| run | expects | question |
|---|---|---|
| `window` | pass | does the window keep its promises, those of `PoseWindow` included, with a camera, a GNSS receiver, wheels, moving offsets and two clone rates |
| `lookup` | pass | is the interpolation window complete, centred, and found, for every clone map |
| `cpi` | pass | are the unchecked look-ups in `cpis` and `clones` safe, and do usable entries stay |
| `cache` | pass | does a polynomial that passes the check describe the interpolation it is used for |
| `lidar` | pass | does the anchor of the map follow the window, are scans kept until they have matched, what does each exit take |
| `gnss` | pass | is every GNSS measurement used once, kept while it may still be used, and do the assertions of the initialization hold |
| `wheel` | pass | is every motion integrated once, from pose to pose, over all readings in between, and when does one turn back |
| `covariance` | pass | do ids, sizes and rows agree after any sequence of additions, removals and reverted additions, the GNSS initialization in the middle included |
| `ikd` | pass | is a rebuild invisible to the estimator, and does everybody who waits get on |
| `window_gt` | violation of `NoSameTimeClone` | the comment at `state/StateHelper.cpp:573`, with `init->use_gt` |
| `covariance_enu` | violation of `ClonesKeepToThemselves` | "Now transform every state into ENU frame" (`update/gps/UpdaterGPS.cpp:445`), for the covariance |
| `ikd_log` | violation of `LogEmptyAtStart` | "ERROR!!!" (`update/lidar/ikd_Tree.cpp:198`) is never printed |

What the violations show:

* `window_gt`. `get_gt_state` takes the ground truth stamp closest to the first
  IMU reading, if it is within 0.1 s, before or after. When it is before,
  `select_imu_readings` refuses every request ("time0 < oldest imu"), the state
  time never moves, and the next clone is made at the time of the first:
  `augment_clone` exits.
* `covariance_enu`. For a clone, `transform_state_to_ENU` writes the rotation to
  column 3 of its Jacobian row, the IMU's position, where the clone's own column
  `clone->id() + 3` is meant; that one keeps the identity. After the GNSS
  initialization the rows of every clone's position are those of a sum with the
  IMU's position. `LayoutCorrect` tolerates exactly this and nothing else (`Expected`).
* `ikd_log`. At the end of a rebuild `working_flag_mutex` is given back
  (`ikd_Tree.cpp:292`) before `rebuild_flag` is cleared (`:293`). An insertion that has
  waited for the mutex finds the flag still set and logs itself after the last
  replay; the next rebuild begins with that entry and replays it on a copy that
  holds it already. From there on, until the map is built anew, nothing is promised:
  `RebuildUnseen` and `PromisedSpec` are stated up to `errored`, and this is the only
  way to get there.

**False, and without a run of their own.** The modules state these properties, each
from a comment or a name in the code; TLC refutes every one of them.

* `ClosestIsClosest` (`MCCloneLookup`; "clone time closest to t_given but not IMU",
  `state/State.h:111`). `t_diff` (`state/State.cpp:1022`) is computed from the output
  argument instead of from `t_given`; the first one is uninitialized memory, the later
  ones are distances between clones. A farther clone can win;
  `create_new_cpi_integrate` then integrates from it.
* `NoReadingSkipped` (`CpiWindow`; "will select IMU readings between the two times",
  `state/Propagator.h:65`). The middle loop takes a reading only when the *next* one is
  inside the interval too; the last interior reading of each request is dropped and
  interpolated over.
* `VelocitiesTransformed` (`CpiWindow`; `update/gps/UpdaterGPS.cpp:445`).
  `transform_state_to_ENU` rotates IMU, clones and features; the velocities in
  `state->cpis` keep the old frame and are added to the new poses by
  `get_interpolated_pose_imu` until their clones leave the window.
* `PolynomialCorrect` (`InterpolationCache`; "check if we have correct polynomial
  times", `state/State.cpp:407`). Only the first time of the interpolation window is
  compared with the keys of `_polynomial_fej`; a keyframe's entry was fitted to
  neighbours that have been marginalized since. `WindowPolynomialCorrect`, which
  holds, says it is the only way to go wrong.
* `LastPoseStays` (`WheelChain`; "mostly due to ZUPT", `update/wheel/UpdaterWheel.cpp:58`).
  The chain usually ends at the IMU pose, which the next IMU message erases; it goes
  on from the next newer pose, and the motion in between is never integrated.
* `SomethingIntegrated` (`WheelChain`; "Check that we have at least one measurement to
  propagate with", `UpdaterWheel.cpp:205`). With `reuse_of_information` the last pose
  before the reading can be the oldest clone itself: an interval of length zero. (The
  guard at `:45` returns when the window is longer than configured, its comment says
  the opposite.) It can even be older, since one search skips keyframes
  (`State.cpp:955`) and the other does not: then the motion ends before it begins, and
  when it ends before the first reading the selection throws. `TurnsBackAtKeyframes`,
  which holds, says what that takes: a wheel message that the whole window has
  overtaken, but for a keyframe in front of it.
* `NoLidarExit` (`LidarMap`). After a gap in the IMU data as long as the window all
  clones but the newest leave at once, the anchor is behind, and the program exits
  (`LidarHelper.cpp:244`, `UpdaterLidar.cpp:210`). The second way is a correction of the
  time offset: the map has just been moved to the newest clone, the offset grows, and
  the anchor is ahead of every pose when a scan is registered (the assertion at
  `LidarHelper.cpp:138`) or matched. The third is the GNSS initialization: it drops
  the keyframes without moving the map, and leaves a polynomial of a dropped keyframe,
  on which `check_polynomial` fails until the next IMU message; a scan retried in
  between reaches the exit, or the assertion at `UpdaterLidar.cpp:264` when its Jacobian
  is cached. The fourth needs no anchor outside the window: a keyframe is the oldest
  clone and no more than two others are left, `oldest_3rd_clone_time` counts three
  clones and finds no third one on its way (`state/State.cpp:977`). `ExitsHaveACause`
  gives each of the four stops its cause, and `SteadyCourseNeverStops`
  (`LidarMapProofs`) says that without gap, correction and keyframe there is none.

Seen in the same models: a keyframe candidate that exists while the keyframe list is
empty survives the GNSS initialization (`core/SystemManager.cpp:212`);
`have_jacobian` accepts a Jacobian taken over the IMU pose after a clone was made at
that time; cached Jacobians survive the transformation into ENU; `last_up_time` may go backwards when an old scan is matched
late; a wheel that starts after a keyframe the chain waits at stays silent until the
GNSS initialization drops that keyframe.

**Bounds, and why they are enough.** `window`: six IMU stamps at uneven distances, one
gap as long as the window (after it the window is empty and `FeedImuFirstClone` fires
again), three stamps per sensor that fall before, between and on IMU stamps, two
offsets, two periods (5 and 10), a window of 10: two shorter periods or one longer.
Clones are marginalized, promoted, put on measurements of either sensor and on the
desired time, the buffer is trimmed, and the GNSS initializes before, between and
after those steps. `HistCap = 1` makes the history overflow (the code keeps 101).
`KeepTime` and `InitWindow` stand for the second of IMU data and three initialization
windows. `cpi` and `cache`: the same with fewer stamps; in `cache` `Order = 3`, the only
order `dynamic_cloning` uses, so the window must hold at least four poses and does.
`Queries` bounds how many poses one handler interpolates (one; the cache is keyed by
sensor and time, so several requests act like one after another). `lookup`: every
subset of nine times and every request. `covariance`: two calibration variables of
sizes 6 and 1, three clones, two features; enough for a variable before, between and
behind the one that leaves, of larger and smaller size, and for an object to be used
again.

`lidar` and `gnss` use `Order = 1`: an interpolation between two poses, the least
order the code takes, so that few stamps give windows that are too short, long enough,
and longer. `lidar`: three scans and two offsets, a gap of two periods between IMU
messages, so that one and two clones leave at a time; wheels off, no history.
`gnss`: one receiver
with three measurements and two offsets, no other sensor; `Needed = 1` stands for the
three measurements an initialization takes, so that it can happen, be refused, and
leave something over. `wheel`: readings at, between and twice at a time, at most four;
two offsets; a GNSS receiver for keyframes, both values of `reuse`. `ikd`: two cells, one
of them with two points at different distances from its middle; a subtree that cuts
the first cell in two, one that is the second cell, and the root; two searching
threads, three calls (`MaxCalls`). Two insertions and an update suffice for every place
of the two threads to meet; three for a rebuild to find the log of the one before.

**Fairness and liveness.** In the estimator no liveness is stated: every step is a
reaction to a message, sensors may stop at any time, and within a handler loops are
closed into the step. What the filter must *eventually* do is stated as what it has
done at the end of every handler (`CaughtUp`, `ChainReaches`, `InsideIsTried`).

The k-d tree has threads. Its `Spec` assumes weak fairness of each: of the rebuild
thread, which loops until it is told to end; of every searching thread; of the
estimator's thread *inside a call*, since nothing obliges it to make another one; and
of `ReachRoot`, because the way back up has as many nodes as the way down, though any
of them may ask for a rebuild. That is what the operating system's scheduler gives. `RebuildEnds` says that a rebuild
that was asked for comes to an end, `CallsReturn` that every call returns, whatever it
waits for. Both stop at `crashed`. Weak fairness is enough because calls are finite
(`MaxCalls`): an endless burst of searches could keep the counter above zero whenever
the rebuild thread polls it, and the code does nothing against that; the model shows
the absence of deadlock, not of starvation.

**Abstract specifications.** `PoseWindow` is what the updaters may rely on: clones enter
one at a time, in front of the others and at a distance, what falls behind leaves or
becomes a keyframe, keyframes are let go together. `SlidingWindow` implements it
(`WindowPromised`), with the variables it shares as mapping; all the rest, the buffer, the
histories, the offsets and the IMU pose, is how it gets there. `PointMap` is what the
LiDAR code expects of its tree. The user asks for a point (`owed`) or for a new map
(`building`), and each request is answered by the one change of the map that was asked
for: no second request comes before, a point that is owed is not forgotten, and without
a request the points stay what they are. `IkdTree` implements it (`PromisedSpec`): the
abstract map is `tree`, joined with what was found in the cell between the deletion of a
cell and the insertion that follows (`Seen`); a point is owed from the call of
`Add_Points` until it is in the tree or the cell has a better one (`Owed`); a new map
is asked for while `reset` joins the rebuild thread; and `intact` is `~errored`. Once it
is false the points may change at any time, until a new map is built. `CpiWindow`, `InterpolationCache`, `LidarMap`, `GnssStack` and
`WheelChain` implement `SlidingWindow`, with the identity as mapping.

## 4. Proofs

`SlidingWindowProofs` proves, for all values of the constants, that `Spec` implies

`TypeOK`, `CloneSpacing`, `WindowBound`, `KeyframesHeld`, `ImuPoseApart`,
`KeyframesKept`, `OnlyOldClonesLeave`, `WindowPromised`

from the assumptions on the constants in `SlidingWindow` alone, and

`NoFatalExit`, `CaughtUp`

from `NoGt == GtStamps = {}` besides, that is, initialization from the sensors. With
ground truth stamps these two are false, as `window_gt` shows.

The argument. None of the invariants is inductive alone. That no clone is made at
an existing time needs that propagation never fails, which needs that the IMU
buffer reaches back behind the state time, which needs that trimming leaves the
newest reading (`CaughtUp`, `NewestStays`), that the state time is that of the
newest reading, and that the IMU pose is at the state time (`ImuPoseIsNow`). Spacing
needs that the newest clone is not after the state time and that the desired time
is a period behind it. `IInv` is the conjunction of these; one lemma per action
preserves it, with `Advance` and `AddClone` factored out because every IMU step ends
in them. The action properties follow from `IInv` and one step.

With a ground truth file `IInv` does not hold: the state time may lie before the first
reading or after the last. `GtInv` (`GtInvariance`) has two more cases: the filter is
`Drifting`, alone with the clone it was initialized with, for as long as no propagation
succeeds (the first that does makes `IInv` true), or it has `Ended` in one of two exits.
Hence `NoFatalExit` fails in two ways only: the clone at a time that is taken, and the
empty buffer of a failed initialization (`OnlyGtExits`); no look-up misses its clone and
no keyframe is null.

`WindowIsAsPromised` is the refinement of `PoseWindow`: its mapping is the identity on four
variables, and every step of `Spec` is a `Move`, a `Clone`, a `LetGo` or a stutter
(`AsPromised`). `WindowIsSmall` bounds the size of the state: with `g` the shortest clone period, no more than
`(10 * Window) \div (9 * g) + 1` clones are no keyframes. It needs to count: times at a
distance have different quotients, and quotients of times inside the window lie in an
interval (`Quotient`, `QuotientGrows`, `SpacedCount` in `CloneLookupProofs`).

The modules composed with the window build on it. A step of each is a step of the window
(`StepsOfWindow`, `LidarStepsOfWindow`, ...), so each implements it (`CpiImplementsWindow`,
`CacheImplementsWindow`, `LidarImplementsWindow`, `GnssImplementsWindow`,
`WheelImplementsWindow`) and everything above holds in it. All that follows assumes
`NoGt`; what else is assumed is named where it is. Each adds an invariant of its own
to `IInv`.

`UpdaterProofs` proves of `CpiWindow` `CpiTypeOK`, `AnchorsResolve`, `ClonesAnchorThemselves`,
`UsableEntriesStay`. A look-up without a check is safe when the anchor of the entry is a
clone. The anchor of an old entry may have left, and `AnchorsResolve` is not inductive:
it needs that an anchor that has left is older than every pose that is no keyframe, so
that a look-up never chooses its entry (`AnchorsAreCurrent`), and that keyframes are more than a
window behind (`KeyframesBehind`), so that dropping them takes no anchor a look-up could
meet. That there is an entry to find at all needs that entries reach from the last reset
to the state (`EntriesUpToNow`) and that the last one hangs on the newest clone
(`NewestIsAnchor`). `CpiInv` is the conjunction.

`InterpolationCacheProofs`: `CacheTypeOK`, `WindowPolynomialCorrect`, `EstimateFitted`. What makes a polynomial right is that nothing came between the
poses it was fitted to. `FitsOver` says so of every entry of either map that does not
start at a keyframe or at a pose that has left: its times are an unbroken run of the poses.
`CompleteOver` says that every pose with `Order` newer ones has an entry; without it
`_polynomial_est` could lack a key that `_polynomial_fej` has. A new clone preserves both
because it is newer than every pose and clones that leave are the oldest, keyframes
apart (`AddedCompletes`, `RunStart`, `WindowStart`).

`CloneLookupProofs` has the facts on `bounding_poses_n` that these need (`BoundingPlaced`,
`BoundingFound`, `PosesFound`). They end in `BoundingSpread`: for every finite map, odd
order, tolerance and request the poses it takes are `SpreadAround` the request. `LookupProofs`
states it of the run `lookup`, for every bound on the times (`BoundingPosesAreAround`:
`PolynomialAround`), `InterpolationCacheProofs` of the poses of the window in every
reachable state (`PolynomialsAreAround`).

`UpdaterProofs` also proves of `GnssStack` `GnssTypeOK`, `InitAssertionsHold`,
`NoMeasurementLost`, `InsideIsTried`. The assertions hold because a Jacobian taken earlier is
still inside the window when it is used: until the frame is known no keyframe is dropped, so
that first estimates are of poses there are and cached Jacobians are flushed with the window
(`Inside`). That no measurement is used twice needs that stamps of a receiver increase
and that the stack and what was used were heard (`Heard`). Of `WheelChain` it proves,
assuming that stamps of the IMU are not negative (`StampsAreNatural`; -1 is the code's
"never updated"), `WheelTypeOK`, `SelectionSpans`, `MotionUsedOnce`, `ChainReaches`. The
stack is in order, the chain has not run ahead of the state, and the last selection
spans its interval (`WheelInv`); the rest is one message, a fold over the readings inside a
fold over the poses: `Taking` and `IsChain` say what holds after each turn of them.

`LidarMapProofs`: `LidarTypeOK`, `ExitsHaveACause` (`ExitsAreExplained`), `AnchorFollows`,
and, assuming that no scan is stamped -1, the value of `last_up_time` before a map is
placed (`NoStampIsUnset`), `NoScanLost`. `LidarInv` adds that no scan is newer than the last stamp
heard and the last one placed is in no stack (`ScansHeard`; otherwise a scan could be lost
without `last_up_time` telling so), and that a cached Jacobian holds its time between two
of its clones (`JacobiansHold`): with those clones there the time is inside the window and
a polynomial exists, so what stops an update is the anchor or a polynomial of a pose that
has left. Of the poses from the oldest clone that is no keyframe on there are at least
as many as such clones, so that a missing third one means no more than two of them
(`FewOthers`), and with three clones the rest are keyframes, older than all of them.
`NoScanLost` follows the fold over the stack: a scan is taken out of it only together with
its match. `AnchorFollows` is not a matter of the invariant but of one message: with a
window of three clones whose oldest is no keyframe the third one is defined (`ThirdPose`),
an anchor up to it is inside the window before anything leaves, so there is a polynomial
to move it with (`PolynomialInside`), and when at most two clones leave one of the first
three stays (`OneOfThreeStays`); an oldest clone that is a keyframe stays itself.

`SteadyCourseNeverStops` turns the four ways to an exit into hypotheses on the
steps: along a behaviour in which the LiDAR's offset stays, no clone is held as a
keyframe, and a message takes at most two clones from a window with enough of them
(`Steadily`), `NoLidarExit` always holds. That is the normal operation of a filter without
a GNSS receiver that does not calibrate the LiDAR's clock, between gaps in the IMU data;
scans, matches, chi-square tests and the other sensors are as free as before. The invariant is
`OnCourse`: the anchor stays between the oldest clone and the newest pose, and every
polynomial is over poses that are there.

*Folds.* The handlers of the stacks are folds (`FoldLeft`, recursive functions in the
community modules). Induction over data is beyond the provers, but a fold over a list of
known length is not: `FoldExists` and `FoldSteps` (`CloneLookupProofs`) turn it into a
sequence of its intermediate states, and `CountUp` (numbers that are missing from a set
have a least one) carries what holds of the first of them to the last.

`CovarianceProofs` proves, for every calibration, every set of clones and of
features, that `Covariance!Spec` implies

`CovTypeOK`, `LayoutCorrect`, `MapsMatch`, `RevertedUnchanged`.

Assumptions: `VariablesAssumption` (objects of different kinds differ, sizes are
positive). The argument: a layout is `Good` when its ids lie inside the covariance,
apart from each other, cover it, and lead to rows about the variable. `PushedGood`,
`MarginalizedGood` and `TransformedGood` show that each operation keeps it so,
`CopiedFits` and `ComputedFits` that what is appended belongs there, `BackIsNew`
that `variables.back()` is the variable just added, and `RevertedSame` that taking
it out again restores the layout. `LayoutCorrect` is not inductive alone: the
change of frame overwrites the covariance by row numbers of the *old* layout, which
is right only because the transformation is the last variable (`TransLast`; the
features removed in between lie before it, `StaysLast`), and an addition needs that
the variable is not in the filter yet, which `MapsMatch` gives.

`IkdTreeProofs` proves, for every set of points, cells and regions and any number of
searching threads and calls, that `IkdTree!Spec` implies

`IkdTypeOK`, `SearchesExcluded`, `OnlyUnprotectedStranded`, `RebuildUnseen`, `PromisedSpec`,
`NobodyStuck`.

The argument. `Door`: the counter is -1 exactly while the rebuild thread has closed the
door, and the number of searches inside otherwise; hence nobody counted is inside then.
`Stranding`: who holds a subtree taken out of the tree is a search that peeks or the
estimator's thread, and if that one holds `search_flag_mutex` the rebuild thread has not
got past its next lock.
`Asked`: the subtree stays asked for while the rebuild thread works, and the insertion
that waits is inside it. `Replaying` is the heart: unless ERROR!!! was printed, the
operations left in the log turn the new subtree into the part of the tree it is to
replace (`Steps`, a witness of the intermediate clouds, so that no recursion is needed);
appending and replaying keep it (`StepsAppend`, `StepsTail`), and an empty log makes the
two equal (`StepsEmpty`), which is why the swap changes nothing (`SwapKeepsTree`). For the
refinement two more invariants say what a call in progress knows of the map: nothing
has changed since the cell was searched, and what it is about to insert is what the
abstract map would (`RangingStep`, `ChosenStep`). Each step is then a request, the answer to
it, or a stutter (`StepSimulated`).

Of liveness it proves the safety part: inside a call of the estimator, whom it waits for
(the holder of `working_flag_mutex`, a search, the rebuild thread) finds its own guard
true (`NoWaitingCircle`: `NobodyStuck`, stated with the guards spelled out, since `ENABLED` is
beyond the prover). No circle of waiting threads exists, for any number of searches.

Only model-checked. Liveness (`RebuildEnds`, `CallsReturn`): reasoning from fairness is
beyond this prover. The three violations, each a counterexample.

## 5. Not modelled

* *Camera features*: MSCKF, SLAM and initialization sets, the measurements that
  go back to a database, and what happens when the trackers of two cameras count
  their features independently. `Covariance` has their additions and removals.
* *VICON stack* (`update/vicon/UpdaterVicon.cpp:45`): the loop of the GNSS stack with
  `oldest_clone_time` in the test of age; its use of the window is modelled.
* *LiDAR*: several LiDARs at once (a map each), the scans kept to be drawn, a map in
  which no point is left after old and distant ones were dropped
  (`LidarHelper.cpp:219-226`: `Build` leaves the tree uninitialized, the next scan starts
  the map again; in the model the anchor stays),
  `remove_motion_blur`, which is off in the shipped configurations (it returns false
  when the pose *can* be interpolated, against its comment, `LidarHelper.cpp:52`).
* *k-d tree*: the test `Rebuild_Ptr == nullptr || *Rebuild_Ptr != ...` is made without a
  lock; the rebuild thread may set the pointer to null between the two reads
  (`ikd_Tree.cpp:291`), which dereferences null. The models read it once: they say
  nothing about this crash. Also left out: lazy deletion flags and the `PUSH_DOWN`
  entries they leave in the log, the rebuild of a small subtree in place, box and radius operations nothing in the
  program calls, the ring of a million entries behind the log.
* *Initializers*: how they solve for the state; the trimming of the camera databases
  and of the wheel stack.
* *Bag player* (stereo pairing, order of dispatch) and *simulator* (order of streams):
  the models let topics interleave freely, which includes theirs.
* Filter arithmetic (Jacobians, noise, chi-square tests), image and point cloud
  processing, option parsing, ROS message conversion, printing, publishing, evaluation.
* Third-party code. Most lines of the repository are vendored: `thirdparty/` holds
  libpointmatcher with its copy of gtest, libnabo and OpenVINS, none of which is this
  program's logic.

What could come next: the camera databases as a module of their own on the
interpolation; the stacks in the configuration `use_imu_res = true`, on `CpiWindow`; the
lazy deletion flags of the tree.
