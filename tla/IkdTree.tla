------------------------------ MODULE IkdTree ------------------------------
(***************************************************************************)
(* The incremental k-d tree of a LiDAR map (update/lidar/ikd_Tree.cpp) and *)
(* its two kinds of threads.  The estimator's thread inserts points        *)
(* (Add_Points), searches neighbours in several threads at once while a    *)
(* scan updates the filter (Nearest_Search), copies the map (flatten) and  *)
(* builds it anew (reset, Build).  The rebuild thread                      *)
(* (multi_thread_rebuild) balances the subtree that an insertion has asked *)
(* for: it copies it, builds a new one, replays what was logged meanwhile, *)
(* and puts the new one in its place.                                      *)
(*                                                                         *)
(* A node is the part of space below it, a member of Regions.  Sections    *)
(* between lock and unlock are one step where nothing in them waits; a     *)
(* mutex is held across steps by the thread's place (WorkingHeld,          *)
(* RebuildPtrHeld, SearchFlagHeld).  A thread that reads nodes without     *)
(* either has a place of its own for it: Search looks at a son's box       *)
(* before it takes a number ("peek"), and an insertion or deletion goes    *)
(* back up through Update after it gave the mutex back ("upAdd",           *)
(* "upDelete").  Rebuilding a small subtree in place, lazy deletion flags  *)
(* and sizes do not change which points the map holds and are left out.    *)
(***************************************************************************)
EXTENDS Cloud, Integers, Sequences

CONSTANTS
  Regions,     (* the parts of space a node of the tree may stand for      *)
  Searchers,   (* the threads UpdaterLidar::update searches with           *)
  MaxCalls     (* bound: calls of the estimator's thread                   *)

ASSUME IkdAssumption ==
  /\ Regions \subseteq (SUBSET Points) \ {{}}
  /\ Points \in Regions
  /\ IsFiniteSet(Searchers)
  /\ MaxCalls \in Nat

VARIABLES
  tree,        (* the points below Root_Node                               *)
  target,      (* *Rebuild_Ptr: the subtree to rebuild, or None            *)
  rebuildFlag, (* rebuild_flag                                             *)
  log,         (* Rebuild_Logger                                           *)
  counter,     (* search_mutex_counter                                     *)
  storage,     (* Rebuild_PCL_Storage                                      *)
  newTree,     (* the points below new_root_node                           *)
  rebuilder,   (* where the rebuild thread is                              *)
  main,        (* where the estimator's thread is                          *)
  search,      (* where each searching thread is                           *)
  point,       (* PointToAdd[i]: the point the call is about               *)
  found,       (* Downsample_Storage                                       *)
  stranded,    (* threads still inside the subtree taken out of the tree   *)
  terminate,   (* termination_flag                                         *)
  errored,     (* ERROR!!! was printed since the last Build                *)
  crashed,     (* the program is gone                                      *)
  downsample,  (* map_do_downsample                                        *)
  calls

mainVars    == <<main, point, found, calls>>
rebuildVars == <<rebuildFlag, storage, newTree, rebuilder, errored, crashed>>
vars == <<tree, target, rebuildFlag, log, counter, storage, newTree, rebuilder, main,
          search, point, found, stranded, terminate, errored, crashed, downsample, calls>>

None == {}   \* nullptr

AddOp(p)    == [op |-> "ADD_POINT", point |-> p]
DeleteOp(p) == [op |-> "DOWNSAMPLE_DELETE", point |-> p]
Operations  == [op : {"ADD_POINT", "DOWNSAMPLE_DELETE"}, point : Points]

Apply(c, o) == IF o.op = "ADD_POINT" THEN Plus(c, o.point)
               ELSE Outside(c, BoxOf(o.point))

Init ==
  /\ tree \in Scans
  /\ target = None
  /\ rebuildFlag = FALSE
  /\ log = <<>>
  /\ counter = 0
  /\ storage = NoPoints
  /\ newTree = NoPoints
  /\ rebuilder = "idle"
  /\ main = "idle"
  /\ search = [s \in Searchers |-> "out"]
  /\ point = CHOOSE p \in Points : TRUE   \* set before it is read
  /\ found = NoPoints
  /\ stranded = {}
  /\ terminate = FALSE
  /\ errored = FALSE
  /\ crashed = FALSE
  /\ downsample \in BOOLEAN
  /\ calls = 0

-----------------------------------------------------------------------------
(* Who holds which mutex, and who reads the tree.                          *)

\* Mutant: working_flag_mutex is not kept when the log is empty.
WorkingReleased == rebuilder \in {"drain", "copy", "reopen"}

WorkingHeld    == rebuilder \in {"drain", "copy", "reopen", "drainAgain", "swap", "reopenAgain"}
RebuildPtrHeld == rebuilder \notin {"idle", "dead"}
SearchFlagHeld == main = "rangeInSon"

\* Readers the rebuild thread cannot see: no mutex, no counter.
Unprotected == main \in {"rangeInRoot", "flatten", "upDelete", "upAdd"}

\* Threads that hold a pointer into the subtree *Rebuild_Ptr (or may).
Inhabitants == {s \in Searchers : search[s] \in {"peek", "in"}}
               \cup IF Unprotected \/ SearchFlagHeld THEN {"main"} ELSE {}

-----------------------------------------------------------------------------
(* The estimator's thread: Add_Points for one point.                       *)

Call(to) ==
  /\ main = "idle"
  /\ calls < MaxCalls
  /\ calls' = calls + 1
  /\ main' = to

\* An operation at one of these points goes through the subtree *Rebuild_Ptr.
Reaches(places) == target # None /\ target \cap places # {}

AddPoint(p) ==
  /\ main = "idle"
  /\ calls < MaxCalls
  /\ calls' = calls + 1
  /\ point' = p
  /\ IF downsample /\ Reaches(BoxOf(p))
     THEN /\ main' = IF target = Points THEN "rangeInRoot" ELSE "rangeInSon"
          /\ found' = NoPoints
     ELSE /\ main' = "insert"
          /\ found' = IF downsample THEN Inside(tree, BoxOf(p)) ELSE NoPoints
  /\ UNCHANGED <<tree, target, log, counter, search, stranded, terminate, downsample>>
  /\ UNCHANGED rebuildVars

\* Search_by_range returns; within a son it gives search_flag_mutex back.
EndRange ==
  /\ main \in {"rangeInRoot", "rangeInSon"}
  /\ main' = "insert"
  /\ found' = Inside(tree, BoxOf(point))
  /\ stranded' = stranded \ {"main"}
  /\ UNCHANGED <<tree, target, log, counter, search, point, terminate, downsample, calls>>
  /\ UNCHANGED rebuildVars

\* if (rebuild_flag) Rebuild_Logger.push(...): the log becomes l.
Logged(l) == log' = IF rebuildFlag THEN l ELSE log

\* downsample_result: the point that is inserted for point.
Result == Nearest(found, point)

\* Mutant: a point is given up while the whole tree is rebuilt.
InsertOrGiveUp ==
  /\ main = "insert"
  /\ main' = IF target = Points \/ (downsample /\ ~Wanted(found, point)) THEN "idle"
             ELSE IF found # NoPoints THEN "delete" ELSE "add"
  /\ UNCHANGED <<tree, target, log, counter, search, point, found, stranded, terminate, downsample, calls>>
  /\ UNCHANGED rebuildVars

(***************************************************************************)
(* What has been found decides whether a point is inserted at all.         *)
(* *Rebuild_Ptr != Root_Node?  The whole tree is waited for at once.       *)
(***************************************************************************)
Insert ==
  /\ main = "insert"
  /\ main' = IF downsample /\ ~Wanted(found, point) THEN "idle"
             ELSE IF target = Points THEN "lockRoot"
             ELSE IF found # NoPoints THEN "delete" ELSE "add"
  /\ UNCHANGED <<tree, target, log, counter, search, point, found, stranded, terminate, downsample, calls>>
  /\ UNCHANGED rebuildVars

InsertLocked ==
  /\ main = "lockRoot"
  /\ ~WorkingHeld
  /\ tree' = Plus(IF found # NoPoints THEN Outside(tree, BoxOf(point)) ELSE tree, Result)
  /\ Logged(Append(IF found # NoPoints THEN Append(log, DeleteOp(point)) ELSE log, AddOp(Result)))
  /\ main' = "idle"
  /\ UNCHANGED <<target, counter, search, point, found, stranded, terminate, downsample, calls>>
  /\ UNCHANGED rebuildVars

(***************************************************************************)
(* Delete_by_range and Add_by_point.  Outside the subtree *Rebuild_Ptr     *)
(* they take no lock; on reaching it they wait for working_flag_mutex and  *)
(* log the operation, although the rebuild may be over when they get it.   *)
(***************************************************************************)
Delete ==
  /\ main = "delete"
  /\ IF Reaches(BoxOf(point))
     THEN main' = "lockDelete" /\ tree' = tree
     ELSE main' = "upDelete" /\ tree' = Outside(tree, BoxOf(point))
  /\ UNCHANGED <<target, log, counter, search, point, found, stranded, terminate, downsample, calls>>
  /\ UNCHANGED rebuildVars

DeleteLocked ==
  /\ main = "lockDelete"
  /\ ~WorkingHeld
  /\ tree' = Outside(tree, BoxOf(point))
  /\ Logged(Append(log, DeleteOp(point)))
  /\ main' = "upDelete"
  /\ UNCHANGED <<target, counter, search, point, found, stranded, terminate, downsample, calls>>
  /\ UNCHANGED rebuildVars

Add ==
  /\ main = "add"
  /\ IF Reaches({Result})
     THEN main' = "lockAdd" /\ tree' = tree
     ELSE main' = "upAdd" /\ tree' = Plus(tree, Result)
  /\ UNCHANGED <<target, log, counter, search, point, found, stranded, terminate, downsample, calls>>
  /\ UNCHANGED rebuildVars

AddLocked ==
  /\ main = "lockAdd"
  /\ ~WorkingHeld
  /\ tree' = Plus(tree, Result)
  /\ Logged(Append(log, AddOp(Result)))
  /\ main' = "upAdd"
  /\ UNCHANGED <<target, counter, search, point, found, stranded, terminate, downsample, calls>>
  /\ UNCHANGED rebuildVars

(***************************************************************************)
(* The way back up: every node on it goes through Update, which reads both *)
(* its sons, with no mutex held.  A node whose criterion fails asks for    *)
(* itself unless the rebuild thread is at work (trylock) or a larger node  *)
(* has asked; below the subtree that has asked nobody asks                 *)
(* (allow_rebuild).                                                        *)
(***************************************************************************)
Larger(r) == target = None \/ (target # Points /\ (target \subseteq r \/ target \cap r = {}))

Rebuild ==
  /\ main \in {"upDelete", "upAdd"}
  /\ ~RebuildPtrHeld
  /\ \E r \in Regions :
       /\ r \cap (IF main = "upDelete" THEN BoxOf(point) ELSE {Result}) # {}
       /\ Larger(r)
       /\ target' = r
  /\ UNCHANGED <<tree, log, counter, search, main, point, found, stranded, terminate, downsample, calls>>
  /\ UNCHANGED rebuildVars

\* The call on the root returns: the deletion to the insertion, that to the caller.
ReachRoot ==
  /\ main \in {"upDelete", "upAdd"}
  /\ main' = IF main = "upDelete" THEN "add" ELSE "idle"
  /\ stranded' = stranded \ {"main"}
  /\ UNCHANGED <<tree, target, log, counter, search, point, found, terminate, downsample, calls>>
  /\ UNCHANGED rebuildVars

-----------------------------------------------------------------------------
(* The estimator's thread: an update with searching threads, a copy of the *)
(* map, a new map.                                                         *)

StartUpdate ==
  /\ Call("update")
  /\ search' = [s \in Searchers |-> "start"]
  /\ UNCHANGED <<tree, target, log, counter, point, found, stranded, terminate, downsample>>
  /\ UNCHANGED rebuildVars

\* Nearest_Search: a number for the whole tree, or down to a father, whose sons' boxes
\* calc_box_dist reads before anything else is known of the sons.
StartSearch(s) ==
  /\ search[s] = "start"
  /\ search' = [search EXCEPT ![s] = IF target = Points THEN "wait" ELSE "peek"]
  /\ UNCHANGED <<tree, target, log, counter, stranded, terminate, downsample>>
  /\ UNCHANGED <<mainVars, rebuildVars>>

\* Search at the father of *Rebuild_Ptr: the son's box is near enough, or it is not.
TestSon(s) ==
  /\ search[s] = "peek"
  /\ \E place \in {"out"} \cup (IF target = None THEN {} ELSE {"wait"}) :
       search' = [search EXCEPT ![s] = place]
  /\ stranded' = stranded \ {s}
  /\ UNCHANGED <<tree, target, log, counter, terminate, downsample>>
  /\ UNCHANGED <<mainVars, rebuildVars>>

EnterSearch(s) ==
  /\ search[s] = "wait"
  /\ counter # -1
  /\ counter' = counter + 1
  /\ search' = [search EXCEPT ![s] = "in"]
  /\ UNCHANGED <<tree, target, log, stranded, terminate, downsample>>
  /\ UNCHANGED <<mainVars, rebuildVars>>

\* Mutant: the number of a finished search is not given back.
LeaveSearchCounted(s) ==
  /\ search[s] = "in"
  /\ search' = [search EXCEPT ![s] = "out"]
  /\ stranded' = stranded \ {s}
  /\ UNCHANGED <<tree, target, log, counter, terminate, downsample>>
  /\ UNCHANGED <<mainVars, rebuildVars>>

LeaveSearch(s) ==
  /\ search[s] = "in"
  /\ counter' = counter - 1
  /\ search' = [search EXCEPT ![s] = "out"]
  /\ stranded' = stranded \ {s}
  /\ UNCHANGED <<tree, target, log, terminate, downsample>>
  /\ UNCHANGED <<mainVars, rebuildVars>>

\* threads[i].join() for all of them.
EndUpdate ==
  /\ main = "update"
  /\ \A s \in Searchers : search[s] = "out"
  /\ main' = "idle"
  /\ UNCHANGED <<tree, target, log, counter, search, point, found, stranded, terminate, downsample, calls>>
  /\ UNCHANGED rebuildVars

\* flatten(Root_Node, ..., NOT_RECORD), called from LidarHelper.
StartFlatten ==
  /\ Call("flatten")
  /\ UNCHANGED <<tree, target, log, counter, search, point, found, stranded, terminate, downsample>>
  /\ UNCHANGED rebuildVars

EndFlatten ==
  /\ main = "flatten"
  /\ main' = "idle"
  /\ stranded' = stranded \ {"main"}
  /\ UNCHANGED <<tree, target, log, counter, search, point, found, terminate, downsample, calls>>
  /\ UNCHANGED rebuildVars

\* init_map_local: stop_thread asks the rebuild thread to end and joins it.
StopThread ==
  /\ Call("join")
  /\ terminate' = TRUE
  /\ UNCHANGED <<tree, target, log, counter, search, point, found, stranded, downsample>>
  /\ UNCHANGED rebuildVars

\* The rest of reset, start_thread, and Build with the new scan.
ResetAndBuild ==
  /\ main = "join"
  /\ rebuilder = "dead"
  /\ main' = "idle"
  /\ rebuilder' = "idle"
  /\ terminate' = FALSE
  /\ tree' \in Scans
  /\ target' = None
  /\ rebuildFlag' = FALSE
  /\ log' = <<>>
  /\ counter' = 0
  /\ storage' = NoPoints
  /\ errored' = FALSE
  /\ UNCHANGED <<newTree, search, point, found, stranded, crashed, downsample, calls>>

Main ==
  /\ ~crashed
  /\ \/ \E p \in Points : AddPoint(p)
     \/ EndRange \/ Insert \/ InsertLocked \/ Delete \/ DeleteLocked \/ Add \/ AddLocked
     \/ Rebuild \/ ReachRoot
     \/ StartUpdate \/ EndUpdate \/ StartFlatten \/ EndFlatten
     \/ StopThread \/ ResetAndBuild

Search(s) ==
  /\ ~crashed
  /\ StartSearch(s) \/ TestSon(s) \/ EnterSearch(s) \/ LeaveSearch(s)

-----------------------------------------------------------------------------
(* The rebuild thread: one turn of multi_thread_rebuild.                   *)

Goto(from, to) == rebuilder = from /\ rebuilder' = to

TakeRebuildPtr ==
  /\ Goto("idle", "look")
  /\ UNCHANGED <<tree, target, log, counter, search, stranded, terminate, downsample>>
  /\ UNCHANGED <<mainVars, rebuildFlag, storage, newTree, errored, crashed>>

\* if (Rebuild_Ptr != nullptr): ERROR!!! unless the log is empty.
Look ==
  /\ IF target = None
     THEN Goto("look", "end") /\ UNCHANGED <<rebuildFlag, errored, storage>>
     ELSE /\ Goto("look", "drain")
          /\ errored' = (errored \/ log # <<>>)
          /\ rebuildFlag' = TRUE
          /\ storage' = NoPoints
  /\ UNCHANGED <<tree, target, log, counter, search, stranded, terminate, downsample>>
  /\ UNCHANGED <<mainVars, newTree, crashed>>

\* Mutant: the door is closed behind searches that are still inside.
DrainAtOnce ==
  /\ \/ Goto("drain", "copy")
     \/ Goto("drainAgain", "swap")
  /\ ~SearchFlagHeld
  /\ counter' = -1
  /\ UNCHANGED <<tree, target, log, search, stranded, terminate, downsample>>
  /\ UNCHANGED <<mainVars, rebuildFlag, storage, newTree, errored, crashed>>

\* "Lock Search": poll until no counted search is inside, and close the door.
Drain ==
  /\ \/ Goto("drain", "copy")
     \/ Goto("drainAgain", "swap")
  /\ ~SearchFlagHeld
  /\ counter = 0
  /\ counter' = -1
  /\ UNCHANGED <<tree, target, log, search, stranded, terminate, downsample>>
  /\ UNCHANGED <<mainVars, rebuildFlag, storage, newTree, errored, crashed>>

\* flatten(*Rebuild_Ptr, Rebuild_PCL_Storage, MULTI_THREAD_REC)
Copy ==
  /\ Goto("copy", "reopen")
  /\ storage' = Inside(tree, target)
  /\ UNCHANGED <<tree, target, log, counter, search, stranded, terminate, downsample>>
  /\ UNCHANGED <<mainVars, rebuildFlag, newTree, errored, crashed>>

\* "Unlock Search", and working_flag_mutex.
Reopen ==
  /\ Goto("reopen", "build")
  /\ ~SearchFlagHeld
  /\ counter' = 0
  /\ UNCHANGED <<tree, target, log, search, stranded, terminate, downsample>>
  /\ UNCHANGED <<mainVars, rebuildFlag, storage, newTree, errored, crashed>>

\* With nothing to build from, new_root_node stays null and is read.
BuildTree ==
  /\ Goto("build", "replay")
  /\ newTree' = storage
  /\ crashed' = (storage = NoPoints)
  /\ UNCHANGED <<tree, target, log, counter, search, stranded, terminate, downsample>>
  /\ UNCHANGED <<mainVars, rebuildFlag, storage, errored>>

\* Pop one operation, give the mutexes back, run_operation.
Replay ==
  /\ Goto("replay", "replay")
  /\ log # <<>>
  /\ newTree' = Apply(newTree, Head(log))
  /\ log' = Tail(log)
  /\ UNCHANGED <<tree, target, counter, search, stranded, terminate, downsample>>
  /\ UNCHANGED <<mainVars, rebuildFlag, storage, errored, crashed>>

\* The log is empty, and working_flag_mutex is kept.
EndReplay ==
  /\ Goto("replay", "drainAgain")
  /\ log = <<>>
  /\ UNCHANGED <<tree, target, log, counter, search, stranded, terminate, downsample>>
  /\ UNCHANGED <<mainVars, rebuildFlag, storage, newTree, errored, crashed>>

\* "Replace to original tree"
Swap ==
  /\ Goto("swap", "reopenAgain")
  /\ tree' = Joined(Outside(tree, target), newTree)
  /\ stranded' = Inhabitants
  /\ UNCHANGED <<target, log, counter, search, terminate, downsample>>
  /\ UNCHANGED <<mainVars, rebuildFlag, storage, newTree, errored, crashed>>

\* Mutant: search_mutex_counter is reset without taking search_flag_mutex.
ReopenUnlocked ==
  /\ Goto("reopenAgain", "clear")
  /\ counter' = 0
  /\ target' = None
  /\ UNCHANGED <<tree, log, search, stranded, terminate, downsample>>
  /\ UNCHANGED <<mainVars, rebuildFlag, storage, newTree, errored, crashed>>

\* Mutant: the door stays closed.
ReopenForgotten ==
  /\ Goto("reopenAgain", "clear")
  /\ ~SearchFlagHeld
  /\ target' = None
  /\ UNCHANGED <<tree, log, counter, search, stranded, terminate, downsample>>
  /\ UNCHANGED <<mainVars, rebuildFlag, storage, newTree, errored, crashed>>

\* Rebuild_Ptr = nullptr and unlock; rebuild_flag is still set.
ReopenAgain ==
  /\ Goto("reopenAgain", "clear")
  /\ ~SearchFlagHeld
  /\ counter' = 0
  /\ target' = None
  /\ UNCHANGED <<tree, log, search, stranded, terminate, downsample>>
  /\ UNCHANGED <<mainVars, rebuildFlag, storage, newTree, errored, crashed>>

ClearFlag ==
  /\ Goto("clear", "discard")
  /\ rebuildFlag' = FALSE
  /\ UNCHANGED <<tree, target, log, counter, search, stranded, terminate, downsample>>
  /\ UNCHANGED <<mainVars, storage, newTree, errored, crashed>>

\* delete_tree_nodes(&old_root_node): a thread still inside may not survive it.
\* new_root_node goes out of scope.
Discard ==
  /\ Goto("discard", "end")
  /\ crashed' \in {FALSE, stranded # {}}
  /\ stranded' = {}
  /\ newTree' = NoPoints
  /\ UNCHANGED <<tree, target, log, counter, search, terminate, downsample>>
  /\ UNCHANGED <<mainVars, rebuildFlag, storage, errored>>

\* rebuild_ptr_mutex is given back, termination_flag is read.
EndTurn ==
  /\ Goto("end", IF terminate THEN "dead" ELSE "idle")
  /\ UNCHANGED <<tree, target, log, counter, search, stranded, terminate, downsample>>
  /\ UNCHANGED <<mainVars, rebuildFlag, storage, newTree, errored, crashed>>

Rebuilder ==
  /\ ~crashed
  /\ \/ TakeRebuildPtr \/ Look \/ Drain \/ Copy \/ Reopen \/ BuildTree \/ Replay
     \/ EndReplay \/ Swap \/ ReopenAgain \/ ClearFlag \/ Discard \/ EndTurn

Next == Main \/ Rebuilder \/ \E s \in Searchers : Search(s)

(***************************************************************************)
(* Every thread that can go on goes on; in a call it has begun, that is:   *)
(* nothing obliges the estimator to make another one.  A way back up has   *)
(* as many nodes as the way down, so that it ends although nodes on it may *)
(* ask for a rebuild again and again.                                      *)
(***************************************************************************)
Spec ==
  /\ Init /\ [][Next]_vars
  /\ WF_vars(Rebuilder)
  /\ WF_vars(Main /\ main # "idle")
  /\ WF_vars(~crashed /\ ReachRoot)
  /\ \A s \in Searchers : WF_vars(Search(s))

-----------------------------------------------------------------------------
RebuilderPlaces == {"idle", "look", "drain", "copy", "reopen", "build", "replay",
  "drainAgain", "swap", "reopenAgain", "clear", "discard", "end", "dead"}
MainPlaces == {"idle", "rangeInRoot", "rangeInSon", "insert", "lockRoot", "delete",
  "lockDelete", "upDelete", "add", "lockAdd", "upAdd", "update", "flatten", "join"}
Threads == Searchers \cup {"main"}

(***************************************************************************)
(* The types of the variables.  counter: one search each at most, and -1   *)
(* exactly while the rebuild thread has closed the door.                   *)
(***************************************************************************)
IkdTypeOK ==
  /\ tree \in Clouds /\ storage \in Clouds /\ newTree \in Clouds /\ found \in Clouds
  /\ target \in Regions \cup {None}
  /\ log \in Seq(Operations)
  /\ counter = IF rebuilder \in {"copy", "reopen", "swap", "reopenAgain"} THEN -1
               ELSE Cardinality({s \in Searchers : search[s] = "in"})
  /\ rebuilder \in RebuilderPlaces /\ main \in MainPlaces
  /\ search \in [Searchers -> {"out", "start", "peek", "wait", "in"}]
  /\ point \in Points
  /\ stranded \subseteq Threads
  /\ {rebuildFlag, terminate, errored, crashed, downsample} \subseteq BOOLEAN
  /\ calls \in Nat

(***************************************************************************)
(* While the rebuild thread copies a subtree or puts the new one in its    *)
(* place no Nearest_Search is inside it, which is what the numbers are     *)
(* for.  (A look at the son's box from its father takes no number and is   *)
(* not kept out.)                                                          *)
(***************************************************************************)
SearchesExcluded ==
  rebuilder \in {"copy", "swap"} => \A s \in Searchers : search[s] # "in"

(***************************************************************************)
(* Nobody holds a pointer into a subtree that is being deleted, except     *)
(* the readers that take neither a mutex nor a number: flatten,            *)
(* Search_by_range from the root, the Update of the nodes on the way back  *)
(* from an insertion or deletion, and a Search that looks at the box of a  *)
(* son from its father.  A Search inside the subtree is never among them,  *)
(* nor is a Search_by_range inside a son: that one does not look at the    *)
(* counter and may enter between the two halves of the replacement, but    *)
(* its mutex holds up the second half.                                     *)
(***************************************************************************)
OnlyUnprotectedStranded ==
  rebuilder = "discard" =>
    stranded \subseteq {s \in Searchers : search[s] = "peek"}
                       \cup IF Unprotected THEN {"main"} ELSE {}

(***************************************************************************)
(* The rebuild thread never changes what the map holds: no insertion is    *)
(* lost in a rebuild, none is repeated, and nothing deleted comes back     *)
(* (unless ERROR!!! was printed).                                          *)
(***************************************************************************)
RebuildUnseen == [][tree' # tree => main' # main \/ errored]_vars

(***************************************************************************)
(* The log is empty when a rebuild begins: "ERROR!!!" (ikd_Tree.cpp:198)   *)
(* is never printed.                                                       *)
(***************************************************************************)
LogEmptyAtStart == ~errored

(***************************************************************************)
(* The map seen by the estimator changes only as it has asked: every point *)
(* of Add_Points is added, once and before the call goes on, and a new map *)
(* is there when reset and Build return.  Between the deletion of a cell   *)
(* and the insertion the cell still counts.                                *)
(***************************************************************************)
Owing == main \in {"rangeInRoot", "rangeInSon", "insert", "lockRoot", "delete",
                   "lockDelete", "upDelete", "add", "lockAdd"}

Seen == IF main \in {"upDelete", "add", "lockAdd"} THEN Joined(tree, found) ELSE tree
Owed == IF Owing THEN {point} ELSE {}

Promised == INSTANCE PointMap WITH
  map <- Seen,
  owed <- Owed,
  building <- main = "join",
  intact <- ~errored

PromisedSpec == Promised!Spec

(***************************************************************************)
(* A rebuild that has been asked for comes to an end.                      *)
(***************************************************************************)
RebuildEnds == target # None ~> target = None \/ crashed

(***************************************************************************)
(* Every call of the estimator returns, whatever it waits for: the working *)
(* flag, the search door, or the end of the rebuild thread.                *)
(***************************************************************************)
CallsReturn == main # "idle" ~> main = "idle" \/ crashed
=============================================================================
