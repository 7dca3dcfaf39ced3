--------------------------- MODULE IkdTreeProofs ---------------------------
(***************************************************************************)
(* Proofs about IkdTree: the searches and the rebuild thread keep out of   *)
(* each other's way, no two threads wait for each other, a rebuild is not  *)
(* seen, and the tree implements PointMap.  The invariant Inv is the       *)
(* conjunction of the parts below.                                         *)
(***************************************************************************)
EXTENDS IkdTree, CloneLookupProofs

In     == {s \in Searchers : search[s] = "in"}
Closed == rebuilder \in {"copy", "reopen", "swap", "reopenAgain"}
Busy   == rebuilder \in {"drain", "copy", "reopen", "build", "replay",
                         "drainAgain", "swap", "reopenAgain"}

Types ==
  /\ tree \in Clouds /\ storage \in Clouds /\ newTree \in Clouds /\ found \in Clouds
  /\ target \in Regions \cup {None}
  /\ log \in Seq(Operations)
  /\ rebuilder \in RebuilderPlaces /\ main \in MainPlaces
  /\ search \in [Searchers -> {"out", "start", "peek", "wait", "in"}]
  /\ point \in Points
  /\ rebuildFlag \in BOOLEAN /\ terminate \in BOOLEAN /\ errored \in BOOLEAN
  /\ crashed \in BOOLEAN /\ downsample \in BOOLEAN
  /\ calls \in Nat

\* search_mutex_counter, and what it is for.
Door ==
  /\ counter = IF Closed THEN -1 ELSE Cardinality(In)
  /\ Closed => In = {}
  /\ main # "update" => \A s \in Searchers : search[s] = "out"

\* Who may be inside the subtree that was taken out.
Peeking == {s \in Searchers : search[s] = "peek"}
Left    == Unprotected \/ (rebuilder = "reopenAgain" /\ SearchFlagHeld)
Stranding ==
  stranded # {} =>
    /\ rebuilder \in {"reopenAgain", "clear", "discard"}
    /\ stranded \subseteq Peeking \cup (IF Left THEN {"main"} ELSE {})

\* What the rebuild thread has asked for stays asked for while it works.
Asked ==
  /\ rebuildFlag = (Busy \/ rebuilder = "clear")
  /\ Busy => target # None
  /\ main = "lockRoot" => target \in {None, Points}
  /\ main = "lockAdd" => target = None \/ Result \in target

(***************************************************************************)
(* The operations ops turn the cloud c into the cloud d.                   *)
(***************************************************************************)
Steps(c, d, ops) ==
  \E s \in [1 .. Len(ops) + 1 -> Clouds] :
    /\ s[1] = c
    /\ s[Len(ops) + 1] = d
    /\ \A i \in 1 .. Len(ops) : s[i + 1] = Apply(s[i], ops[i])

\* What is left of the log turns the new subtree into the one it replaces.
Part == Inside(tree, target)
Replaying ==
  ~errored =>
    /\ rebuilder \in {"drain", "copy", "reopen", "drainAgain", "swap"} => log = <<>>
    /\ rebuilder = "reopen" => storage = Part
    /\ rebuilder = "build" => Steps(storage, Part, log)
    /\ rebuilder = "replay" => Steps(newTree, Part, log)
    /\ rebuilder \in {"drainAgain", "swap"} => newTree = Part

Inv == Types /\ Door /\ Stranding /\ Asked /\ Replaying

-----------------------------------------------------------------------------
(* Clouds.                                                                 *)

\* The operations on clouds give clouds.
LEMMA CloudTypes ==
  ASSUME NEW c \in Clouds, NEW d \in Clouds, NEW p \in Points, NEW S
  PROVE  /\ NoPoints \in Clouds
         /\ Inside(c, S) \in Clouds
         /\ Outside(c, S) \in Clouds
         /\ Joined(c, d) \in Clouds
         /\ Plus(c, p) \in Clouds
BY DEF Clouds, NoPoints, Inside, Outside, Joined, Plus

\* The empty cloud is one.
LEMMA NoPointsType == NoPoints \in Clouds
BY DEF NoPoints, Clouds

\* A cloud is what it holds outside a region and what it holds inside.
LEMMA JoinedParts ==
  ASSUME NEW c \in Clouds, NEW S
  PROVE  Joined(Outside(c, S), Inside(c, S)) = c
BY DEF Clouds, Joined, Outside, Inside

\* An operation on the whole cloud is the same operation on a part of it.
LEMMA PartUpdated ==
  ASSUME NEW c \in Clouds, NEW S, NEW p \in Points, NEW B
  PROVE  /\ p \in S => Inside(Plus(c, p), S) = Plus(Inside(c, S), p)
         /\ p \notin S => Inside(Plus(c, p), S) = Inside(c, S)
         /\ Inside(Outside(c, B), S) = Outside(Inside(c, S), B)
         /\ S \cap B = {} => Inside(Outside(c, B), S) = Inside(c, S)
<1>1. p \in S => Inside(Plus(c, p), S) = Plus(Inside(c, S), p)
  BY DEF Clouds, Plus, Inside
<1>2. p \notin S => Inside(Plus(c, p), S) = Inside(c, S)
  BY DEF Clouds, Plus, Inside
<1>3. Inside(Outside(c, B), S) = Outside(Inside(c, S), B)
  BY DEF Clouds, Outside, Inside
<1>4. S \cap B = {} => Inside(Outside(c, B), S) = Inside(c, S)
  BY DEF Clouds, Outside, Inside
<1> QED BY <1>1, <1>2, <1>3, <1>4

\* A scan is a cloud.
LEMMA ScansAreClouds == Scans \subseteq Clouds
BY DEF Scans, Clouds

\* The point to insert is the new one or one found.
LEMMA NearestType ==
  ASSUME NEW c \in Clouds, NEW p \in Points
  PROVE  /\ Nearest(c, p) \in Points
         /\ Nearest(c, p) # p => c[Nearest(c, p)] > 0
<1> DEFINE S == {q \in Points : c[q] > 0}
<1>1. CASE \A q \in Points : c[q] > 0 => Dist[q] >= Dist[p]
  BY <1>1 DEF Nearest
<1>2. CASE ~ \A q \in Points : c[q] > 0 => Dist[q] >= Dist[p]
  <2>1. S # {} /\ S \in SUBSET Points
    BY <1>2
  <2>2. PICK q \in S : \A r \in S : Dist[q] <= Dist[r]
    <3> DEFINE D == {Dist[r] : r \in S}
    <3>1. IsFiniteSet(S)
      BY <2>1, CloudAssumption, FS_Subset
    <3>2. IsFiniteSet(D)
      <4> DEFINE f == [r \in S |-> Dist[r]]
      <4>1. f \in Surjection(S, D)
        <5> HIDE DEF S
        <5> QED BY DEF Surjection
      <4> HIDE DEF S, D, f
      <4> QED BY <3>1, <4>1, FS_Surjection
    <3>3. D \in SUBSET Int /\ D # {}
      BY <2>1, CloudAssumption
    <3>4. PICK d \in D : \A e \in D : d <= e
      <4> HIDE DEF D
      <4> QED BY <3>2, <3>3, LeastOfFinite
    <3> QED BY <3>4
  <2>3. \E x \in Points : c[x] > 0 /\ \A r \in Points : c[r] > 0 => Dist[x] <= Dist[r]
    BY <2>2
  <2> QED BY <1>2, <2>3 DEF Nearest
<1> QED BY <1>1, <1>2

\* So it is a point.
LEMMA ResultType ==
  ASSUME Types
  PROVE  Result \in Points
BY NearestType DEF Types, Result

\* A step of the log: one more operation, one replayed, none left.
LEMMA StepsAppend ==
  ASSUME NEW c \in Clouds, NEW d \in Clouds, NEW ops \in Seq(Operations),
         NEW o \in Operations, Steps(c, d, ops), Apply(d, o) \in Clouds
  PROVE  Steps(c, Apply(d, o), Append(ops, o))
<1> DEFINE n == Len(ops)
<1> PICK s \in [1 .. n + 1 -> Clouds] :
      s[1] = c /\ s[n + 1] = d /\ \A i \in 1 .. n : s[i + 1] = Apply(s[i], ops[i])
  BY DEF Steps
<1> DEFINE t == [i \in 1 .. n + 2 |-> IF i <= n + 1 THEN s[i] ELSE Apply(d, o)]
<1>1. n \in Nat /\ Len(Append(ops, o)) = n + 1
  OBVIOUS
<1>2. t \in [1 .. Len(Append(ops, o)) + 1 -> Clouds]
  BY <1>1
<1>3. t[1] = c /\ t[Len(Append(ops, o)) + 1] = Apply(d, o)
  BY <1>1
<1>4. ASSUME NEW i \in 1 .. n + 1
      PROVE  t[i + 1] = Apply(t[i], Append(ops, o)[i])
  <2>1. CASE i <= n
    <3>1. t[i + 1] = s[i + 1] /\ t[i] = s[i] /\ Append(ops, o)[i] = ops[i]
      BY <1>1, <2>1
    <3> QED BY <3>1, <2>1, <1>1
  <2>2. CASE i = n + 1
    <3>1. t[i + 1] = Apply(d, o) /\ t[i] = d /\ Append(ops, o)[i] = o
      BY <1>1, <2>2
    <3> QED BY <3>1
  <2> QED BY <2>1, <2>2, <1>1
<1> HIDE DEF t
<1> QED BY <1>1, <1>2, <1>3, <1>4 DEF Steps

\* A replay can take the first operation of the log by itself.
LEMMA StepsTail ==
  ASSUME NEW c \in Clouds, NEW d \in Clouds, NEW ops \in Seq(Operations),
         ops # <<>>, Steps(c, d, ops)
  PROVE  Steps(Apply(c, Head(ops)), d, Tail(ops))
<1> DEFINE n == Len(ops)
<1> PICK s \in [1 .. n + 1 -> Clouds] :
      s[1] = c /\ s[n + 1] = d /\ \A i \in 1 .. n : s[i + 1] = Apply(s[i], ops[i])
  BY DEF Steps
<1> DEFINE t == [i \in 1 .. n |-> s[i + 1]]
<1>1. n \in Nat \ {0} /\ Len(Tail(ops)) = n - 1 /\ Head(ops) = ops[1]
  OBVIOUS
<1>2. t \in [1 .. Len(Tail(ops)) + 1 -> Clouds]
  BY <1>1
<1>3. t[1] = Apply(c, Head(ops)) /\ t[Len(Tail(ops)) + 1] = d
  <2>1. t[1] = s[1 + 1] /\ t[n] = s[n + 1] /\ 1 \in 1 .. n
    BY <1>1
  <2> QED BY <2>1, <1>1
<1>4. ASSUME NEW i \in 1 .. Len(Tail(ops))
      PROVE  t[i + 1] = Apply(t[i], Tail(ops)[i])
  <2>1. t[i + 1] = s[i + 2] /\ t[i] = s[i + 1] /\ Tail(ops)[i] = ops[i + 1] /\ i + 1 \in 1 .. n
    BY <1>1
  <2>2. s[(i + 1) + 1] = Apply(s[i + 1], ops[i + 1])
    BY <2>1
  <2> QED BY <2>1, <2>2, <1>1
<1> HIDE DEF t
<1> QED BY <1>1, <1>2, <1>3, <1>4 DEF Steps

\* A replay of nothing changes nothing.
LEMMA StepsEmpty ==
  ASSUME NEW c \in Clouds, NEW d \in Clouds
  PROVE  Steps(c, d, <<>>) <=> c = d
<1>1. ASSUME Steps(c, d, <<>>) PROVE c = d
  BY <1>1 DEF Steps
<1>2. ASSUME c = d PROVE Steps(c, d, <<>>)
  <2> DEFINE s == [i \in 1 .. 1 |-> c]
  <2>1. s \in [1 .. Len(<<>>) + 1 -> Clouds] /\ s[1] = c /\ s[Len(<<>>) + 1] = d
    BY <1>2
  <2>2. \A i \in 1 .. Len(<<>>) : s[i + 1] = Apply(s[i], <<>>[i])
    OBVIOUS
  <2> HIDE DEF s
  <2> QED BY <2>1, <2>2 DEF Steps
<1> QED BY <1>1, <1>2

\* What may stand in the log, and what it does to a cloud.
LEMMA OpTypes ==
  ASSUME NEW p \in Points
  PROVE  AddOp(p) \in Operations /\ DeleteOp(p) \in Operations
BY DEF AddOp, DeleteOp, Operations

\* run_operation does for a logged call what the call did to the tree.
LEMMA Applied ==
  ASSUME NEW p \in Points, NEW c \in Clouds, NEW o \in Operations
  PROVE  /\ Apply(c, AddOp(p)) = Plus(c, p)
         /\ Apply(c, DeleteOp(p)) = Outside(c, BoxOf(p))
         /\ Apply(c, o) \in Clouds
<1>1. Apply(c, AddOp(p)) = Plus(c, p) /\ Apply(c, DeleteOp(p)) = Outside(c, BoxOf(p))
  BY DEF Apply, AddOp, DeleteOp
<1>2. Apply(c, o) \in Clouds
  <2>1. o.point \in Points
    BY DEF Operations
  <2> QED BY <2>1, CloudTypes DEF Apply
<1> QED BY <1>1, <1>2

-----------------------------------------------------------------------------
(* The parts of Inv, one lemma each.                                       *)

\* Every step keeps the types.
LEMMA TypesStep ==
  ASSUME Types, Next
  PROVE  Types'
<1> USE DEF None, Goto, Call, mainVars, rebuildVars, MainPlaces, RebuilderPlaces
<1>1. ASSUME NEW p \in Points, AddPoint(p) PROVE Types'
  <2>1. main' \in MainPlaces /\ point' \in Points /\ found' \in Clouds
    BY <1>1, CloudTypes DEF AddPoint, Types
  <2> QED BY <1>1, <2>1 DEF AddPoint, Types
<1>2. ASSUME EndRange PROVE Types'
  BY <1>2, CloudTypes DEF EndRange, Types
<1>3. ASSUME Insert PROVE Types'
  BY <1>3 DEF Insert, Types
<1>4. ASSUME InsertLocked PROVE Types'
  <2>1. tree' \in Clouds
    <3>1. (IF found # NoPoints THEN Outside(tree, BoxOf(point)) ELSE tree) \in Clouds
      BY CloudTypes DEF Types
    <3> QED BY <1>4, <3>1, CloudTypes, ResultType DEF InsertLocked, Types
  <2>2. log' \in Seq(Operations)
    <3>1. (IF found # NoPoints THEN Append(log, DeleteOp(point)) ELSE log) \in Seq(Operations)
      BY OpTypes DEF Types
    <3>2. AddOp(Result) \in Operations
      BY ResultType, OpTypes
    <3> QED BY <1>4, <3>1, <3>2 DEF InsertLocked, Logged, Types
  <2> QED BY <1>4, <2>1, <2>2 DEF InsertLocked, Types
<1>5. ASSUME Delete PROVE Types'
  BY <1>5, CloudTypes DEF Delete, Types
<1>6. ASSUME DeleteLocked PROVE Types'
  <2>1. tree' \in Clouds
    BY <1>6, CloudTypes DEF DeleteLocked, Types
  <2>2. log' \in Seq(Operations)
    BY <1>6, OpTypes DEF DeleteLocked, Logged, Types
  <2> QED BY <1>6, <2>1, <2>2 DEF DeleteLocked, Types
<1>7. ASSUME Add PROVE Types'
  BY <1>7, CloudTypes, ResultType DEF Add, Types
<1>8. ASSUME AddLocked PROVE Types'
  <2>1. tree' \in Clouds
    BY <1>8, CloudTypes, ResultType DEF AddLocked, Types
  <2>2. log' \in Seq(Operations)
    BY <1>8, ResultType, OpTypes DEF AddLocked, Logged, Types
  <2> QED BY <1>8, <2>1, <2>2 DEF AddLocked, Types
<1>9. ASSUME StartUpdate PROVE Types'
  BY <1>9 DEF StartUpdate, Types
<1>10. ASSUME EndUpdate PROVE Types'
  BY <1>10 DEF EndUpdate, Types
<1>11. ASSUME StartFlatten PROVE Types'
  BY <1>11 DEF StartFlatten, Types
<1>12. ASSUME EndFlatten PROVE Types'
  BY <1>12 DEF EndFlatten, Types
<1>13. ASSUME StopThread PROVE Types'
  BY <1>13 DEF StopThread, Types
<1>14. ASSUME ResetAndBuild PROVE Types'
  <2>1. tree' \in Clouds /\ storage' \in Clouds
    BY <1>14, CloudTypes, ScansAreClouds DEF ResetAndBuild, Types
  <2>2. rebuildFlag' \in BOOLEAN /\ terminate' \in BOOLEAN /\ errored' \in BOOLEAN
    BY <1>14, Zenon DEF ResetAndBuild
  <2>4. log' \in Seq(Operations)
    BY <1>14 DEF ResetAndBuild
  <2>3. target' \in Regions \cup {None} /\ main' \in MainPlaces /\ rebuilder' \in RebuilderPlaces
    BY <1>14 DEF ResetAndBuild
  <2> QED BY <1>14, <2>1, <2>2, <2>3, <2>4 DEF ResetAndBuild, Types
<1>15. ASSUME NEW s \in Searchers, StartSearch(s) PROVE Types'
  BY <1>15 DEF StartSearch, Types
<1>16. ASSUME NEW s \in Searchers, EnterSearch(s) PROVE Types'
  BY <1>16 DEF EnterSearch, Types
<1>17. ASSUME NEW s \in Searchers, LeaveSearch(s) PROVE Types'
  BY <1>17 DEF LeaveSearch, Types
<1>18. ASSUME TakeRebuildPtr PROVE Types'
  BY <1>18 DEF TakeRebuildPtr, Types
<1>19. ASSUME Look PROVE Types'
  <2>1. errored' \in BOOLEAN
    <3>1. CASE target = None
      BY <1>19, <3>1 DEF Look, Types
    <3>2. CASE target # None
      <4>1. errored' = (errored \/ log # <<>>)
        BY <1>19, <3>2 DEF Look
      <4> QED BY <4>1
    <3> QED BY <3>1, <3>2
  <2>2. storage' \in Clouds
    BY <1>19, NoPointsType DEF Look, Types
  <2> QED BY <1>19, <2>1, <2>2 DEF Look, Types
<1>20. ASSUME Drain PROVE Types'
  BY <1>20 DEF Drain, Types
<1>21. ASSUME Copy PROVE Types'
  BY <1>21, CloudTypes DEF Copy, Types
<1>22. ASSUME Reopen PROVE Types'
  BY <1>22 DEF Reopen, Types
<1>23. ASSUME BuildTree PROVE Types'
  BY <1>23 DEF BuildTree, Types
<1>24. ASSUME Replay PROVE Types'
  <2>1. Head(log) \in Operations /\ Tail(log) \in Seq(Operations)
    BY <1>24 DEF Replay, Types
  <2>2. newTree' \in Clouds
    BY <1>24, <2>1, Applied DEF Replay, Types
  <2> QED BY <1>24, <2>1, <2>2 DEF Replay, Types
<1>25. ASSUME EndReplay PROVE Types'
  BY <1>25 DEF EndReplay, Types
<1>26. ASSUME Swap PROVE Types'
  BY <1>26, CloudTypes DEF Swap, Types
<1>27. ASSUME ReopenAgain PROVE Types'
  BY <1>27 DEF ReopenAgain, Types
<1>28. ASSUME ClearFlag PROVE Types'
  BY <1>28 DEF ClearFlag, Types
<1>29. ASSUME Discard PROVE Types'
  BY <1>29, NoPointsType DEF Discard, Types
<1>30. ASSUME EndTurn PROVE Types'
  BY <1>30 DEF EndTurn, Types
<1>31. ASSUME NEW s \in Searchers, TestSon(s) PROVE Types'
  BY <1>31 DEF TestSon, Types
<1>32. ASSUME Rebuild PROVE Types'
  BY <1>32 DEF Rebuild, Types
<1>33. ASSUME ReachRoot PROVE Types'
  BY <1>33 DEF ReachRoot, Types
<1> QED
  BY <1>1, <1>2, <1>3, <1>4, <1>5, <1>6, <1>7, <1>8, <1>9, <1>10,
     <1>11, <1>12, <1>13, <1>14, <1>15, <1>16, <1>17, <1>18, <1>19, <1>20,
     <1>21, <1>22, <1>23, <1>24, <1>25, <1>26, <1>27, <1>28, <1>29, <1>30,
     <1>31, <1>32, <1>33
  DEF Next, Main, Search, Rebuilder

\* The searching threads are finitely many.
LEMMA InFinite == IsFiniteSet(In)
BY IkdAssumption, FS_Subset DEF In

\* The number of searches inside is a number.
LEMMA CardinalityType == Cardinality(In) \in Nat
BY InFinite, FS_CardinalityType

\* The counter counts, and nobody is inside behind the closed door.
LEMMA DoorStep ==
  ASSUME Types, Door, Next
  PROVE  Door'
<1> USE DEF None, Goto, Call, mainVars, rebuildVars
<1>1. ASSUME NEW p \in Points, AddPoint(p) PROVE Door'
  BY <1>1 DEF AddPoint, Door, In, Closed
<1>2. ASSUME EndRange PROVE Door'
  BY <1>2 DEF EndRange, Door, In, Closed
<1>3. ASSUME Insert PROVE Door'
  BY <1>3 DEF Insert, Door, In, Closed
<1>4. ASSUME InsertLocked PROVE Door'
  BY <1>4 DEF InsertLocked, Door, In, Closed
<1>5. ASSUME Delete PROVE Door'
  BY <1>5 DEF Delete, Door, In, Closed
<1>6. ASSUME DeleteLocked PROVE Door'
  BY <1>6 DEF DeleteLocked, Door, In, Closed
<1>7. ASSUME Add PROVE Door'
  BY <1>7 DEF Add, Door, In, Closed
<1>8. ASSUME AddLocked PROVE Door'
  BY <1>8 DEF AddLocked, Door, In, Closed
<1>9. ASSUME StartUpdate PROVE Door'
  <2>1. In = {} /\ In' = {}
    BY <1>9 DEF StartUpdate, In, Door, Types
  <2> QED BY <1>9, <2>1 DEF StartUpdate, Door, Closed
<1>10. ASSUME EndUpdate PROVE Door'
  BY <1>10 DEF EndUpdate, Door, In, Closed
<1>11. ASSUME StartFlatten PROVE Door'
  BY <1>11 DEF StartFlatten, Door, In, Closed
<1>12. ASSUME EndFlatten PROVE Door'
  BY <1>12 DEF EndFlatten, Door, In, Closed
<1>13. ASSUME StopThread PROVE Door'
  BY <1>13 DEF StopThread, Door, In, Closed
<1>14. ASSUME ResetAndBuild PROVE Door'
  <2>1. In = {} /\ In' = {}
    BY <1>14 DEF ResetAndBuild, In, Door
  <2>2. Cardinality({}) = 0
    BY FS_EmptySet
  <2> QED BY <1>14, <2>1, <2>2 DEF ResetAndBuild, Door, Closed
<1>15. ASSUME NEW s \in Searchers, StartSearch(s) PROVE Door'
  <2>1. In' = In
    BY <1>15 DEF StartSearch, In, Types
  <2>2. main = "update" /\ main' = main /\ rebuilder' = rebuilder
    BY <1>15 DEF StartSearch, Door
  <2> QED BY <1>15, <2>1, <2>2 DEF StartSearch, Door, Closed
<1>16. ASSUME NEW s \in Searchers, EnterSearch(s) PROVE Door'
  <2>1. ~Closed /\ counter = Cardinality(In)
    BY <1>16, CardinalityType DEF EnterSearch, Door, Closed
  <2>2. In' = In \cup {s} /\ s \notin In
    BY <1>16 DEF EnterSearch, In, Types
  <2>3. Cardinality(In') = Cardinality(In) + 1
    BY <2>2, FS_AddElement, InFinite
  <2>4. main = "update" /\ main' = main /\ rebuilder' = rebuilder
    BY <1>16 DEF EnterSearch, Door
  <2> QED BY <1>16, <2>1, <2>3, <2>4 DEF EnterSearch, Door, Closed
<1>17. ASSUME NEW s \in Searchers, LeaveSearch(s) PROVE Door'
  <2>1. s \in In /\ In' = In \ {s}
    BY <1>17 DEF LeaveSearch, In, Types
  <2>2. ~Closed /\ counter = Cardinality(In)
    BY <2>1 DEF Door
  <2>3. Cardinality(In') = Cardinality(In) - 1
    BY <2>1, FS_RemoveElement, InFinite
  <2>4. main = "update" /\ main' = main /\ rebuilder' = rebuilder
    BY <1>17 DEF LeaveSearch, Door
  <2> QED BY <1>17, <2>2, <2>3, <2>4 DEF LeaveSearch, Door, Closed
<1>18. ASSUME TakeRebuildPtr PROVE Door'
  BY <1>18 DEF TakeRebuildPtr, Door, In, Closed
<1>19. ASSUME Look PROVE Door'
  BY <1>19 DEF Look, Door, In, Closed
<1>20. ASSUME Drain PROVE Door'
  <2>1. ~Closed /\ Cardinality(In) = 0
    BY <1>20 DEF Drain, Door, Closed
  <2>2. In = {} /\ In' = In
    BY <1>20, <2>1, FS_EmptySet, InFinite DEF Drain, In
  <2> QED BY <1>20, <2>2 DEF Drain, Door, Closed
<1>21. ASSUME Copy PROVE Door'
  BY <1>21 DEF Copy, Door, In, Closed
<1>22. ASSUME Reopen PROVE Door'
  <2>1. In = {} /\ In' = In /\ Cardinality({}) = 0
    BY <1>22, FS_EmptySet DEF Reopen, In, Door, Closed
  <2> QED BY <1>22, <2>1 DEF Reopen, Door, Closed
<1>23. ASSUME BuildTree PROVE Door'
  BY <1>23 DEF BuildTree, Door, In, Closed
<1>24. ASSUME Replay PROVE Door'
  BY <1>24 DEF Replay, Door, In, Closed
<1>25. ASSUME EndReplay PROVE Door'
  BY <1>25 DEF EndReplay, Door, In, Closed
<1>26. ASSUME Swap PROVE Door'
  BY <1>26 DEF Swap, Door, In, Closed
<1>27. ASSUME ReopenAgain PROVE Door'
  <2>1. In = {} /\ In' = In /\ Cardinality({}) = 0
    BY <1>27, FS_EmptySet DEF ReopenAgain, In, Door, Closed
  <2> QED BY <1>27, <2>1 DEF ReopenAgain, Door, Closed
<1>28. ASSUME ClearFlag PROVE Door'
  BY <1>28 DEF ClearFlag, Door, In, Closed
<1>29. ASSUME Discard PROVE Door'
  BY <1>29 DEF Discard, Door, In, Closed
<1>30. ASSUME EndTurn PROVE Door'
  BY <1>30 DEF EndTurn, Door, In, Closed
<1>31. ASSUME NEW s \in Searchers, TestSon(s) PROVE Door'
  BY <1>31 DEF TestSon, Door, In, Closed
<1>32. ASSUME Rebuild PROVE Door'
  BY <1>32 DEF Rebuild, Door, In, Closed
<1>33. ASSUME ReachRoot PROVE Door'
  BY <1>33 DEF ReachRoot, Door, In, Closed
<1> QED
  BY <1>1, <1>2, <1>3, <1>4, <1>5, <1>6, <1>7, <1>8, <1>9, <1>10,
     <1>11, <1>12, <1>13, <1>14, <1>15, <1>16, <1>17, <1>18, <1>19, <1>20,
     <1>21, <1>22, <1>23, <1>24, <1>25, <1>26, <1>27, <1>28, <1>29, <1>30,
     <1>31, <1>32, <1>33
  DEF Next, Main, Search, Rebuilder

\* Who is inside a subtree that was taken out looks in from outside or is main, unprotected.
LEMMA StrandingStep ==
  ASSUME Types, Door, Stranding, Next
  PROVE  Stranding'
<1> USE DEF None, Goto, Call, mainVars, rebuildVars
<1>1. ASSUME NEW p \in Points, AddPoint(p) PROVE Stranding'
  BY <1>1 DEF AddPoint, Stranding, Left, Peeking, Unprotected, SearchFlagHeld
<1>2. ASSUME EndRange PROVE Stranding'
  BY <1>2 DEF EndRange, Stranding, Left, Peeking, Unprotected, SearchFlagHeld
<1>3. ASSUME Insert PROVE Stranding'
  BY <1>3 DEF Insert, Stranding, Left, Peeking, Unprotected, SearchFlagHeld
<1>4. ASSUME InsertLocked PROVE Stranding'
  BY <1>4 DEF InsertLocked, Stranding, Left, Peeking, Unprotected, SearchFlagHeld
<1>5. ASSUME Delete PROVE Stranding'
  BY <1>5 DEF Delete, Stranding, Left, Peeking, Unprotected, SearchFlagHeld
<1>6. ASSUME DeleteLocked PROVE Stranding'
  BY <1>6 DEF DeleteLocked, Stranding, Left, Peeking, Unprotected, SearchFlagHeld
<1>7. ASSUME Add PROVE Stranding'
  BY <1>7 DEF Add, Stranding, Left, Peeking, Unprotected, SearchFlagHeld
<1>8. ASSUME AddLocked PROVE Stranding'
  BY <1>8 DEF AddLocked, Stranding, Left, Peeking, Unprotected, SearchFlagHeld
<1>9. ASSUME StartUpdate PROVE Stranding'
  <2>1. Peeking = {}
    BY <1>9 DEF StartUpdate, Door, Peeking
  <2> QED BY <1>9, <2>1 DEF StartUpdate, Stranding, Left, Unprotected, SearchFlagHeld
<1>10. ASSUME EndUpdate PROVE Stranding'
  BY <1>10 DEF EndUpdate, Stranding, Left, Peeking, Unprotected, SearchFlagHeld
<1>11. ASSUME StartFlatten PROVE Stranding'
  BY <1>11 DEF StartFlatten, Stranding, Left, Peeking, Unprotected, SearchFlagHeld
<1>12. ASSUME EndFlatten PROVE Stranding'
  BY <1>12 DEF EndFlatten, Stranding, Left, Peeking, Unprotected, SearchFlagHeld
<1>13. ASSUME StopThread PROVE Stranding'
  BY <1>13 DEF StopThread, Stranding, Left, Peeking, Unprotected, SearchFlagHeld
<1>14. ASSUME ResetAndBuild PROVE Stranding'
  BY <1>14 DEF ResetAndBuild, Stranding, Left, Peeking, Unprotected, SearchFlagHeld
<1>15. ASSUME NEW s \in Searchers, StartSearch(s) PROVE Stranding'
  <2>1. Peeking \ {s} \subseteq Peeking'
    BY <1>15 DEF StartSearch, Peeking, Types
  <2>2. stranded' = stranded /\ s \notin Peeking
    BY <1>15 DEF StartSearch, Peeking
  <2>3. Left' = Left
    BY <1>15 DEF StartSearch, Left, Unprotected, SearchFlagHeld
  <2> QED BY <1>15, <2>1, <2>2, <2>3 DEF StartSearch, Stranding
<1>16. ASSUME NEW s \in Searchers, EnterSearch(s) PROVE Stranding'
  <2>1. Peeking \ {s} \subseteq Peeking'
    BY <1>16 DEF EnterSearch, Peeking, Types
  <2>2. stranded' = stranded /\ s \notin Peeking
    BY <1>16 DEF EnterSearch, Peeking
  <2>3. Left' = Left
    BY <1>16 DEF EnterSearch, Left, Unprotected, SearchFlagHeld
  <2> QED BY <1>16, <2>1, <2>2, <2>3 DEF EnterSearch, Stranding
<1>17. ASSUME NEW s \in Searchers, LeaveSearch(s) PROVE Stranding'
  <2>1. Peeking \ {s} \subseteq Peeking'
    BY <1>17 DEF LeaveSearch, Peeking, Types
  <2>2. stranded' = stranded \ {s}
    BY <1>17 DEF LeaveSearch, Peeking
  <2>3. Left' = Left
    BY <1>17 DEF LeaveSearch, Left, Unprotected, SearchFlagHeld
  <2> QED BY <1>17, <2>1, <2>2, <2>3 DEF LeaveSearch, Stranding
<1>18. ASSUME TakeRebuildPtr PROVE Stranding'
  BY <1>18 DEF TakeRebuildPtr, Stranding, Left, Peeking, Unprotected, SearchFlagHeld
<1>19. ASSUME Look PROVE Stranding'
  BY <1>19 DEF Look, Stranding, Left, Peeking, Unprotected, SearchFlagHeld
<1>20. ASSUME Drain PROVE Stranding'
  BY <1>20 DEF Drain, Stranding, Left, Peeking, Unprotected, SearchFlagHeld
<1>21. ASSUME Copy PROVE Stranding'
  BY <1>21 DEF Copy, Stranding, Left, Peeking, Unprotected, SearchFlagHeld
<1>22. ASSUME Reopen PROVE Stranding'
  BY <1>22 DEF Reopen, Stranding, Left, Peeking, Unprotected, SearchFlagHeld
<1>23. ASSUME BuildTree PROVE Stranding'
  BY <1>23 DEF BuildTree, Stranding, Left, Peeking, Unprotected, SearchFlagHeld
<1>24. ASSUME Replay PROVE Stranding'
  BY <1>24 DEF Replay, Stranding, Left, Peeking, Unprotected, SearchFlagHeld
<1>25. ASSUME EndReplay PROVE Stranding'
  BY <1>25 DEF EndReplay, Stranding, Left, Peeking, Unprotected, SearchFlagHeld
<1>26. ASSUME Swap PROVE Stranding'
  <2>1. In = {}
    BY <1>26 DEF Swap, Door, Closed
  <2>2. stranded' \subseteq Peeking \cup (IF Unprotected \/ SearchFlagHeld THEN {"main"} ELSE {})
    BY <1>26, <2>1 DEF Swap, Inhabitants, In, Peeking
  <2> QED BY <1>26, <2>2 DEF Swap, Stranding, Left, Peeking, Unprotected, SearchFlagHeld
<1>27. ASSUME ReopenAgain PROVE Stranding'
  BY <1>27 DEF ReopenAgain, Stranding, Left, Peeking, Unprotected, SearchFlagHeld
<1>28. ASSUME ClearFlag PROVE Stranding'
  BY <1>28 DEF ClearFlag, Stranding, Left, Peeking, Unprotected, SearchFlagHeld
<1>29. ASSUME Discard PROVE Stranding'
  BY <1>29 DEF Discard, Stranding, Left, Peeking, Unprotected, SearchFlagHeld
<1>30. ASSUME EndTurn PROVE Stranding'
  BY <1>30 DEF EndTurn, Stranding, Left, Peeking, Unprotected, SearchFlagHeld
<1>31. ASSUME NEW s \in Searchers, TestSon(s) PROVE Stranding'
  <2>1. Peeking \ {s} \subseteq Peeking'
    BY <1>31 DEF TestSon, Peeking, Types
  <2>2. stranded' = stranded \ {s}
    BY <1>31 DEF TestSon, Peeking
  <2>3. Left' = Left
    BY <1>31 DEF TestSon, Left, Unprotected, SearchFlagHeld
  <2> QED BY <1>31, <2>1, <2>2, <2>3 DEF TestSon, Stranding
<1>32. ASSUME Rebuild PROVE Stranding'
  BY <1>32 DEF Rebuild, Stranding, Left, Peeking, Unprotected, SearchFlagHeld
<1>33. ASSUME ReachRoot PROVE Stranding'
  BY <1>33 DEF ReachRoot, Stranding, Left, Peeking, Unprotected, SearchFlagHeld
<1> QED
  BY <1>1, <1>2, <1>3, <1>4, <1>5, <1>6, <1>7, <1>8, <1>9, <1>10,
     <1>11, <1>12, <1>13, <1>14, <1>15, <1>16, <1>17, <1>18, <1>19, <1>20,
     <1>21, <1>22, <1>23, <1>24, <1>25, <1>26, <1>27, <1>28, <1>29, <1>30,
     <1>31, <1>32, <1>33
  DEF Next, Main, Search, Rebuilder

\* A subtree stays asked for until it is replaced.
LEMMA AskedStep ==
  ASSUME Types, Asked, Next
  PROVE  Asked'
<1> USE DEF None, Goto, Call, mainVars, rebuildVars
<1>1. ASSUME NEW p \in Points, AddPoint(p) PROVE Asked'
  BY <1>1 DEF AddPoint, Asked, Types, Busy, Result
<1>2. ASSUME EndRange PROVE Asked'
  BY <1>2 DEF EndRange, Asked, Types, Busy, Result
<1>3. ASSUME Insert PROVE Asked'
  BY <1>3, IkdAssumption DEF Insert, Asked, Types, Busy, Result
<1>4. ASSUME InsertLocked PROVE Asked'
  BY <1>4 DEF InsertLocked, Asked, Types, Busy, Result
<1>5. ASSUME Delete PROVE Asked'
  BY <1>5 DEF Delete, Asked, Types, Busy, Result
<1>6. ASSUME DeleteLocked PROVE Asked'
  BY <1>6 DEF DeleteLocked, Asked, Types, Busy, Result
<1>7. ASSUME Add PROVE Asked'
  BY <1>7 DEF Add, Asked, Types, Busy, Reaches, Result
<1>8. ASSUME AddLocked PROVE Asked'
  BY <1>8 DEF AddLocked, Asked, Types, Busy, Result
<1>9. ASSUME StartUpdate PROVE Asked'
  BY <1>9 DEF StartUpdate, Asked, Types, Busy, Result
<1>10. ASSUME EndUpdate PROVE Asked'
  BY <1>10 DEF EndUpdate, Asked, Types, Busy, Result
<1>11. ASSUME StartFlatten PROVE Asked'
  BY <1>11 DEF StartFlatten, Asked, Types, Busy, Result
<1>12. ASSUME EndFlatten PROVE Asked'
  BY <1>12 DEF EndFlatten, Asked, Types, Busy, Result
<1>13. ASSUME StopThread PROVE Asked'
  BY <1>13 DEF StopThread, Asked, Types, Busy, Result
<1>14. ASSUME ResetAndBuild PROVE Asked'
  BY <1>14 DEF ResetAndBuild, Asked, Types, Busy, Result
<1>15. ASSUME NEW s \in Searchers, StartSearch(s) PROVE Asked'
  BY <1>15 DEF StartSearch, Asked, Types, Busy, Result
<1>16. ASSUME NEW s \in Searchers, EnterSearch(s) PROVE Asked'
  BY <1>16 DEF EnterSearch, Asked, Types, Busy, Result
<1>17. ASSUME NEW s \in Searchers, LeaveSearch(s) PROVE Asked'
  BY <1>17 DEF LeaveSearch, Asked, Types, Busy, Result
<1>18. ASSUME TakeRebuildPtr PROVE Asked'
  BY <1>18 DEF TakeRebuildPtr, Asked, Types, Busy, Result
<1>19. ASSUME Look PROVE Asked'
  BY <1>19 DEF Look, Asked, Types, Busy, Result
<1>20. ASSUME Drain PROVE Asked'
  BY <1>20 DEF Drain, Asked, Types, Busy, Result
<1>21. ASSUME Copy PROVE Asked'
  BY <1>21 DEF Copy, Asked, Types, Busy, Result
<1>22. ASSUME Reopen PROVE Asked'
  BY <1>22 DEF Reopen, Asked, Types, Busy, Result
<1>23. ASSUME BuildTree PROVE Asked'
  BY <1>23 DEF BuildTree, Asked, Types, Busy, Result
<1>24. ASSUME Replay PROVE Asked'
  BY <1>24 DEF Replay, Asked, Types, Busy, Result
<1>25. ASSUME EndReplay PROVE Asked'
  BY <1>25 DEF EndReplay, Asked, Types, Busy, Result
<1>26. ASSUME Swap PROVE Asked'
  BY <1>26 DEF Swap, Asked, Types, Busy, Result
<1>27. ASSUME ReopenAgain PROVE Asked'
  BY <1>27 DEF ReopenAgain, Asked, Types, Busy, Result
<1>28. ASSUME ClearFlag PROVE Asked'
  BY <1>28 DEF ClearFlag, Asked, Types, Busy, Result
<1>29. ASSUME Discard PROVE Asked'
  BY <1>29 DEF Discard, Asked, Types, Busy, Result
<1>30. ASSUME EndTurn PROVE Asked'
  BY <1>30 DEF EndTurn, Asked, Types, Busy, Result
<1>31. ASSUME NEW s \in Searchers, TestSon(s) PROVE Asked'
  BY <1>31 DEF TestSon, Asked, Types, Busy, Result
<1>32. ASSUME Rebuild PROVE Asked'
  BY <1>32 DEF Rebuild, Asked, Types, Busy, Result, RebuildPtrHeld
<1>33. ASSUME ReachRoot PROVE Asked'
  BY <1>33 DEF ReachRoot, Asked, Types, Busy, Result
<1> QED
  BY <1>1, <1>2, <1>3, <1>4, <1>5, <1>6, <1>7, <1>8, <1>9, <1>10,
     <1>11, <1>12, <1>13, <1>14, <1>15, <1>16, <1>17, <1>18, <1>19, <1>20,
     <1>21, <1>22, <1>23, <1>24, <1>25, <1>26, <1>27, <1>28, <1>29, <1>30,
     <1>31, <1>32, <1>33
  DEF Next, Main, Search, Rebuilder

\* What the log says turns the new subtree into the old one.
LEMMA ReplayingStep ==
  ASSUME Types, Asked, Replaying, Next
  PROVE  Replaying'
<1> USE DEF None, Goto, Call, mainVars, rebuildVars
<1>1. ASSUME NEW p \in Points, AddPoint(p) PROVE Replaying'
  BY <1>1 DEF AddPoint, Replaying, Part
<1>2. ASSUME EndRange PROVE Replaying'
  BY <1>2 DEF EndRange, Replaying, Part
<1>3. ASSUME Insert PROVE Replaying'
  BY <1>3 DEF Insert, Replaying, Part
<1>4. ASSUME InsertLocked PROVE Replaying'
  <2> SUFFICES ASSUME ~errored, NEW c \in Clouds, Steps(c, Part, log),
                      rebuilder \in {"build", "replay"}
               PROVE  Steps(c, Part', log')
    BY <1>4 DEF InsertLocked, WorkingHeld, Replaying, Types
  <2> DEFINE t == IF found # NoPoints THEN Outside(tree, BoxOf(point)) ELSE tree
             l == IF found # NoPoints THEN Append(log, DeleteOp(point)) ELSE log
  <2>1. target = Points
    BY <1>4 DEF InsertLocked, Asked, Busy
  <2>0. Result \in Points /\ point \in Points
    BY ResultType DEF Types
  <2>2. t \in Clouds /\ l \in Seq(Operations) /\ point \in Points /\ Result \in Points /\ Part \in Clouds
    BY <2>0, CloudTypes, OpTypes DEF Types, Part
  <2>3. Steps(c, Inside(t, Points), l)
    <3>1. CASE found # NoPoints
      <4>1. Inside(t, Points) = Apply(Part, DeleteOp(point))
        BY <3>1, <2>1, <2>2, PartUpdated, Applied, OpTypes DEF Part, Types
      <4>2. Apply(Part, DeleteOp(point)) \in Clouds
        BY <2>2, Applied, OpTypes
      <4> QED BY <3>1, <4>1, <4>2, <2>2, StepsAppend, OpTypes DEF Types
    <3>2. CASE found = NoPoints
      BY <3>2, <2>1 DEF Part
    <3> QED BY <3>1, <3>2
  <2>4. tree' = Plus(t, Result) /\ log' = Append(l, AddOp(Result)) /\ target' = target
    BY <1>4 DEF InsertLocked, Logged, Asked, Busy
  <2> HIDE DEF t, l
  <2>5. Part' = Apply(Inside(t, Points), AddOp(Result))
    <3>1. Inside(t, Points) \in Clouds
      BY <2>2, CloudTypes
    <3> QED BY <3>1, <2>1, <2>2, <2>4, PartUpdated, Applied, OpTypes DEF Part
  <2>6. Inside(t, Points) \in Clouds /\ Part' \in Clouds
    <3>1. Inside(t, Points) \in Clouds
      BY <2>2, CloudTypes
    <3> QED BY <3>1, <2>2, <2>5, Applied, OpTypes
  <2> QED BY <2>2, <2>3, <2>4, <2>5, <2>6, StepsAppend, OpTypes
<1>5. ASSUME Delete PROVE Replaying'
  <2>1. CASE Reaches(BoxOf(point))
    BY <1>5, <2>1 DEF Delete, Replaying, Part
  <2>2. CASE ~Reaches(BoxOf(point))
    <3>1. Part' = Part
      <4>1. target \cap BoxOf(point) = {}
        BY <2>2 DEF Reaches
      <4>2. Inside(Outside(tree, BoxOf(point)), target) = Inside(tree, target)
        BY <4>1, PartUpdated DEF Types
      <4> QED BY <1>5, <2>2, <4>2 DEF Delete, Part
    <3> QED BY <1>5, <2>2, <3>1 DEF Delete, Replaying
  <2> QED BY <2>1, <2>2
<1>6. ASSUME DeleteLocked PROVE Replaying'
  <2> SUFFICES ASSUME ~errored, NEW c \in Clouds, Steps(c, Part, log),
                      rebuilder \in {"build", "replay"}
               PROVE  Steps(c, Part', log')
    BY <1>6 DEF DeleteLocked, WorkingHeld, Replaying, Types
  <2>1. log' = Append(log, DeleteOp(point))
    BY <1>6 DEF DeleteLocked, Logged, Asked, Busy
  <2>2. Part \in Clouds /\ point \in Points /\ log \in Seq(Operations)
    BY CloudTypes DEF Types, Part
  <2>3. Part' = Apply(Part, DeleteOp(point)) /\ Part' \in Clouds
    BY <1>6, <2>2, PartUpdated, Applied, OpTypes, CloudTypes DEF DeleteLocked, Part, Types
  <2> QED BY <2>1, <2>2, <2>3, StepsAppend, OpTypes
<1>7. ASSUME Add PROVE Replaying'
  <2>1. CASE Reaches({Result})
    BY <1>7, <2>1 DEF Add, Replaying, Part
  <2>2. CASE ~Reaches({Result})
    <3>1. Part' = Part
      <4>1. Result \notin target
        BY <2>2 DEF Reaches
      <4> QED BY <1>7, <2>2, <4>1, ResultType, PartUpdated DEF Add, Part, Types
    <3> QED BY <1>7, <2>2, <3>1 DEF Add, Replaying
  <2> QED BY <2>1, <2>2
<1>8. ASSUME AddLocked PROVE Replaying'
  <2> SUFFICES ASSUME ~errored, NEW c \in Clouds, Steps(c, Part, log),
                      rebuilder \in {"build", "replay"}
               PROVE  Steps(c, Part', log')
    BY <1>8 DEF AddLocked, WorkingHeld, Replaying, Types
  <2>1. log' = Append(log, AddOp(Result))
    BY <1>8 DEF AddLocked, Logged, Asked, Busy
  <2>2. Part \in Clouds /\ Result \in Points /\ log \in Seq(Operations)
    BY CloudTypes, ResultType DEF Types, Part
  <2>3. Result \in target
    BY <1>8 DEF AddLocked, Asked, Busy
  <2>4. Part' = Apply(Part, AddOp(Result)) /\ Part' \in Clouds
    BY <1>8, <2>2, <2>3, PartUpdated, Applied, OpTypes, CloudTypes DEF AddLocked, Part, Types
  <2> QED BY <2>1, <2>2, <2>4, StepsAppend, OpTypes
<1>9. ASSUME StartUpdate PROVE Replaying'
  BY <1>9 DEF StartUpdate, Replaying, Part
<1>10. ASSUME EndUpdate PROVE Replaying'
  BY <1>10 DEF EndUpdate, Replaying, Part
<1>11. ASSUME StartFlatten PROVE Replaying'
  BY <1>11 DEF StartFlatten, Replaying, Part
<1>12. ASSUME EndFlatten PROVE Replaying'
  BY <1>12 DEF EndFlatten, Replaying, Part
<1>13. ASSUME StopThread PROVE Replaying'
  BY <1>13 DEF StopThread, Replaying, Part
<1>14. ASSUME ResetAndBuild PROVE Replaying'
  BY <1>14 DEF ResetAndBuild, Replaying, Part
<1>15. ASSUME NEW s \in Searchers, StartSearch(s) PROVE Replaying'
  BY <1>15 DEF StartSearch, Replaying, Part
<1>16. ASSUME NEW s \in Searchers, EnterSearch(s) PROVE Replaying'
  BY <1>16 DEF EnterSearch, Replaying, Part
<1>17. ASSUME NEW s \in Searchers, LeaveSearch(s) PROVE Replaying'
  BY <1>17 DEF LeaveSearch, Replaying, Part
<1>18. ASSUME TakeRebuildPtr PROVE Replaying'
  BY <1>18 DEF TakeRebuildPtr, Replaying, Part
<1>19. ASSUME Look PROVE Replaying'
  <2>1. CASE target = None
    BY <1>19, <2>1 DEF Look, Replaying
  <2>2. CASE target # None
    <3>1. ~errored' => log' = <<>> /\ rebuilder' = "drain"
      BY <1>19, <2>2 DEF Look
    <3> QED BY <3>1 DEF Replaying
  <2> QED BY <2>1, <2>2
<1>20. ASSUME Drain PROVE Replaying'
  BY <1>20 DEF Drain, Replaying, Part
<1>21. ASSUME Copy PROVE Replaying'
  BY <1>21 DEF Copy, Replaying, Part
<1>22. ASSUME Reopen PROVE Replaying'
  <2> SUFFICES ASSUME ~errored
               PROVE  Steps(storage', Part', log')
    BY <1>22 DEF Reopen, Replaying
  <2>1. Part' = Part /\ storage' = storage /\ log' = log /\ storage = Part /\ log = <<>>
    BY <1>22 DEF Reopen, Replaying, Part
  <2>2. Part \in Clouds
    BY CloudTypes DEF Part, Types
  <2> QED BY <2>1, <2>2, StepsEmpty
<1>23. ASSUME BuildTree PROVE Replaying'
  BY <1>23 DEF BuildTree, Replaying, Part
<1>24. ASSUME Replay PROVE Replaying'
  <2> SUFFICES ASSUME ~errored
               PROVE  Steps(newTree', Part', log')
    BY <1>24 DEF Replay, Replaying
  <2>1. Part' = Part /\ Part \in Clouds
    BY <1>24, CloudTypes DEF Replay, Part, Types
  <2> QED BY <1>24, <2>1, StepsTail DEF Replay, Replaying, Types
<1>25. ASSUME EndReplay PROVE Replaying'
  <2> SUFFICES ASSUME ~errored
               PROVE  log' = <<>> /\ newTree' = Part'
    BY <1>25 DEF EndReplay, Replaying
  <2>1. Part' = Part /\ Part \in Clouds
    BY <1>25, CloudTypes DEF EndReplay, Part, Types
  <2> QED BY <1>25, <2>1, StepsEmpty DEF EndReplay, Replaying, Types
<1>26. ASSUME Swap PROVE Replaying'
  BY <1>26 DEF Swap, Replaying, Part
<1>27. ASSUME ReopenAgain PROVE Replaying'
  BY <1>27 DEF ReopenAgain, Replaying, Part
<1>28. ASSUME ClearFlag PROVE Replaying'
  BY <1>28 DEF ClearFlag, Replaying, Part
<1>29. ASSUME Discard PROVE Replaying'
  BY <1>29 DEF Discard, Replaying, Part
<1>30. ASSUME EndTurn PROVE Replaying'
  BY <1>30 DEF EndTurn, Replaying, Part
<1>31. ASSUME NEW s \in Searchers, TestSon(s) PROVE Replaying'
  BY <1>31 DEF TestSon, Replaying, Part
<1>32. ASSUME Rebuild PROVE Replaying'
  BY <1>32 DEF Rebuild, RebuildPtrHeld, Replaying
<1>33. ASSUME ReachRoot PROVE Replaying'
  BY <1>33 DEF ReachRoot, Replaying, Part
<1> QED
  BY <1>1, <1>2, <1>3, <1>4, <1>5, <1>6, <1>7, <1>8, <1>9, <1>10,
     <1>11, <1>12, <1>13, <1>14, <1>15, <1>16, <1>17, <1>18, <1>19, <1>20,
     <1>21, <1>22, <1>23, <1>24, <1>25, <1>26, <1>27, <1>28, <1>29, <1>30,
     <1>31, <1>32, <1>33
  DEF Next, Main, Search, Rebuilder

-----------------------------------------------------------------------------
\* The initial states satisfy the invariant.
LEMMA InitInv == Init => Inv
<1> SUFFICES ASSUME Init PROVE Inv
  OBVIOUS
<1> USE DEF Init, None
<1>1. Types
  <2>1. tree \in Clouds /\ NoPoints \in Clouds
    BY ScansAreClouds DEF NoPoints, Clouds
  <2>2. rebuildFlag \in BOOLEAN /\ terminate \in BOOLEAN /\ errored \in BOOLEAN /\ crashed \in BOOLEAN
    BY Zenon
  <2>3. point \in Points
    BY CloudAssumption
  <2> QED BY <2>1, <2>2, <2>3 DEF Types, RebuilderPlaces, MainPlaces
<1>2. Door
  <2>1. In = {} /\ Cardinality({}) = 0
    BY FS_EmptySet DEF In
  <2> QED BY <2>1 DEF Door, Closed
<1>3. Stranding /\ Asked /\ Replaying
  BY DEF Stranding, Asked, Busy, Replaying
<1> QED BY <1>1, <1>2, <1>3 DEF Inv

\* The invariant is inductive.
LEMMA InvStep == Inv /\ [Next]_vars => Inv'
<1> SUFFICES ASSUME Inv, [Next]_vars PROVE Inv'
  OBVIOUS
<1>1. CASE Next
  BY <1>1, TypesStep, DoorStep, StrandingStep, AskedStep, ReplayingStep DEF Inv
<1>2. CASE UNCHANGED vars
  BY <1>2 DEF vars, Inv, Types, Door, In, Closed, Stranding, Left, Peeking, Unprotected,
              SearchFlagHeld, Asked, Busy, Result, Replaying, Part
<1> QED BY <1>1, <1>2

\* The invariant holds in every reachable state of the tree and its threads.
THEOREM SpecInv == Spec => []Inv
<1> QED BY InitInv, InvStep, PTL DEF Spec

\* The types of the variables, and the meaning of search_mutex_counter.
THEOREM IkdTypeCorrect == Spec => []IkdTypeOK
<1>1. Inv => IkdTypeOK
  <2> SUFFICES ASSUME Inv PROVE IkdTypeOK
    OBVIOUS
  <2>1. stranded \subseteq Threads
    BY DEF Inv, Stranding, Peeking, Threads
  <2>2. {rebuildFlag, terminate, errored, crashed, downsample} \subseteq BOOLEAN
    BY Zenon DEF Inv, Types
  <2> QED BY <2>1, <2>2 DEF Inv, Types, Door, Closed, In, IkdTypeOK
<1> QED BY <1>1, SpecInv, PTL

\* No Nearest_Search is inside a subtree while it is copied or replaced.
THEOREM SearchesAreExcluded == Spec => []SearchesExcluded
<1>1. Inv => SearchesExcluded
  BY DEF Inv, Door, Closed, In, SearchesExcluded
<1> QED BY <1>1, SpecInv, PTL

\* Nobody holds a pointer into a subtree that is deleted, except who reads it with neither a
\* mutex nor a number: flatten, Search_by_range from the root, Update on the way back up, and
\* Search at the box of a son.  However many threads search, none that has entered is caught.
THEOREM DeletionIsSafe == Spec => []OnlyUnprotectedStranded
<1>1. Inv => OnlyUnprotectedStranded
  BY DEF Inv, Stranding, Left, Peeking, OnlyUnprotectedStranded
<1> QED BY <1>1, SpecInv, PTL

-----------------------------------------------------------------------------
(* Nobody waits for good.                                                  *)

\* The rebuild thread finds its guard true where it is: at the door no search is inside
\* and the mutex of the door is free.  Elsewhere it waits for nothing.
RebuilderGoesOn ==
  /\ rebuilder # "dead"
  /\ rebuilder \in {"drain", "drainAgain", "reopen", "reopenAgain"} => ~SearchFlagHeld
  /\ rebuilder \in {"drain", "drainAgain"} => counter = 0

\* A searching thread that finds its guard true.
SearcherGoesOn(s) == search[s] \in {"start", "peek", "in"} \/ (search[s] = "wait" /\ counter # -1)

\* Inside a call of the estimator, who it waits for can go on: the holder of the working
\* flag, a searching thread, the rebuild thread that closed the door or has yet to end.
NobodyStuck ==
  main # "idle" =>
    /\ main \in {"lockRoot", "lockDelete", "lockAdd"} /\ WorkingHeld => RebuilderGoesOn
    /\ main = "update" => \/ \A s \in Searchers : search[s] = "out"
                          \/ \E s \in Searchers : SearcherGoesOn(s)
                          \/ RebuilderGoesOn
    /\ main = "join" => rebuilder = "dead" \/ RebuilderGoesOn

\* However many threads search, no call of the estimator ends in a circle of threads that
\* wait for one another over the three mutexes, the counter and the join.
THEOREM NoWaitingCircle == Spec => []NobodyStuck
<1>1. ASSUME Inv PROVE NobodyStuck
  <2>1. ASSUME main # "update", ~SearchFlagHeld, rebuilder # "dead" PROVE RebuilderGoesOn
    <3>1. In = {}
      BY <1>1, <2>1 DEF Inv, Door, In
    <3>2. rebuilder \in {"drain", "drainAgain"} => counter = 0
      BY <1>1, <3>1, FS_EmptySet DEF Inv, Door, Closed
    <3> QED BY <2>1, <3>2 DEF RebuilderGoesOn
  <2>2. ASSUME main \in {"lockRoot", "lockDelete", "lockAdd"}, WorkingHeld PROVE RebuilderGoesOn
    BY <2>1, <2>2 DEF SearchFlagHeld, WorkingHeld
  <2>3. ASSUME main = "join" PROVE rebuilder = "dead" \/ RebuilderGoesOn
    BY <2>1, <2>3 DEF SearchFlagHeld
  <2>4. ASSUME main = "update", ~ \A s \in Searchers : search[s] = "out",
               \A s \in Searchers : ~SearcherGoesOn(s)
        PROVE  RebuilderGoesOn
    <3>1. PICK s \in Searchers : search[s] # "out"
      BY <2>4
    <3>2. search[s] = "wait" /\ counter = -1
      BY <1>1, <2>4, <3>1 DEF SearcherGoesOn, Inv, Types
    <3>3. Closed
      BY <1>1, <3>2, CardinalityType DEF Inv, Door
    <3> QED BY <2>4, <3>3 DEF Closed, RebuilderGoesOn, SearchFlagHeld
  <2> QED BY <2>2, <2>3, <2>4 DEF NobodyStuck
<1>2. Inv => NobodyStuck
  BY <1>1
<1> QED BY <1>2, SpecInv, PTL

\* A replacement puts in what it takes out.
LEMMA SwapKeepsTree ==
  ASSUME Inv, Swap, ~errored
  PROVE  tree' = tree
<1>1. newTree = Inside(tree, target)
  BY DEF Inv, Replaying, Part, Swap, Goto
<1> QED BY <1>1, JoinedParts DEF Swap, Inv, Types

\* A rebuild does not change what the map holds.
THEOREM RebuildIsUnseen == Spec => RebuildUnseen
<1>1. Inv /\ [Next]_vars => [tree' # tree => main' # main \/ errored]_vars
  <2> SUFFICES ASSUME Inv, Next, tree' # tree, ~errored
               PROVE  main' # main
    OBVIOUS
  <2>1. ASSUME Main PROVE main' # main
    BY <2>1 DEF Main, AddPoint, EndRange, Insert, InsertLocked, Delete, DeleteLocked, Add,
                AddLocked, Rebuild, ReachRoot, StartUpdate, EndUpdate, StartFlatten, EndFlatten, StopThread,
                ResetAndBuild
  <2>2. ASSUME NEW s \in Searchers, Search(s) PROVE FALSE
    BY <2>2 DEF Search, StartSearch, TestSon, EnterSearch, LeaveSearch
  <2>3. ASSUME Rebuilder PROVE FALSE
    BY <2>3, SwapKeepsTree DEF Rebuilder, TakeRebuildPtr, Look, Drain, Copy, Reopen, BuildTree,
                Replay, EndReplay, ReopenAgain, ClearFlag, Discard, EndTurn
  <2> QED BY <2>1, <2>2, <2>3 DEF Next
<1> QED BY <1>1, SpecInv, PTL DEF Spec, RebuildUnseen

-----------------------------------------------------------------------------
(* The tree implements PointMap.                                           *)

\* The places where found is what the cell of point held when it was looked up.
Inserting == main \in {"insert", "lockRoot", "delete", "lockDelete", "upDelete", "add", "lockAdd"}

\* While point is inserted its cell is what was found, or what was found has been deleted.
CellFound ==
  /\ main # "insert" => Wanted(found, point)
  /\ Inside(found, BoxOf(point)) = found
  /\ Inside(tree, BoxOf(point)) =
       IF main \in {"upDelete", "add", "lockAdd"} THEN NoPoints ELSE found

Chosen ==
  ~errored /\ Inserting =>
    /\ main \in {"delete", "lockDelete"} => found # NoPoints
    /\ IF downsample THEN CellFound ELSE found = NoPoints

\* What is taken from a cell and what is left.
LEMMA CellParts ==
  ASSUME NEW c \in Clouds, NEW S
  PROVE  /\ Inside(Inside(c, S), S) = Inside(c, S)
         /\ Inside(Outside(c, S), S) = NoPoints
         /\ Inside(c, S) = NoPoints => Outside(c, S) = c
         /\ Joined(c, NoPoints) = c
<1>1. Inside(Inside(c, S), S) = Inside(c, S) /\ Inside(Outside(c, S), S) = NoPoints
  BY DEF Clouds, Inside, Outside, NoPoints
<1>2. ASSUME Inside(c, S) = NoPoints PROVE Outside(c, S) = c
  <2>1. ASSUME NEW p \in Points PROVE Outside(c, S)[p] = c[p]
    <3>1. CASE p \in S
      <4>1. Inside(c, S)[p] = NoPoints[p]
        BY <1>2
      <4>2. c[p] = 0
        BY <3>1, <4>1 DEF Inside, NoPoints
      <4> QED BY <3>1, <4>2 DEF Outside
    <3>2. CASE p \notin S
      BY <3>2 DEF Outside
    <3> QED BY <3>1, <3>2
  <2> QED BY <2>1 DEF Clouds, Outside
<1>3. Joined(c, NoPoints) = c
  BY DEF Clouds, Joined, NoPoints
<1> QED BY <1>1, <1>2, <1>3

\* What lies in a cell and what lies outside can be told apart again after they are joined.
LEMMA CellJoined ==
  ASSUME NEW c \in Clouds, NEW d \in Clouds, NEW S,
         Inside(c, S) = NoPoints, Inside(d, S) = d
  PROVE  Inside(Joined(c, d), S) = d /\ Outside(Joined(c, d), S) = c
<1>1. ASSUME NEW p \in Points
      PROVE  Inside(Joined(c, d), S)[p] = d[p] /\ Outside(Joined(c, d), S)[p] = c[p]
  <2>1. Inside(c, S)[p] = NoPoints[p] /\ Inside(d, S)[p] = d[p]
    OBVIOUS
  <2>2. p \in S => c[p] = 0
    BY <2>1 DEF Inside, NoPoints
  <2>3. p \notin S => d[p] = 0
    BY <2>1 DEF Inside
  <2>4. c[p] \in Nat /\ d[p] \in Nat
    BY DEF Clouds
  <2> QED BY <2>2, <2>3, <2>4 DEF Inside, Outside, Joined
<1> QED BY <1>1 DEF Clouds, Inside, Outside

\* Search_by_range is only called to downsample.
Ranging == main \in {"rangeInRoot", "rangeInSon"} => downsample

\* So it stays.
LEMMA RangingStep ==
  ASSUME Types, Ranging, Next
  PROVE  Ranging'
<1> USE DEF None, Goto, Call, mainVars, rebuildVars
<1>1. ASSUME NEW p \in Points, AddPoint(p) PROVE Ranging'
  BY <1>1 DEF AddPoint, Ranging
<1>2. ASSUME EndRange PROVE Ranging'
  BY <1>2 DEF EndRange, Ranging
<1>3. ASSUME Insert PROVE Ranging'
  BY <1>3 DEF Insert, Ranging
<1>4. ASSUME InsertLocked PROVE Ranging'
  BY <1>4 DEF InsertLocked, Ranging
<1>5. ASSUME Delete PROVE Ranging'
  BY <1>5 DEF Delete, Ranging
<1>6. ASSUME DeleteLocked PROVE Ranging'
  BY <1>6 DEF DeleteLocked, Ranging
<1>7. ASSUME Add PROVE Ranging'
  BY <1>7 DEF Add, Ranging
<1>8. ASSUME AddLocked PROVE Ranging'
  BY <1>8 DEF AddLocked, Ranging
<1>9. ASSUME StartUpdate PROVE Ranging'
  BY <1>9 DEF StartUpdate, Ranging
<1>10. ASSUME EndUpdate PROVE Ranging'
  BY <1>10 DEF EndUpdate, Ranging
<1>11. ASSUME StartFlatten PROVE Ranging'
  BY <1>11 DEF StartFlatten, Ranging
<1>12. ASSUME EndFlatten PROVE Ranging'
  BY <1>12 DEF EndFlatten, Ranging
<1>13. ASSUME StopThread PROVE Ranging'
  BY <1>13 DEF StopThread, Ranging
<1>14. ASSUME ResetAndBuild PROVE Ranging'
  BY <1>14 DEF ResetAndBuild, Ranging
<1>15. ASSUME NEW s \in Searchers, StartSearch(s) PROVE Ranging'
  BY <1>15 DEF StartSearch, Ranging
<1>16. ASSUME NEW s \in Searchers, EnterSearch(s) PROVE Ranging'
  BY <1>16 DEF EnterSearch, Ranging
<1>17. ASSUME NEW s \in Searchers, LeaveSearch(s) PROVE Ranging'
  BY <1>17 DEF LeaveSearch, Ranging
<1>18. ASSUME TakeRebuildPtr PROVE Ranging'
  BY <1>18 DEF TakeRebuildPtr, Ranging
<1>19. ASSUME Look PROVE Ranging'
  BY <1>19 DEF Look, Ranging
<1>20. ASSUME Drain PROVE Ranging'
  BY <1>20 DEF Drain, Ranging
<1>21. ASSUME Copy PROVE Ranging'
  BY <1>21 DEF Copy, Ranging
<1>22. ASSUME Reopen PROVE Ranging'
  BY <1>22 DEF Reopen, Ranging
<1>23. ASSUME BuildTree PROVE Ranging'
  BY <1>23 DEF BuildTree, Ranging
<1>24. ASSUME Replay PROVE Ranging'
  BY <1>24 DEF Replay, Ranging
<1>25. ASSUME EndReplay PROVE Ranging'
  BY <1>25 DEF EndReplay, Ranging
<1>26. ASSUME Swap PROVE Ranging'
  BY <1>26 DEF Swap, Ranging
<1>27. ASSUME ReopenAgain PROVE Ranging'
  BY <1>27 DEF ReopenAgain, Ranging
<1>28. ASSUME ClearFlag PROVE Ranging'
  BY <1>28 DEF ClearFlag, Ranging
<1>29. ASSUME Discard PROVE Ranging'
  BY <1>29 DEF Discard, Ranging
<1>30. ASSUME EndTurn PROVE Ranging'
  BY <1>30 DEF EndTurn, Ranging
<1>31. ASSUME NEW s \in Searchers, TestSon(s) PROVE Ranging'
  BY <1>31 DEF TestSon, Ranging
<1>32. ASSUME Rebuild PROVE Ranging'
  BY <1>32 DEF Rebuild, Ranging
<1>33. ASSUME ReachRoot PROVE Ranging'
  BY <1>33 DEF ReachRoot, Ranging
<1> QED
  BY <1>1, <1>2, <1>3, <1>4, <1>5, <1>6, <1>7, <1>8, <1>9, <1>10,
     <1>11, <1>12, <1>13, <1>14, <1>15, <1>16, <1>17, <1>18, <1>19, <1>20,
     <1>21, <1>22, <1>23, <1>24, <1>25, <1>26, <1>27, <1>28, <1>29, <1>30,
     <1>31, <1>32, <1>33
  DEF Next, Main, Search, Rebuilder

\* The bookkeeping of an insertion stays right, whatever the rebuild thread does meanwhile.
LEMMA ChosenStep ==
  ASSUME Inv, Types, Ranging, Chosen, Next
  PROVE  Chosen'
<1> USE DEF None, Goto, Call, mainVars, rebuildVars
<1>1. ASSUME NEW p \in Points, AddPoint(p) PROVE Chosen'
  <2> SUFFICES ASSUME main' = "insert", downsample PROVE Chosen'
    BY <1>1 DEF AddPoint, Chosen, Inserting
  <2>1. point' = p /\ found' = Inside(tree, BoxOf(p)) /\ tree' = tree
    BY <1>1 DEF AddPoint
  <2>2. Inside(found', BoxOf(p)) = found'
    BY <2>1, CellParts DEF Types
  <2> QED BY <2>1, <2>2, <1>1 DEF AddPoint, Chosen, CellFound
<1>2. ASSUME EndRange PROVE Chosen'
  <2>1. point' = point /\ found' = Inside(tree, BoxOf(point)) /\ tree' = tree /\ downsample
    BY <1>2 DEF EndRange, Ranging
  <2>2. Inside(found', BoxOf(point)) = found'
    BY <2>1, CellParts DEF Types
  <2> QED BY <2>1, <2>2, <1>2 DEF EndRange, Chosen, CellFound
<1>3. ASSUME Insert PROVE Chosen'
  BY <1>3 DEF Insert, Chosen, CellFound, Inserting
<1>4. ASSUME InsertLocked PROVE Chosen'
  BY <1>4 DEF InsertLocked, Chosen, Inserting
<1>5. ASSUME Delete PROVE Chosen'
  <2>1. CASE Reaches(BoxOf(point))
    BY <1>5, <2>1 DEF Delete, Chosen, CellFound, Inserting
  <2>2. CASE ~Reaches(BoxOf(point))
    <3>1. Inside(tree', BoxOf(point)) = NoPoints
      BY <1>5, <2>2, CellParts DEF Delete, Types
    <3> QED BY <1>5, <2>2, <3>1 DEF Delete, Chosen, CellFound, Inserting
  <2> QED BY <2>1, <2>2
<1>6. ASSUME DeleteLocked PROVE Chosen'
  <2>1. Inside(tree', BoxOf(point)) = NoPoints
    BY <1>6, CellParts DEF DeleteLocked, Types
  <2> QED BY <1>6, <2>1 DEF DeleteLocked, Chosen, CellFound, Inserting
<1>7. ASSUME Add PROVE Chosen'
  BY <1>7 DEF Add, Chosen, CellFound, Inserting
<1>8. ASSUME AddLocked PROVE Chosen'
  BY <1>8 DEF AddLocked, Chosen, Inserting
<1>9. ASSUME StartUpdate PROVE Chosen'
  BY <1>9 DEF StartUpdate, Chosen, CellFound, Inserting
<1>10. ASSUME EndUpdate PROVE Chosen'
  BY <1>10 DEF EndUpdate, Chosen, CellFound, Inserting
<1>11. ASSUME StartFlatten PROVE Chosen'
  BY <1>11 DEF StartFlatten, Chosen, CellFound, Inserting
<1>12. ASSUME EndFlatten PROVE Chosen'
  BY <1>12 DEF EndFlatten, Chosen, CellFound, Inserting
<1>13. ASSUME StopThread PROVE Chosen'
  BY <1>13 DEF StopThread, Chosen, CellFound, Inserting
<1>14. ASSUME ResetAndBuild PROVE Chosen'
  BY <1>14 DEF ResetAndBuild, Chosen, CellFound, Inserting
<1>15. ASSUME NEW s \in Searchers, StartSearch(s) PROVE Chosen'
  BY <1>15 DEF StartSearch, Chosen, CellFound, Inserting
<1>16. ASSUME NEW s \in Searchers, EnterSearch(s) PROVE Chosen'
  BY <1>16 DEF EnterSearch, Chosen, CellFound, Inserting
<1>17. ASSUME NEW s \in Searchers, LeaveSearch(s) PROVE Chosen'
  BY <1>17 DEF LeaveSearch, Chosen, CellFound, Inserting
<1>18. ASSUME TakeRebuildPtr PROVE Chosen'
  BY <1>18 DEF TakeRebuildPtr, Chosen, CellFound, Inserting
<1>19. ASSUME Look PROVE Chosen'
  <2>1. ~errored' => ~errored
    BY <1>19 DEF Look
  <2> QED BY <1>19, <2>1 DEF Look, Chosen, CellFound, Inserting
<1>20. ASSUME Drain PROVE Chosen'
  BY <1>20 DEF Drain, Chosen, CellFound, Inserting
<1>21. ASSUME Copy PROVE Chosen'
  BY <1>21 DEF Copy, Chosen, CellFound, Inserting
<1>22. ASSUME Reopen PROVE Chosen'
  BY <1>22 DEF Reopen, Chosen, CellFound, Inserting
<1>23. ASSUME BuildTree PROVE Chosen'
  BY <1>23 DEF BuildTree, Chosen, CellFound, Inserting
<1>24. ASSUME Replay PROVE Chosen'
  BY <1>24 DEF Replay, Chosen, CellFound, Inserting
<1>25. ASSUME EndReplay PROVE Chosen'
  BY <1>25 DEF EndReplay, Chosen, CellFound, Inserting
<1>26. ASSUME Swap PROVE Chosen'
  <2>1. CASE errored
    BY <1>26, <2>1 DEF Swap, Chosen
  <2>2. CASE ~errored
    BY <1>26, <2>2, SwapKeepsTree DEF Swap, Chosen, CellFound, Inserting
  <2> QED BY <2>1, <2>2
<1>27. ASSUME ReopenAgain PROVE Chosen'
  BY <1>27 DEF ReopenAgain, Chosen, CellFound, Inserting
<1>28. ASSUME ClearFlag PROVE Chosen'
  BY <1>28 DEF ClearFlag, Chosen, CellFound, Inserting
<1>29. ASSUME Discard PROVE Chosen'
  BY <1>29 DEF Discard, Chosen, CellFound, Inserting
<1>30. ASSUME EndTurn PROVE Chosen'
  BY <1>30 DEF EndTurn, Chosen, CellFound, Inserting
<1>31. ASSUME NEW s \in Searchers, TestSon(s) PROVE Chosen'
  BY <1>31 DEF TestSon, Chosen, CellFound, Inserting
<1>32. ASSUME Rebuild PROVE Chosen'
  BY <1>32 DEF Rebuild, Chosen, CellFound, Inserting
<1>33. ASSUME ReachRoot PROVE Chosen'
  BY <1>33 DEF ReachRoot, Chosen, CellFound, Inserting
<1> QED
  BY <1>1, <1>2, <1>3, <1>4, <1>5, <1>6, <1>7, <1>8, <1>9, <1>10,
     <1>11, <1>12, <1>13, <1>14, <1>15, <1>16, <1>17, <1>18, <1>19, <1>20,
     <1>21, <1>22, <1>23, <1>24, <1>25, <1>26, <1>27, <1>28, <1>29, <1>30,
     <1>31, <1>32, <1>33
  DEF Next, Main, Search, Rebuilder

\* An abstract step or none, as the map and the requests are seen before and after.
Simulated == [Promised!Next]_(Promised!mapVars)

\* After ERROR!!! the points may change at any step.
LEMMA StraySimulated ==
  ASSUME errored, UNCHANGED <<Owed, main = "join", downsample, errored>>
  PROVE  Simulated
BY DEF Simulated, Promised!Next, Promised!Stray

\* PointMap's operators are this module's own.
LEMMA SameOperators ==
  ASSUME NEW c, NEW p, NEW S
  PROVE  /\ Promised!Plus(c, p) = Plus(c, p)
         /\ Promised!Inside(c, S) = Inside(c, S)
         /\ Promised!Outside(c, S) = Outside(c, S)
         /\ Promised!BoxOf(p) = BoxOf(p)
         /\ Promised!Nearest(c, p) = Nearest(c, p)
         /\ Promised!Wanted(c, p) <=> Wanted(c, p)
         /\ Promised!Scans = Scans
<1>1. Promised!Plus(c, p) = Plus(c, p)
  BY DEF Promised!Plus, Plus
<1>2. Promised!Inside(c, S) = Inside(c, S) /\ Promised!Outside(c, S) = Outside(c, S)
  BY DEF Promised!Inside, Inside, Promised!Outside, Outside
<1>3. Promised!BoxOf(p) = BoxOf(p)
  BY DEF Promised!BoxOf, BoxOf
<1>4. Promised!Nearest(c, p) = Nearest(c, p)
  BY DEF Promised!Nearest, Nearest
<1>5. Promised!Several(c) <=> Several(c)
  BY DEF Promised!Several, Several
<1>6. Promised!Wanted(c, p) <=> Wanted(c, p)
  BY <1>4, <1>5 DEF Promised!Wanted, Wanted
<1>7. Promised!Scans = Scans
  BY DEF Promised!Scans, Scans, Promised!NoPoints, NoPoints
<1> QED BY <1>1, <1>2, <1>3, <1>4, <1>6, <1>7

\* What the map has to be after p is added to it.
SeenAdded(p) ==
  Seen' = IF ~downsample THEN Plus(Seen, p)
          ELSE IF Wanted(Inside(Seen, BoxOf(p)), p)
               THEN Plus(Outside(Seen, BoxOf(p)), Nearest(Inside(Seen, BoxOf(p)), p))
               ELSE Seen

\* The point that is owed going in is a step of the abstract map.
LEMMA AddSimulated ==
  ASSUME Types, Owing, ~Owing', main' # "join", UNCHANGED <<downsample, errored>>,
         ~errored => SeenAdded(point)
  PROVE  Simulated
<1>1. PICK p \in Points : p = point
  BY DEF Types
<1>2. Owed = {p} /\ Owed' = {} /\ main # "join"
  BY <1>1 DEF Owed, Owing
<1>3. ~errored => Seen' = Promised!WithPoint(Seen, p)
  BY <1>1, SameOperators DEF SeenAdded, Promised!WithPoint
<1>4. Promised!AddPoint(p)
  BY <1>2, <1>3 DEF Promised!AddPoint
<1> QED BY <1>4 DEF Simulated, Promised!Next

\* Adding Result to what is left of its cell is what the abstract map does.
LEMMA ResultAdded ==
  ASSUME Types, Chosen, ~errored, main \in {"add", "lockAdd"}, Seen' = Plus(tree, Result)
  PROVE  SeenAdded(point)
<1>1. Seen = Joined(tree, found) /\ point \in Points
  BY DEF Seen, Types
<1>2. CASE ~downsample
  <2>1. found = NoPoints
    BY <1>2 DEF Chosen, Inserting
  <2>2. Result = point
    BY <2>1 DEF Result, Nearest, NoPoints
  <2>3. Seen = tree
    BY <1>1, <2>1, CellParts DEF Types
  <2> QED BY <1>2, <2>2, <2>3 DEF SeenAdded
<1>3. CASE downsample
  <2>1. CellFound
    BY <1>3 DEF Chosen, Inserting
  <2>2. Inside(Seen, BoxOf(point)) = found /\ Outside(Seen, BoxOf(point)) = tree
    BY <1>1, <2>1, CellJoined DEF CellFound, Types
  <2>3. Wanted(found, point)
    BY <2>1 DEF CellFound
  <2> QED BY <1>3, <2>2, <2>3 DEF SeenAdded, Result
<1> QED BY <1>2, <1>3

\* Deleting what was found in the cell is not to be seen.
LEMMA DeletionUnseen ==
  ASSUME Types, Chosen, ~errored, main \in {"delete", "lockDelete"}
  PROVE  Joined(Outside(tree, BoxOf(point)), found) = tree
<1>1. found = Inside(tree, BoxOf(point))
  BY DEF Chosen, CellFound, Inserting
<1> QED BY <1>1, JoinedParts DEF Types

\* Every step is a step of PointMap or leaves the map and the requests as they are seen.
LEMMA StepSimulated ==
  ASSUME Inv, Types, Ranging, Chosen, Next
  PROVE  Simulated
<1> USE DEF None, Goto, Call, mainVars, rebuildVars
<1>1. ASSUME NEW p \in Points, AddPoint(p) PROVE Simulated
  <2>1. Owed = {} /\ Owed' = {p} /\ Seen' = Seen /\ main # "join" /\ main' # "join"
    BY <1>1 DEF AddPoint, Owed, Owing, Seen
  <2>2. Promised!AskPoint(p)
    BY <1>1, <2>1 DEF AddPoint, Promised!AskPoint
  <2> QED BY <2>2 DEF Simulated, Promised!Next
<1>2. ASSUME EndRange PROVE Simulated
  BY <1>2 DEF EndRange, Simulated, Promised!mapVars, Seen, Owed, Owing
<1>3. ASSUME Insert PROVE Simulated
  <2>1. CASE main' = "idle"
    <3>1. downsample /\ ~Wanted(found, point) /\ Seen = tree /\ Seen' = tree
      BY <1>3, <2>1 DEF Insert, Seen
    <3>2. ~errored => SeenAdded(point)
      BY <1>3, <3>1 DEF Insert, SeenAdded, Chosen, CellFound, Inserting
    <3>3. Owing /\ ~Owing'
      BY <1>3, <2>1 DEF Insert, Owing
    <3> QED BY <1>3, <2>1, <3>2, <3>3, AddSimulated DEF Insert
  <2>2. CASE main' = "add"
    <3>1. found = NoPoints
      BY <1>3, <2>2 DEF Insert
    <3>2. Seen' = Seen
      BY <1>3, <2>2, <3>1, CellParts DEF Insert, Seen, Types
    <3> QED BY <1>3, <2>2, <3>2 DEF Insert, Owed, Owing, Simulated, Promised!mapVars
  <2>3. CASE main' \in {"lockRoot", "delete"}
    BY <1>3, <2>3 DEF Insert, Seen, Owed, Owing, Simulated, Promised!mapVars
  <2> QED BY <1>3, <2>1, <2>2, <2>3 DEF Insert
<1>4. ASSUME InsertLocked PROVE Simulated
  <2>1. Seen' = tree' /\ Seen = tree /\ Owing /\ ~Owing' /\ main' # "join"
    BY <1>4 DEF InsertLocked, Seen, Owing
  <2>2. ASSUME ~errored PROVE SeenAdded(point)
    <3>1. CASE ~downsample
      <4>1. found = NoPoints
        BY <1>4, <2>2, <3>1 DEF InsertLocked, Chosen, Inserting
      <4>2. Result = point
        BY <4>1 DEF Result, Nearest, NoPoints
      <4> QED BY <1>4, <2>1, <3>1, <4>1, <4>2 DEF InsertLocked, SeenAdded
    <3>2. CASE downsample
      <4>1. Inside(tree, BoxOf(point)) = found /\ Wanted(found, point)
        BY <1>4, <2>2, <3>2 DEF InsertLocked, Chosen, CellFound, Inserting
      <4>2. tree' = Plus(Outside(tree, BoxOf(point)), Result)
        BY <1>4, <4>1, CellParts DEF InsertLocked, Types
      <4> QED BY <2>1, <3>2, <4>1, <4>2 DEF SeenAdded, Result
    <3> QED BY <3>1, <3>2
  <2> QED BY <1>4, <2>1, <2>2, AddSimulated DEF InsertLocked
<1>5. ASSUME Delete PROVE Simulated
  <2>1. Owed' = Owed /\ UNCHANGED <<main = "join", downsample, errored>>
    BY <1>5 DEF Delete, Owed, Owing
  <2>2. CASE errored
    BY <2>1, <2>2, StraySimulated
  <2>3. CASE ~errored
    <3>1. Seen' = Seen
      BY <1>5, <2>3, DeletionUnseen DEF Delete, Seen
    <3> QED BY <2>1, <3>1 DEF Simulated, Promised!mapVars
  <2> QED BY <2>2, <2>3
<1>6. ASSUME DeleteLocked PROVE Simulated
  <2>1. Owed' = Owed /\ UNCHANGED <<main = "join", downsample, errored>>
    BY <1>6 DEF DeleteLocked, Owed, Owing
  <2>2. CASE errored
    BY <2>1, <2>2, StraySimulated
  <2>3. CASE ~errored
    <3>1. Seen' = Seen
      BY <1>6, <2>3, DeletionUnseen DEF DeleteLocked, Seen
    <3> QED BY <2>1, <3>1 DEF Simulated, Promised!mapVars
  <2> QED BY <2>2, <2>3
<1>7. ASSUME Add PROVE Simulated
  <2>1. CASE Reaches({Result})
    BY <1>7, <2>1 DEF Add, Seen, Owed, Owing, Simulated, Promised!mapVars
  <2>2. CASE ~Reaches({Result})
    <3>1. Seen' = Plus(tree, Result) /\ Owing /\ ~Owing' /\ main' # "join"
      BY <1>7, <2>2 DEF Add, Seen, Owing
    <3>2. ~errored => SeenAdded(point)
      BY <1>7, <3>1, ResultAdded DEF Add
    <3> QED BY <1>7, <3>1, <3>2, AddSimulated DEF Add
  <2> QED BY <2>1, <2>2
<1>8. ASSUME AddLocked PROVE Simulated
  <2>1. Seen' = Plus(tree, Result) /\ Owing /\ ~Owing' /\ main' # "join"
    BY <1>8 DEF AddLocked, Seen, Owing
  <2>2. ~errored => SeenAdded(point)
    BY <1>8, <2>1, ResultAdded DEF AddLocked
  <2> QED BY <1>8, <2>1, <2>2, AddSimulated DEF AddLocked
<1>9. ASSUME StartUpdate PROVE Simulated
  BY <1>9 DEF StartUpdate, Simulated, Promised!mapVars, Seen, Owed, Owing
<1>10. ASSUME EndUpdate PROVE Simulated
  BY <1>10 DEF EndUpdate, Simulated, Promised!mapVars, Seen, Owed, Owing
<1>11. ASSUME StartFlatten PROVE Simulated
  BY <1>11 DEF StartFlatten, Simulated, Promised!mapVars, Seen, Owed, Owing
<1>12. ASSUME EndFlatten PROVE Simulated
  BY <1>12 DEF EndFlatten, Simulated, Promised!mapVars, Seen, Owed, Owing
<1>13. ASSUME StopThread PROVE Simulated
  <2>1. Owed = {} /\ Owed' = {} /\ Seen' = Seen /\ main # "join" /\ main' = "join"
    BY <1>13 DEF StopThread, Owed, Owing, Seen
  <2>2. Promised!AskMap
    BY <1>13, <2>1 DEF StopThread, Promised!AskMap
  <2> QED BY <2>2 DEF Simulated, Promised!Next
<1>14. ASSUME ResetAndBuild PROVE Simulated
  <2>1. Owed' = Owed /\ Seen' = tree' /\ main = "join" /\ main' = "idle"
    BY <1>14 DEF ResetAndBuild, Owed, Owing, Seen
  <2>2. Seen' \in Promised!Scans /\ (~errored)' = TRUE /\ downsample' = downsample
    BY <1>14, <2>1, SameOperators DEF ResetAndBuild
  <2>3. Promised!Build
    BY <2>1, <2>2 DEF Promised!Build
  <2> QED BY <2>3 DEF Simulated, Promised!Next
<1>15. ASSUME NEW s \in Searchers, StartSearch(s) PROVE Simulated
  BY <1>15 DEF StartSearch, Simulated, Promised!mapVars, Seen, Owed, Owing
<1>16. ASSUME NEW s \in Searchers, EnterSearch(s) PROVE Simulated
  BY <1>16 DEF EnterSearch, Simulated, Promised!mapVars, Seen, Owed, Owing
<1>17. ASSUME NEW s \in Searchers, LeaveSearch(s) PROVE Simulated
  BY <1>17 DEF LeaveSearch, Simulated, Promised!mapVars, Seen, Owed, Owing
<1>18. ASSUME TakeRebuildPtr PROVE Simulated
  BY <1>18 DEF TakeRebuildPtr, Simulated, Promised!mapVars, Seen, Owed, Owing
<1>19. ASSUME Look PROVE Simulated
  <2>1. UNCHANGED <<Seen, Owed, main = "join", downsample>>
    BY <1>19 DEF Look, Seen, Owed, Owing
  <2>2. CASE errored' = errored
    BY <2>1, <2>2 DEF Simulated, Promised!mapVars
  <2>3. CASE errored' # errored
    <3>1. (~errored)' = FALSE
      BY <1>19, <2>3 DEF Look, Types
    <3>2. Promised!Lose
      BY <2>1, <3>1 DEF Promised!Lose
    <3> QED BY <3>2 DEF Simulated, Promised!Next
  <2> QED BY <2>2, <2>3
<1>20. ASSUME Drain PROVE Simulated
  BY <1>20 DEF Drain, Simulated, Promised!mapVars, Seen, Owed, Owing
<1>21. ASSUME Copy PROVE Simulated
  BY <1>21 DEF Copy, Simulated, Promised!mapVars, Seen, Owed, Owing
<1>22. ASSUME Reopen PROVE Simulated
  BY <1>22 DEF Reopen, Simulated, Promised!mapVars, Seen, Owed, Owing
<1>23. ASSUME BuildTree PROVE Simulated
  BY <1>23 DEF BuildTree, Simulated, Promised!mapVars, Seen, Owed, Owing
<1>24. ASSUME Replay PROVE Simulated
  BY <1>24 DEF Replay, Simulated, Promised!mapVars, Seen, Owed, Owing
<1>25. ASSUME EndReplay PROVE Simulated
  BY <1>25 DEF EndReplay, Simulated, Promised!mapVars, Seen, Owed, Owing
<1>26. ASSUME Swap PROVE Simulated
  <2>1. UNCHANGED <<Owed, main = "join", downsample, errored>>
    BY <1>26 DEF Swap, Owed, Owing
  <2>2. CASE errored
    BY <2>1, <2>2, StraySimulated
  <2>3. CASE ~errored
    BY <1>26, <2>1, <2>3, SwapKeepsTree DEF Swap, Simulated, Promised!mapVars, Seen
  <2> QED BY <2>2, <2>3
<1>27. ASSUME ReopenAgain PROVE Simulated
  BY <1>27 DEF ReopenAgain, Simulated, Promised!mapVars, Seen, Owed, Owing
<1>28. ASSUME ClearFlag PROVE Simulated
  BY <1>28 DEF ClearFlag, Simulated, Promised!mapVars, Seen, Owed, Owing
<1>29. ASSUME Discard PROVE Simulated
  BY <1>29 DEF Discard, Simulated, Promised!mapVars, Seen, Owed, Owing
<1>30. ASSUME EndTurn PROVE Simulated
  BY <1>30 DEF EndTurn, Simulated, Promised!mapVars, Seen, Owed, Owing
<1>31. ASSUME NEW s \in Searchers, TestSon(s) PROVE Simulated
  BY <1>31 DEF TestSon, Simulated, Promised!mapVars, Seen, Owed, Owing
<1>32. ASSUME Rebuild PROVE Simulated
  BY <1>32 DEF Rebuild, Simulated, Promised!mapVars, Seen, Owed, Owing
<1>33. ASSUME ReachRoot PROVE Simulated
  BY <1>33 DEF ReachRoot, Simulated, Promised!mapVars, Seen, Owed, Owing
<1> QED
  BY <1>1, <1>2, <1>3, <1>4, <1>5, <1>6, <1>7, <1>8, <1>9, <1>10,
     <1>11, <1>12, <1>13, <1>14, <1>15, <1>16, <1>17, <1>18, <1>19, <1>20,
     <1>21, <1>22, <1>23, <1>24, <1>25, <1>26, <1>27, <1>28, <1>29, <1>30,
     <1>31, <1>32, <1>33
  DEF Next, Main, Search, Rebuilder

\* The tree with its two threads implements a map that answers its user's requests one by one:
\* every point asked for is added once, a new map comes only when it was asked for, and in
\* between nothing is lost, repeated or brought back (until ERROR!!! is printed).
THEOREM TreeImplementsMap == Spec => PromisedSpec
<1> DEFINE I == Inv /\ Ranging /\ Chosen
<1>1. Init => I /\ Promised!Init
  <2> SUFFICES ASSUME Init PROVE I /\ Promised!Init
    OBVIOUS
  <2>1. Inv
    BY InitInv
  <2>2. Ranging /\ Chosen
    BY DEF Init, Ranging, Chosen, Inserting
  <2>3. Promised!Init
    <3>1. Seen \in Promised!Scans
      BY SameOperators DEF Init, Seen
    <3>2. main = "idle" /\ errored = FALSE /\ downsample \in BOOLEAN /\ Owed = {}
      BY DEF Init, Owed, Owing
    <3> QED BY <3>1, <3>2 DEF Promised!Init
  <2> QED BY <2>1, <2>2, <2>3
<1>2. I /\ [Next]_vars => I' /\ Simulated
  <2> SUFFICES ASSUME I, [Next]_vars PROVE I' /\ Simulated
    OBVIOUS
  <2>1. Types /\ Inv'
    BY InvStep DEF Inv
  <2>2. CASE Next
    BY <2>1, <2>2, RangingStep, ChosenStep, StepSimulated
  <2>3. CASE UNCHANGED vars
    BY <2>1, <2>3 DEF vars, Ranging, Chosen, CellFound, Inserting, Simulated, Promised!mapVars,
                      Seen, Owed, Owing
  <2> QED BY <2>2, <2>3
<1> QED BY <1>1, <1>2, PTL DEF Spec, PromisedSpec, Promised!Spec, Simulated

=============================================================================
