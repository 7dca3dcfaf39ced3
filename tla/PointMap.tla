------------------------------ MODULE PointMap ------------------------------
(***************************************************************************)
(* What the LiDAR map promises to its single user.  The user asks for one  *)
(* point to be added, or for the map to be built from a new scan; each     *)
(* request is answered by one change of the map, the one that was asked    *)
(* for, and between requests the map does not change.  Whatever a second   *)
(* thread does is not to be seen.  IkdTree implements it, until the        *)
(* program prints its ERROR!!! (intact = FALSE): from there on the points  *)
(* are anybody's guess, until the map is built anew.                       *)
(***************************************************************************)
EXTENDS Cloud

VARIABLES
  map,          (* the points of the map                                   *)
  owed,         (* the point asked for and not yet added, if any           *)
  building,     (* a new map has been asked for                            *)
  downsample,   (* map_do_downsample                                       *)
  intact        (* no ERROR!!! since the map was built                     *)

mapVars == <<map, owed, building, downsample, intact>>

Init ==
  /\ map \in Scans
  /\ owed = {}
  /\ building = FALSE
  /\ downsample \in BOOLEAN
  /\ intact = TRUE

\* The map c after p has been added to it.
WithPoint(c, p) ==
  LET cell == Inside(c, BoxOf(p)) IN
  IF ~downsample THEN Plus(c, p)
  ELSE IF Wanted(cell, p) THEN Plus(Outside(c, BoxOf(p)), Nearest(cell, p))
  ELSE c

AskPoint(p) ==
  /\ owed = {} /\ ~building
  /\ owed' = {p}
  /\ UNCHANGED <<map, building, downsample, intact>>

AddPoint(p) ==
  /\ owed = {p}
  /\ owed' = {}
  /\ intact => map' = WithPoint(map, p)
  /\ UNCHANGED <<building, downsample, intact>>

AskMap ==
  /\ owed = {} /\ ~building
  /\ building' = TRUE
  /\ UNCHANGED <<map, owed, downsample, intact>>

Build ==
  /\ building
  /\ building' = FALSE
  /\ map' \in Scans
  /\ intact' = TRUE
  /\ UNCHANGED <<owed, downsample>>

Lose ==
  /\ intact' = FALSE
  /\ UNCHANGED <<map, owed, building, downsample>>

\* A map that is not intact may change at any time; requests are answered still.
Stray ==
  /\ ~intact
  /\ UNCHANGED <<owed, building, downsample, intact>>

Next ==
  \/ \E p \in Points : AskPoint(p) \/ AddPoint(p)
  \/ AskMap \/ Build \/ Lose \/ Stray

Spec == Init /\ [][Next]_mapVars
=============================================================================
