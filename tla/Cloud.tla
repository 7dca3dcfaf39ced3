------------------------------- MODULE Cloud -------------------------------
(***************************************************************************)
(* Point clouds as the k-d tree of a LiDAR map holds them: how often each  *)
(* point occurs, and the downsampling of Add_Points that keeps one point   *)
(* per cell of a grid.  Coordinates are left out: a point lies in a cell,  *)
(* at some distance from the middle of it.                                 *)
(***************************************************************************)
EXTENDS Naturals, FiniteSets, FiniteSetsExt

CONSTANTS
  Points,   (* points that ever occur                                      *)
  Box,      (* the downsample cell of a point (Box_of_Point)               *)
  Dist      (* its distance from the middle of that cell (mid_point)       *)

ASSUME CloudAssumption ==
  /\ IsFiniteSet(Points) /\ Points # {}
  /\ Dist \in [Points -> Nat]

Clouds == [Points -> Nat]

\* What Build is given, and what InitTreeNode starts from.
NoPoints == [p \in Points |-> 0]
Scans    == [Points -> 0 .. 1] \ {NoPoints}

BoxOf(p) == {q \in Points : Box[q] = Box[p]}

\* The part of a cloud inside S, and the part outside it.
Inside(c, S)  == [p \in Points |-> IF p \in S THEN c[p] ELSE 0]
Outside(c, S) == [p \in Points |-> IF p \in S THEN 0 ELSE c[p]]

\* Two clouds together; a cloud with one more point.
Joined(c, d) == [p \in Points |-> c[p] + d[p]]
Plus(c, p)   == [c EXCEPT ![p] = @ + 1]

(***************************************************************************)
(* Downsample_Storage.size() > 1: more than one point in the cloud.        *)
(***************************************************************************)
Several(c) == \/ \E p \in Points : c[p] > 1
              \/ \E p, q \in Points : p # q /\ c[p] > 0 /\ c[q] > 0

(***************************************************************************)
(* downsample_result: the new point p unless a point found in the cell is  *)
(* strictly nearer to the middle; among those the first nearest one.       *)
(***************************************************************************)
Nearest(found, p) ==
  IF \A q \in Points : found[q] > 0 => Dist[q] >= Dist[p]
  THEN p
  ELSE CHOOSE q \in Points :
         /\ found[q] > 0
         /\ \A r \in Points : found[r] > 0 => Dist[q] <= Dist[r]

\* Whether Add_Points changes the map for p, given what the cell holds.
Wanted(found, p) == Several(found) \/ Nearest(found, p) = p
=============================================================================
