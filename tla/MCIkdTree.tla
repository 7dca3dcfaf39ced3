----------------------------- MODULE MCIkdTree -----------------------------
(* Instance of IkdTree for TLC: two cells, one of them with two points; a  *)
(* subtree that cuts the first cell in two, one beside it, and the root.   *)
EXTENDS IkdTree

CONSTANTS p1, p2, p3, s1, s2

MCPoints    == {p1, p2, p3}
MCBox       == [p \in MCPoints |-> IF p = p3 THEN 2 ELSE 1]
MCDist      == [p \in MCPoints |-> IF p = p1 THEN 1 ELSE 2]
MCRegions   == {{p1}, {p3}, MCPoints}
MCSearchers == {s1, s2}
=============================================================================
