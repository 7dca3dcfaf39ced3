------------------------- MODULE MCInterpolationCache -------------------------
(* Instances of InterpolationCache for TLC: a period is 2 ticks. *)
EXTENDS InterpolationCache

MCImuStamps == {0, 2, 4, 6, 8, 10, 12}
MCSensorStamps == {3, 9}
MCOffsets == {0}
MCPeriods == {2}
NoGroundTruth == {}
=============================================================================
