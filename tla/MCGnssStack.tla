----------------------------- MODULE MCGnssStack -----------------------------
(* Instances of GnssStack for TLC: a period is 3 ticks. *)
EXTENDS GnssStack

MCImuStamps == {0, 3, 6, 9, 12}
MCSensorStamps == {1, 4, 8}
MCOffsets == {0, 1}
MCPeriods == {3}
NoGroundTruth == {}
=============================================================================
