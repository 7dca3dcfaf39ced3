---------------------------- MODULE MCLidarMap ----------------------------
(* Instances of LidarMap for TLC: a clone period is 3 ticks, no wheels. *)
EXTENDS LidarMap

MCImuStamps == {0, 3, 9, 12, 15}
MCSensorStamps == {2, 8, 14}
MCOffsets == {0, 1}
MCPeriods == {3}
NoGroundTruth == {}
=============================================================================
