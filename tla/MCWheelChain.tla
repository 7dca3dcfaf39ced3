---------------------------- MODULE MCWheelChain ----------------------------
(* Instances of WheelChain for TLC: a clone period is 4 ticks. *)
EXTENDS WheelChain

MCImuStamps == {0, 2, 4, 6, 10}
MCSensorStamps == {3}
MCWheelStamps == {0, 3, 7, 9}
MCOffsets == {0, 1}
MCPeriods == {4}
NoGroundTruth == {}
=============================================================================
