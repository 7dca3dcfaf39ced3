----------------------------- MODULE MCCpiWindow -----------------------------
(* Instances of CpiWindow for TLC. *)
EXTENDS CpiWindow

\* An IMU reading every few ticks, measurements between them; a period is 5 ticks.
MCImuStamps == {0, 2, 4, 7, 10, 15}
MCSensorStamps == {6, 9}
MCOffsets == {0}
MCPeriods == {5}
NoGroundTruth == {}
=============================================================================
