--------------------------- MODULE MCSlidingWindow ---------------------------
(* Instances of SlidingWindow for TLC: a tick is a tenth of a clone period. *)
EXTENDS SlidingWindow

\* Sparse stamps, so that a period is long enough (10 ticks) for the 10% slack to bite.
MCImuStamps == {0, 4, 10, 19, 40, 41}
MCSensorStamps == {9, 14, 19}
MCOffsets == {0, 1}
MCPeriods == {5, 10}

\* Ground truth stamps for the run with init->use_gt.
NoGroundTruth == {}
MCGtStamps == {3, 8}
=============================================================================
