---------------------------- MODULE MCLatencyStats -----------------------------
(* Model checking LatencyStats, and FrameProcessing under it.              *)
EXTENDS LatencyStats

(* A success, a failure that is negative, and the one that is not.         *)
MCStatuses == {IM_STATUS_SUCCESS, -1, IM_STATUS_FAILED}
================================================================================
