--------------------------- MODULE MCFrameProcessing ---------------------------
(* Model checking FrameProcessing; the sets of status codes.               *)
EXTENDS FrameProcessing

(* Every IM_STATUS but IM_STATUS_FAILED, which is 0.                       *)
NegativeFailures == IM_STATUS \ {IM_STATUS_FAILED}
================================================================================
