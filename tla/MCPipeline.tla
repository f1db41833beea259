------------------------------ MODULE MCPipeline -------------------------------
(* Model checking Pipeline: the frame counts that matter.                  *)
EXTENDS Pipeline

(* Negative, none, one, and enough to fill the slot and both threads.           *)
MCFrameCounts == {-1, 0, 1, 4}
================================================================================
