------------------------------ MODULE MCMppJpeg -------------------------------
(* Model checking MppJpeg; the constants get their values in the           *)
(* configurations.                                                         *)
EXTENDS MppJpeg
================================================================================
