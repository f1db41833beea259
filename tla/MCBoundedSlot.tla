----------------------------- MODULE MCBoundedSlot -----------------------------
(* Model checking BoundedSlot with its most general client; the constants  *)
(* get their values in the configuration.                                  *)
EXTENDS BoundedSlot
================================================================================
