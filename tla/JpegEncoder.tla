------------------------------ MODULE JpegEncoder ------------------------------
(***************************************************************************)
(* What MppJpegEncoder (src/src/hw/mpp_jpeg.hpp) promises its callers:     *)
(* encode() takes an image and returns the JPEG of that image, or nothing. *)
(* There is no hardware here, no shared buffer and no queue.               *)
(***************************************************************************)
CONSTANTS
  Callers,    (* the threads that call encode                              *)
  Images,     (* the images they pass                                      *)
  Nothing     (* std::nullopt                                              *)

VARIABLES
  busy,       (* the callers inside encode                                 *)
  input,      (* per caller: the image of its last call                    *)
  out         (* per caller: what its last call returned                   *)

vars == <<busy, input, out>>

(* The encoded form of an image has two halves, as its raw form has.       *)
Jpeg(img) == <<img, img>>

Init ==
  /\ busy = {}
  /\ input \in [Callers -> Images]
  /\ out = [c \in Callers |-> Nothing]

Call(c, img) ==
  /\ c \notin busy
  /\ busy' = busy \cup {c}
  /\ input' = [input EXCEPT ![c] = img]
  /\ out' = [out EXCEPT ![c] = Nothing]

Return(c) ==
  /\ c \in busy
  /\ busy' = busy \ {c}
  /\ \E r \in {Nothing, Jpeg(input[c])} : out' = [out EXCEPT ![c] = r]
  /\ UNCHANGED input

Next ==
  \E c \in Callers : (\E img \in Images : Call(c, img)) \/ Return(c)

Spec == Init /\ [][Next]_vars
================================================================================
