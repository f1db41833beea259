-------------------------------- MODULE Recorder --------------------------------
(***************************************************************************)
(* What the program of src/src/main.cpp promises to whoever starts it: up  *)
(* to as many images of the camera as were wanted are taken, each is       *)
(* worked on once, in order, and saved under its own number or not at all, *)
(* and the program ends only when that is done with all of them.           *)
(*                                                                         *)
(* There are no threads, slot, buffers or driver here.  The program works  *)
(* on several frames at a time, but on no more than a few.                 *)
(***************************************************************************)
EXTENDS Integers, Sequences

CONSTANTS
  Wants,      (* how many images can be asked for                          *)
  Images,     (* what the camera can show                                  *)
  InFlight    (* how many frames can be taken and not yet worked on        *)

VARIABLES
  wanted,     (* how many images were asked for                            *)
  taken,      (* the images taken, in order                                *)
  finished,   (* how many of them have been worked on                      *)
  saved,      (* the image saved under each number, from 0                 *)
  ended       (* the program has stopped the camera                        *)

vars == <<wanted, taken, finished, saved, ended>>

Init ==
  /\ wanted \in Wants
  /\ taken = <<>>
  /\ finished = 0
  /\ saved = <<>>
  /\ ended = FALSE

Take(image) ==
  /\ ~ended
  /\ Len(taken) < wanted
  /\ Len(taken) - finished < InFlight
  /\ taken' = Append(taken, image)
  /\ UNCHANGED <<wanted, finished, saved, ended>>

Finish ==
  /\ ~ended
  /\ finished < Len(taken)
  /\ finished' = finished + 1
  /\ UNCHANGED <<wanted, taken, ended>>

(* The next image is saved under its number.                               *)
Save ==
  /\ Finish
  /\ saved' = [n \in DOMAIN saved \cup {finished} |->
                 IF n = finished THEN taken[finished + 1] ELSE saved[n]]

(* A stage of the work has failed, and the image is passed over.           *)
Skip ==
  /\ Finish
  /\ UNCHANGED saved

(* The camera may fail, and the program end, before all were taken.        *)
End ==
  /\ ~ended
  /\ finished = Len(taken)
  /\ ended' = TRUE
  /\ UNCHANGED <<wanted, taken, finished, saved>>

Next == (\E image \in Images : Take(image)) \/ Save \/ Skip \/ End

Spec == Init /\ [][Next]_vars
================================================================================
