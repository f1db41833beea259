------------------------------- MODULE FrameSaver -------------------------------
(***************************************************************************)
(* What process_frame of src/src/main.cpp keeps for the process thread:    *)
(* called with an image and the path of a file that is not there, it       *)
(* returns TRUE with that image in that file, or FALSE without a file.     *)
(* Only of a frame that is not sound can the file show something else.     *)
(*                                                                         *)
(* There is no conversion, encoder or status here, and no file before the  *)
(* call returns.  It is not promised that the file is whole: whether it    *)
(* could be written is not looked at.                                      *)
(***************************************************************************)
CONSTANTS
  Paths,      (* the files frame_<n>.jpg                                   *)
  Images,     (* what the camera can show                                  *)
  Wrong,      (* what a file can show that is no image of the camera       *)
  Absent,     (* no such file                                              *)
  Truncated   (* a file that does not hold the whole of a JPEG             *)

VARIABLES
  busy,       (* whether the call is under way                             *)
  path,       (* the path it was given last                                *)
  image,      (* the image it was given last                               *)
  sound,      (* the frame had the bytes it needs, and no failure of its   *)
              (* conversion has passed for a success                       *)
  result,     (* what it returned last                                     *)
  files       (* what is stored under each path                            *)

vars == <<busy, path, image, sound, result, files>>

Init ==
  /\ busy = FALSE
  /\ path \in Paths
  /\ image \in Images
  /\ sound \in BOOLEAN
  /\ result = FALSE
  /\ files = [p \in Paths |-> Absent]

Call ==
  /\ ~busy
  /\ busy' = TRUE
  /\ path' \in {p \in Paths : files[p] = Absent}
  /\ image' \in Images
  /\ sound' \in BOOLEAN
  /\ UNCHANGED <<result, files>>

Spoil ==
  /\ busy /\ sound
  /\ sound' = FALSE
  /\ UNCHANGED <<busy, path, image, result, files>>

Return(r) ==
  /\ busy
  /\ busy' = FALSE
  /\ result' = r
  /\ UNCHANGED <<path, image, sound>>

Save ==
  /\ Return(TRUE)
  /\ \E c \in {image, Truncated} \cup (IF sound THEN {} ELSE Wrong) :
       files' = [files EXCEPT ![path] = c]

GiveUp ==
  /\ Return(FALSE)
  /\ UNCHANGED files

Next == Call \/ Spoil \/ Save \/ GiveUp

Spec == Init /\ [][Next]_vars
================================================================================
