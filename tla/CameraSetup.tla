------------------------------ MODULE CameraSetup ------------------------------
(***************************************************************************)
(* camera_open and camera_alloc_bufs of src/src/main.cpp, and the          *)
(* camera_close that undoes them, whichever of their calls fails.          *)
(*                                                                         *)
(* The V4L2 driver is external.  It knows some pixel formats, and treats   *)
(* VIDIOC_S_FMT with any other in one of two ways: it refuses, or it       *)
(* succeeds with a format it knows written over the one asked for.         *)
(***************************************************************************)
EXTENDS Naturals, Sequences, SequencesExt

CONSTANTS
  Formats,    (* the pixel formats there are                               *)
  fmt_prefs,  (* those the program asks for, in order: NV12, NV16, BGR24   *)
  NoFormat,   (* pixfmt before a format is set                             *)
  MaxBufs     (* bound: how many buffers VIDIOC_REQBUFS can grant          *)

ASSUME SetupAssumption ==
  /\ fmt_prefs \in Seq(Formats)
  /\ NoFormat \notin Formats
  /\ MaxBufs \in Nat

VARIABLES
  supported,   (* the formats the driver knows                             *)
  substitutes, (* the driver never refuses a format                        *)
  at,          (* the next call                                            *)
  fd,          (* the device is open                                       *)
  tried,       (* how many preferred formats have been tried               *)
  pixfmt,      (* cam.pixfmt                                               *)
  ptrs,        (* cam.bufs: "null", "mapped" or "MAP_FAILED" for each      *)
  mappings     (* the buffers that are mapped into the process             *)

driverVars == <<supported, substitutes>>
vars == <<driverVars, at, fd, tried, pixfmt, ptrs, mappings>>

Init ==
  /\ supported \in SUBSET Formats \ {{}}
  /\ substitutes \in BOOLEAN
  /\ at = "open"
  /\ fd = FALSE
  /\ tried = 0
  /\ pixfmt = NoFormat
  /\ ptrs = <<>>
  /\ mappings = {}

--------------------------------------------------------------------------------
(* camera_open                                                             *)

OpenDevice ==
  /\ at = "open"
  /\ \/ at' = "cap" /\ fd' = TRUE
     \/ at' = "fail" /\ UNCHANGED fd
  /\ UNCHANGED <<driverVars, tried, pixfmt, ptrs, mappings>>

(* VIDIOC_QUERYCAP fails, or CAPTURE_MPLANE or STREAMING is missing.       *)
QueryCap ==
  /\ at = "cap"
  /\ at' \in {"format", "fail"}
  /\ UNCHANGED <<driverVars, fd, tried, pixfmt, ptrs, mappings>>

(* VIDIOC_S_FMT succeeds: pixfmt is what the driver has left in fmt.       *)
SetFormat ==
  /\ at = "format"
  /\ tried < Len(fmt_prefs)
  /\ LET pref == fmt_prefs[tried + 1] IN
       IF pref \in supported THEN pixfmt' = pref
       ELSE substitutes /\ pixfmt' \in supported
  /\ at' = "reqbufs"
  /\ UNCHANGED <<driverVars, fd, tried, ptrs, mappings>>

(* A mistake to be caught: one format more than there are is tried.        *)
FormatRefusedOffByOne ==
  /\ at = "format"
  /\ tried <= Len(fmt_prefs)
  /\ tried' = tried + 1
  /\ UNCHANGED <<driverVars, at, fd, pixfmt, ptrs, mappings>>

(* VIDIOC_S_FMT fails: the format is refused, or the device is busy.       *)
FormatRefused ==
  /\ at = "format"
  /\ tried < Len(fmt_prefs)
  /\ tried' = tried + 1
  /\ UNCHANGED <<driverVars, at, fd, pixfmt, ptrs, mappings>>

FormatsExhausted ==
  /\ at = "format"
  /\ tried = Len(fmt_prefs)
  /\ at' = "fail"
  /\ UNCHANGED <<driverVars, fd, tried, pixfmt, ptrs, mappings>>

--------------------------------------------------------------------------------
(* camera_alloc_bufs                                                       *)

(* VIDIOC_REQBUFS fails, or leaves in req.count how many buffers it has    *)
(* granted.  The count is not looked at: with 0 the loop has no round and  *)
(* the set-up succeeds.                                                    *)
RequestBufs ==
  /\ at = "reqbufs"
  /\ \/ \E count \in 0 .. MaxBufs :
          /\ ptrs' = [i \in 1 .. count |-> "null"]
          /\ at' = IF count = 0 THEN "ready" ELSE "map"
     \/ at' = "fail" /\ UNCHANGED ptrs
  /\ UNCHANGED <<driverVars, fd, tried, pixfmt, mappings>>

(* The buffer that the loop has come to: the first without a pointer.      *)
IsNext(i) ==
  /\ i \in DOMAIN ptrs
  /\ \A j \in DOMAIN ptrs : ptrs[j] = "null" <=> j >= i

MapBuf ==
  /\ at = "map"
  /\ \E i \in DOMAIN ptrs :
       /\ IsNext(i)
       /\ ptrs' = [ptrs EXCEPT ![i] = "mapped"]
       /\ mappings' = mappings \cup {i}
       /\ at' = IF i = Len(ptrs) THEN "ready" ELSE "map"
  /\ UNCHANGED <<driverVars, fd, tried, pixfmt>>

(* A mistake to be caught: what mmap returns is not compared.              *)
MapFailsUnnoticed ==
  /\ at = "map"
  /\ \E i \in DOMAIN ptrs :
       /\ IsNext(i)
       /\ ptrs' = [ptrs EXCEPT ![i] = "MAP_FAILED"]
       /\ at' = IF i = Len(ptrs) THEN "ready" ELSE "map"
  /\ UNCHANGED <<driverVars, fd, tried, pixfmt, mappings>>

(* VIDIOC_QUERYBUF fails and the pointer stays null, or mmap fails and the *)
(* pointer is MAP_FAILED.                                                  *)
MapFails ==
  /\ at = "map"
  /\ \E i \in DOMAIN ptrs :
       /\ IsNext(i)
       /\ \E p \in {"null", "MAP_FAILED"} : ptrs' = [ptrs EXCEPT ![i] = p]
  /\ at' = "fail"
  /\ UNCHANGED <<driverVars, fd, tried, pixfmt, mappings>>

--------------------------------------------------------------------------------
(* A mistake to be caught: the loop over bufs ends one too early.          *)
CameraCloseOffByOne ==
  /\ at \in {"fail", "ready"}
  /\ at' = "closed"
  /\ mappings' = mappings \ {i \in DOMAIN ptrs : ptrs[i] # "null" /\ i < Len(ptrs)}
  /\ fd' = FALSE
  /\ pixfmt' = NoFormat
  /\ ptrs' = <<>>
  /\ UNCHANGED <<driverVars, tried>>

(* camera_close: munmap of every pointer that is not null (of MAP_FAILED   *)
(* it does nothing), close, and cam = {}.  main calls it when the set-up   *)
(* failed and once more on each of its later exits.                        *)
CameraClose ==
  /\ at \in {"fail", "ready"}
  /\ at' = "closed"
  /\ mappings' = mappings \ {i \in DOMAIN ptrs : ptrs[i] # "null"}
  /\ fd' = FALSE
  /\ pixfmt' = NoFormat
  /\ ptrs' = <<>>
  /\ UNCHANGED <<driverVars, tried>>

Ended == at = "closed" /\ UNCHANGED vars

(* camera_open && camera_alloc_bufs                                        *)
OpenAndAlloc ==
  \/ OpenDevice \/ QueryCap \/ SetFormat \/ FormatRefused \/ FormatsExhausted
  \/ RequestBufs \/ MapBuf \/ MapFails

Next == OpenAndAlloc \/ CameraClose \/ Ended

Spec == Init /\ [][Next]_vars

--------------------------------------------------------------------------------
(* Every variable has its type.                                            *)
TypeOK ==
  /\ supported \in SUBSET Formats
  /\ substitutes \in BOOLEAN
  /\ at \in {"open", "cap", "format", "reqbufs", "map", "ready", "fail", "closed"}
  /\ fd \in BOOLEAN
  /\ tried \in 0 .. Len(fmt_prefs)
  /\ pixfmt \in Formats \cup {NoFormat}
  /\ ptrs \in Seq({"null", "mapped", "MAP_FAILED"})
  /\ mappings \subseteq 1 .. MaxBufs

(* Whichever call failed, camera_close leaves no mapping and no open       *)
(* device behind.                                                          *)
NothingLeaks == at = "closed" => mappings = {} /\ ~fd

(* A camera that was set up has a format the driver knows and a mapped     *)
(* pointer for every index that DQBUF can return; there may be none.       *)
ReadyIsUsable ==
  at = "ready" =>
    /\ fd
    /\ pixfmt \in supported
    /\ mappings = DOMAIN ptrs
    /\ \A i \in DOMAIN ptrs : ptrs[i] = "mapped"

(* The format is one of those the README names, NV12, NV16 and BGR24;      *)
(* with none of them the program does not go on.                           *)
FormatIsPreferred == at = "ready" => pixfmt \in ToSet(fmt_prefs)
================================================================================
