-------------------------------- MODULE Session --------------------------------
(***************************************************************************)
(* The whole of main in src/src/main.cpp, from its arguments to its exit   *)
(* code, as a ledger of what it acquires: the camera (CameraSetup), the    *)
(* libraries (DynLoader), the encoder (MppJpeg) and two threads.           *)
(*                                                                         *)
(* Pipeline has the threads with the slot and the driver in full; here the *)
(* slot is the atomic channel it was shown to be, and of a frame only      *)
(* counts whether it was taken and whether it was handled.  The encoder    *)
(* and the libraries are in full, since the process thread and main share  *)
(* them.                                                                   *)
(***************************************************************************)
EXTENDS Integers, FiniteSets, DynLoader

CONSTANTS
  Formats, fmt_prefs, NoFormat, MaxBufs,   (* see CameraSetup              *)
  Images, Nothing, Depth, GetMayGiveUp,    (* see MppJpeg                  *)
  FrameCounts                              (* what atoi can make of argv[4] *)

VARIABLES
  supported, substitutes, camAt, fd, preferred, pixfmt, ptrs, mappings,
  encAt, held, configured, pc, input, frames, pkt, out, in_ptr, pending, results,
  n_frames,   (* argv[4]                                                   *)
  mainAt,     (* where main is                                             *)
  streaming,  (* between VIDIOC_STREAMON and the end of the stream         *)
  captureAt,  (* where the capture thread is                               *)
  processAt,  (* where the process thread is                               *)
  slot,       (* the slot: whether there is an item, and closed            *)
  taken,      (* how many frames the capture thread has dequeued           *)
  handled,    (* how many have been through process_frame                  *)
  code        (* what main returns, -1 while it has not                    *)

camVars == <<supported, substitutes, camAt, fd, preferred, pixfmt, ptrs, mappings>>
encVars == <<encAt, held, configured, pc, input, frames, pkt, out,
             in_ptr, pending, results>>
mainVars == <<n_frames, mainAt, streaming, code>>
threadVars == <<captureAt, processAt, slot, taken, handled>>
vars == <<camVars, encVars, loaderVars, mainVars, threadVars>>

Cam == INSTANCE CameraSetup WITH at <- camAt, tried <- preferred
Enc == INSTANCE MppJpeg WITH at <- encAt, Callers <- {"process"}

(* There are g_mpp and g_rga, and the constants are as the parts assume.   *)
ASSUME SessionAssumption ==
  /\ {"mpp", "rga"} \subseteq Libs
  /\ Cam!SetupAssumption
  /\ Enc!EncoderAssumption

(* v4l2_to_rga_fmt knows these; all but NV12 are converted.                *)
RgaFormats == {"NV12", "NV16", "BGR24"}

Init ==
  /\ Cam!Init
  /\ Enc!Init
  /\ LoaderInit
  /\ n_frames \in FrameCounts
  /\ mainAt = "args"
  /\ streaming = FALSE
  /\ captureAt = "unborn"
  /\ processAt = "unborn"
  /\ slot = [full |-> FALSE, closed |-> FALSE]
  /\ taken = 0
  /\ handled = 0
  /\ code = -1

--------------------------------------------------------------------------------
(* main                                                                    *)

MainGoes(from, to) ==
  /\ mainAt = from
  /\ mainAt' = to
  /\ UNCHANGED <<n_frames, threadVars>>

(* argc < 2: print_usage, and no object has been constructed.              *)
MainUsage ==
  /\ MainGoes("args", "done")
  /\ code' = 1
  /\ UNCHANGED <<streaming, camVars, encVars, loaderVars>>

MainArgs ==
  /\ MainGoes("args", "open")
  /\ UNCHANGED <<streaming, code, camVars, encVars, loaderVars>>

(* camera_open, then camera_alloc_bufs.                                    *)
MainOpens ==
  /\ MainGoes("open", "open")
  /\ Cam!OpenAndAlloc
  /\ UNCHANGED <<streaming, code, encVars, loaderVars>>

MainCameraReady ==
  /\ MainGoes("open", "create")
  /\ camAt = "ready"
  /\ UNCHANGED <<streaming, code, camVars, encVars, loaderVars>>

(* MppJpegEncoder::create, which first asks for librockchip_mpp.           *)
MainLoadsMpp ==
  /\ MainGoes("create", "create")
  /\ encAt = "load" /\ answer["mpp"] = "none"
  /\ Ensure("mpp")
  /\ UNCHANGED <<streaming, code, camVars, encVars>>

MainCreates ==
  /\ MainGoes("create", "create")
  /\ encAt = "load" => answer["mpp"] # "none"
  /\ Enc!Create
  /\ encAt = "load" => (encAt' = "calloc" <=> answer["mpp"] = "ready")
  /\ UNCHANGED <<streaming, code, camVars, loaderVars>>

MainEncoderReady ==
  /\ MainGoes("create", "start")
  /\ encAt = "ready"
  /\ UNCHANGED <<streaming, code, camVars, encVars, loaderVars>>

MainStarts ==
  /\ MainGoes("start", "spawn")
  /\ streaming' = TRUE
  /\ UNCHANGED <<code, camVars, encVars, loaderVars>>

(* A mistake to be caught: no camera_close where create has failed.        *)
MainFailsNoClose ==
  /\ \/ MainGoes("open", "giveUp") /\ camAt = "fail"
     \/ MainGoes("create", "leave") /\ encAt = "null"
     \/ MainGoes("start", "giveUp")
  /\ code' = 1
  /\ UNCHANGED <<streaming, camVars, encVars, loaderVars>>

(* The three early exits of main after argc: the set-up of the camera, of  *)
(* the encoder, or camera_start has failed.                                *)
MainFails ==
  /\ \/ MainGoes("open", "giveUp") /\ camAt = "fail"
     \/ MainGoes("create", "giveUp") /\ encAt = "null"
     \/ MainGoes("start", "giveUp")
  /\ code' = 1
  /\ UNCHANGED <<streaming, camVars, encVars, loaderVars>>

MainGivesUp ==
  /\ MainGoes("giveUp", "leave")
  /\ Cam!CameraClose
  /\ UNCHANGED <<streaming, code, encVars, loaderVars>>

(* An exception nobody catches ends the process: stats.reserve throws for  *)
(* a negative n_frames, and std::thread when it can make no thread.        *)
MainAborts ==
  /\ MainGoes("spawn", "aborted")
  /\ UNCHANGED <<streaming, code, camVars, encVars, loaderVars>>

MainSpawns ==
  /\ mainAt = "spawn"
  /\ n_frames >= 0
  /\ mainAt' = "joinCapture"
  /\ captureAt' = "loop"
  /\ processAt' = "pop"
  /\ UNCHANGED <<n_frames, streaming, code, slot, taken, handled,
                 camVars, encVars, loaderVars>>

MainJoinsCapture ==
  /\ MainGoes("joinCapture", "joinProcess")
  /\ captureAt = "exit"
  /\ UNCHANGED <<streaming, code, camVars, encVars, loaderVars>>

(* A mistake to be caught: main does not wait for the process thread.      *)
MainSkipsJoin ==
  /\ MainGoes("joinProcess", "stop")
  /\ UNCHANGED <<streaming, code, camVars, encVars, loaderVars>>

MainJoinsProcess ==
  /\ MainGoes("joinProcess", "stop")
  /\ processAt = "exit"
  /\ UNCHANGED <<streaming, code, camVars, encVars, loaderVars>>

MainStops ==
  /\ MainGoes("stop", "close")
  /\ streaming' = FALSE
  /\ UNCHANGED <<code, camVars, encVars, loaderVars>>

(* camera_close, print_stats, return 0.                                    *)
MainCloses ==
  /\ MainGoes("close", "leave")
  /\ Cam!CameraClose
  /\ code' = 0
  /\ UNCHANGED <<streaming, encVars, loaderVars>>

(* enc_opt leaves its scope.  If it holds an encoder, rk_mpp_jpeg_destroy  *)
(* is called, which asks for the library again.                            *)
MainLeaves ==
  /\ MainGoes("leave", "done")
  /\ encAt # "ready"
  /\ UNCHANGED <<streaming, code, camVars, encVars, loaderVars>>

MainAsksMpp ==
  /\ MainGoes("leave", "destroy")
  /\ encAt = "ready"
  /\ AlreadyReady("mpp") \/ AlreadyAttempted("mpp")
  /\ UNCHANGED <<streaming, code, camVars, encVars>>

MainDestroys ==
  /\ MainGoes("destroy", "done")
  /\ Enc!Destroy(answer["mpp"] = "ready")
  /\ UNCHANGED <<streaming, code, camVars, loaderVars>>

Main ==
  \/ MainUsage \/ MainArgs \/ MainOpens \/ MainCameraReady
  \/ MainLoadsMpp \/ MainCreates \/ MainEncoderReady
  \/ MainStarts \/ MainFails \/ MainGivesUp
  \/ MainAborts \/ MainSpawns \/ MainJoinsCapture \/ MainJoinsProcess
  \/ MainStops \/ MainCloses \/ MainLeaves \/ MainAsksMpp \/ MainDestroys

--------------------------------------------------------------------------------
(* The capture thread                                                      *)

CaptureGoes(from, to) ==
  /\ captureAt = from
  /\ captureAt' = to
  /\ UNCHANGED <<processAt, handled, camVars, encVars, loaderVars, mainVars>>

(* A dequeue that succeeds; the camera may have been granted no buffer.    *)
CaptureTakes ==
  /\ CaptureGoes("loop", "push")
  /\ taken < n_frames
  /\ ptrs # <<>>
  /\ taken' = taken + 1
  /\ UNCHANGED slot

CapturePushes ==
  /\ CaptureGoes("push", "loop")
  /\ ~slot.full
  /\ slot' = [slot EXCEPT !.full = TRUE]
  /\ UNCHANGED taken

(* A mistake to be caught: close() is left out where a dequeue fails.      *)
CaptureEndsUnclosed ==
  /\ CaptureGoes("loop", "exit")
  /\ slot' = [slot EXCEPT !.closed = (taken >= n_frames)]
  /\ UNCHANGED taken

(* All frames are taken, or a dequeue has failed: slot.close().            *)
CaptureEnds ==
  /\ CaptureGoes("loop", "exit")
  /\ slot' = [slot EXCEPT !.closed = TRUE]
  /\ UNCHANGED taken

Capture == CaptureTakes \/ CapturePushes \/ CaptureEnds

--------------------------------------------------------------------------------
(* The process thread                                                      *)

ProcessGoes(from, to) ==
  /\ processAt = from
  /\ processAt' = to
  /\ UNCHANGED <<captureAt, taken, camVars, mainVars>>

ProcessPops ==
  /\ ProcessGoes("pop", "frame")
  /\ slot.full
  /\ slot' = [slot EXCEPT !.full = FALSE]
  /\ UNCHANGED <<handled, encVars, loaderVars>>

(* A mistake to be caught: pop reports the end though it has an item.      *)
ProcessEndsAtClose ==
  /\ ProcessGoes("pop", "exit")
  /\ slot.closed
  /\ UNCHANGED <<slot, handled, encVars, loaderVars>>

ProcessEnds ==
  /\ ProcessGoes("pop", "exit")
  /\ ~slot.full /\ slot.closed
  /\ UNCHANGED <<slot, handled, encVars, loaderVars>>

(* The ways of a frame through process_frame: NV12 to the encoder, the     *)
(* other formats by RGA, for which librga is needed.                       *)
ProcessNv12 ==
  /\ ProcessGoes("frame", "encode")
  /\ pixfmt = "NV12"
  /\ UNCHANGED <<slot, handled, encVars, loaderVars>>

ProcessLoadsRga ==
  /\ pixfmt \in RgaFormats \ {"NV12"}
  /\ Ensure("rga")
  /\ ProcessGoes("frame", IF loading'["rga"] = "no" THEN "convert" ELSE "frame")
  /\ UNCHANGED <<slot, handled, encVars>>

ProcessConverts ==
  /\ ProcessGoes("convert", "encode")
  /\ answer["rga"] = "ready"
  /\ UNCHANGED <<slot, handled, encVars, loaderVars>>

ProcessEncodes ==
  /\ ProcessGoes("encode", "encoding")
  /\ \E img \in Images : Enc!Call("process", img)
  /\ UNCHANGED <<slot, handled, loaderVars>>

(* A step of encode; before it touches the input buffer it asks for the    *)
(* library once more.                                                      *)
ProcessInEncoder ==
  /\ ProcessGoes("encoding", "encoding")
  /\ Enc!Encode("process")
  /\ IF pc'["process"] = "copy" THEN AlreadyReady("mpp") ELSE UNCHANGED loaderVars
  /\ UNCHANGED <<slot, handled>>

(* process_frame returns: the format is unknown, the conversion has        *)
(* failed, or encode has returned (and the file is written, or not).       *)
ProcessReturns ==
  /\ \/ ProcessGoes("frame", "pop") /\ pixfmt \notin RgaFormats
     \/ ProcessGoes("convert", "pop")
     \/ ProcessGoes("encoding", "pop") /\ pc["process"] = "idle"
  /\ handled' = handled + 1
  /\ UNCHANGED <<slot, encVars, loaderVars>>

Process ==
  \/ ProcessPops \/ ProcessEnds \/ ProcessNv12 \/ ProcessLoadsRga
  \/ ProcessConverts \/ ProcessEncodes \/ ProcessInEncoder \/ ProcessReturns

--------------------------------------------------------------------------------
Hardware ==
  /\ Enc!Hardware
  /\ UNCHANGED <<camVars, loaderVars, mainVars, threadVars>>

Ended ==
  /\ mainAt \in {"done", "aborted"}
  /\ UNCHANGED vars

Next == Main \/ Capture \/ Process \/ Hardware \/ Ended

(* Each thread runs, no call blocks for ever, and MPP comes to a result    *)
(* for every frame it accepted.                                            *)
Fairness ==
  /\ WF_vars(Main)
  /\ WF_vars(Capture)
  /\ WF_vars(Process)
  /\ WF_vars(Hardware)

Spec == Init /\ [][Next]_vars

FairSpec == Spec /\ Fairness

--------------------------------------------------------------------------------
(* Every variable of main and of its parts has its type.                   *)
TypeOK ==
  /\ Cam!TypeOK /\ Enc!TypeOK /\ LoaderTypeOK
  /\ n_frames \in FrameCounts
  /\ mainAt \in {"args", "open", "create", "start", "spawn", "joinCapture",
                 "joinProcess", "stop", "close", "giveUp", "leave", "destroy",
                 "done", "aborted"}
  /\ streaming \in BOOLEAN
  /\ captureAt \in {"unborn", "loop", "push", "exit"}
  /\ processAt \in {"unborn", "pop", "frame", "convert", "encode", "encoding", "exit"}
  /\ slot \in [full : BOOLEAN, closed : BOOLEAN]
  /\ taken \in Nat
  /\ handled \in 0 .. taken
  /\ code \in {-1, 0, 1}

(* Whichever of its exits main takes, it leaves no mapping, no open        *)
(* device, no running stream and no handle of MPP.                         *)
ExitReleasesAll ==
  mainAt = "done" => mappings = {} /\ ~fd /\ ~streaming /\ held = {}

(* Exit code 0 means that every frame taken from the camera has been       *)
(* through process_frame, exit code 1 that none was taken.                 *)
ExitCodeMeansFrames ==
  mainAt = "done" => /\ code = 0 => handled = taken /\ processAt = "exit"
                     /\ code = 1 => taken = 0 /\ processAt = "unborn"

(* Who is about to call ensure for a library, or inside it.                *)
Asking(lib) ==
  {t \in {"main", "process"} :
    \/ t = "main" /\ lib = "mpp" /\ mainAt = "create" /\ encAt = "load"
    \/ t = "main" /\ lib = "mpp" /\ mainAt = "leave" /\ encAt = "ready"
    \/ t = "process" /\ lib = "mpp" /\ pc[t] = "check"
    \/ t = "process" /\ lib = "rga" /\ processAt = "frame"}

(* attempted, ready and the function tables have no lock and need none: no *)
(* two threads are in ensure for one library at a time.                    *)
LoadsDoNotOverlap == \A lib \in Libs : Cardinality(Asking(lib)) <= 1

(* No function pointer is called unless all of its library's are set.      *)
CallsAreBound ==
  /\ held \ {"enc"} # {} => api["mpp"].ready /\ api["mpp"].table = Symbols["mpp"]
  /\ processAt = "convert" /\ answer["rga"] = "ready" =>
       api["rga"].ready /\ api["rga"].table = Symbols["rga"]

(* main and the process thread use the encoder as MppJpeg allows, above    *)
(* all: it is destroyed with nobody inside, and with its library.  So what *)
(* is proved of MppJpeg is true here.                                      *)
EncoderContract == Enc!Spec

(* The frames go through the two threads as a Recorder says, here with     *)
(* what they show and what is saved left out: no more than were asked for, *)
(* at most three at a time, and main goes on when all have been worked on. *)
Rec == INSTANCE Recorder
         WITH Wants <- FrameCounts, Images <- {0}, InFlight <- 3,
              wanted <- n_frames, taken <- [k \in 1 .. taken |-> 0],
              finished <- handled, saved <- <<>>,
              ended <- mainAt \in {"stop", "close"} \/ code = 0

IsRecorder == Rec!Spec

(* main comes to its end, whichever call fails.                            *)
Termination == <>(mainAt \in {"done", "aborted"})
================================================================================
