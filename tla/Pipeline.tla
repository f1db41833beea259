------------------------------- MODULE Pipeline --------------------------------
(***************************************************************************)
(* main() of src/src/main.cpp from camera_start to its return, with the    *)
(* two threads it creates: the capture thread, which takes a buffer from   *)
(* the V4L2 driver, copies it, gives it back and pushes the copy into the  *)
(* slot, and the process thread, which pops, encodes and writes a file.    *)
(*                                                                         *)
(* The slot is BoundedSlot with its mutex and condition variable; the      *)
(* driver is V4l2Queue.  process_frame is one step that saves a file or    *)
(* fails.                                                                  *)
(***************************************************************************)
EXTENDS Integers, FiniteSets, V4l2Queue

CONSTANTS
  FrameCounts,  (* the values atoi can give n_frames                       *)
  NoFrame,      (* see BoundedSlot                                         *)
  Nobody

Threads == {"capture", "process"}

(* The indices of the frames of the longest run.                           *)
Indices == {k \in 0 .. MaxImages : \E n \in FrameCounts : k < n}

(* struct FrameBuffer: data is the image the copy holds.                   *)
FrameBuffer == [frame_idx : Indices, data : 0 .. MaxImages]

ASSUME PipelineAssumption ==
  /\ FrameCounts \subseteq Int
  /\ NoFrame \notin FrameBuffer
  /\ Nobody \notin Threads

VARIABLES
  mtx, item, closed, pc, op, fb, ret,     (* the slot, see BoundedSlot     *)
  n_frames,   (* argv[4]                                                   *)
  mainAt,     (* where main is                                             *)
  captureAt,  (* where the lambda of capture_th is                         *)
  processAt,  (* where the lambda of process_th is                         *)
  frame_i,    (* i, the loop counter of the capture thread                 *)
  dq,         (* dq.idx, 0 when there is none                              *)
  copy,       (* the capture thread's FrameBuffer before it is pushed      *)
  captured,   (* history: the images dequeued, in order                    *)
  blank,      (* history: the frames dequeued with bytesused 0             *)
  stats,      (* the frames that have an entry in stats, in order          *)
  files       (* the image in frame_<n>.jpg, for every n that was written  *)

slotVars == <<mtx, item, closed, pc, op, fb, ret>>
mainVars == <<n_frames, mainAt>>
captureVars == <<captureAt, frame_i, dq, copy, captured, blank>>
processVars == <<processAt, stats, files>>
vars == <<slotVars, queueVars, mainVars, captureVars, processVars>>

Slot == INSTANCE BoundedSlot WITH Frames <- FrameBuffer

Init ==
  /\ Slot!Init
  /\ QueueInit
  /\ n_frames \in FrameCounts
  /\ mainAt = "start"
  /\ captureAt = "unborn"
  /\ processAt = "unborn"
  /\ frame_i = 0
  /\ dq = 0
  /\ copy = NoFrame
  /\ captured = <<>>
  /\ blank = {}
  /\ stats = <<>>
  /\ files = <<>>

--------------------------------------------------------------------------------
(* main                                                                    *)

MainGoes(from, to) ==
  /\ mainAt = from
  /\ mainAt' = to
  /\ UNCHANGED n_frames

MainStart ==
  /\ MainGoes("start", "reserve")
  /\ CameraStart
  /\ UNCHANGED <<slotVars, captureVars, processVars>>

(* camera_start fails; main closes the camera and returns 1.               *)
MainStartFails ==
  /\ MainGoes("start", "giveUp")
  /\ CameraStartFails
  /\ UNCHANGED <<slotVars, captureVars, processVars>>

MainGivesUp ==
  /\ MainGoes("giveUp", "failed")
  /\ CameraClose
  /\ UNCHANGED <<slotVars, captureVars, processVars>>

(* A negative n_frames makes stats.reserve throw std::length_error, which  *)
(* nobody catches.                                                         *)
MainAborts ==
  /\ MainGoes("reserve", "aborted")
  /\ n_frames < 0
  /\ UNCHANGED <<slotVars, queueVars, captureVars, processVars>>

(* stats.reserve, and the construction of the two std::threads.            *)
MainSpawn ==
  /\ MainGoes("reserve", "joinCapture")
  /\ n_frames >= 0
  /\ captureAt' = "loop"
  /\ processAt' = "pop"
  /\ UNCHANGED <<slotVars, queueVars, frame_i, dq, copy, captured, blank, stats, files>>

MainJoinCapture ==
  /\ MainGoes("joinCapture", "joinProcess")
  /\ captureAt = "exit"
  /\ UNCHANGED <<slotVars, queueVars, captureVars, processVars>>

(* A mistake to be caught: main does not join the process thread.          *)
MainSkipsJoinProcess ==
  /\ MainGoes("joinProcess", "stop")
  /\ UNCHANGED <<slotVars, queueVars, captureVars, processVars>>

MainJoinProcess ==
  /\ MainGoes("joinProcess", "stop")
  /\ processAt = "exit"
  /\ UNCHANGED <<slotVars, queueVars, captureVars, processVars>>

MainStop ==
  /\ MainGoes("stop", "close")
  /\ CameraStop
  /\ UNCHANGED <<slotVars, captureVars, processVars>>

(* camera_close, print_stats and return 0.                                 *)
MainClose ==
  /\ MainGoes("close", "done")
  /\ CameraClose
  /\ UNCHANGED <<slotVars, captureVars, processVars>>

Main ==
  \/ MainStart \/ MainStartFails \/ MainGivesUp
  \/ MainAborts \/ MainSpawn
  \/ MainJoinCapture \/ MainJoinProcess \/ MainStop \/ MainClose

--------------------------------------------------------------------------------
(* The capture thread                                                      *)

CaptureGoes(from, to) ==
  /\ captureAt = from
  /\ captureAt' = to
  /\ UNCHANGED <<mainVars, processVars>>

CaptureDequeue ==
  /\ CaptureGoes("loop", "copy")
  /\ frame_i < n_frames
  /\ \E b \in Bufs :
       /\ CameraDequeue(b)
       /\ dq' = b
       /\ captured' = Append(captured, content[b])
       /\ blank' = IF b \in empty THEN blank \cup {frame_i} ELSE blank
  /\ UNCHANGED <<slotVars, frame_i, copy>>

(* dq.idx < 0: the loop is left.                                           *)
CaptureDequeueFails ==
  /\ CaptureGoes("loop", "close")
  /\ frame_i < n_frames
  /\ CameraDequeueFails
  /\ UNCHANGED <<slotVars, frame_i, dq, copy, captured, blank>>

CaptureLoopEnds ==
  /\ CaptureGoes("loop", "close")
  /\ frame_i >= n_frames
  /\ UNCHANGED <<slotVars, queueVars, frame_i, dq, copy, captured, blank>>

(* A mistake to be caught: fb.data stays empty.                            *)
CaptureCopiesNothing ==
  /\ CaptureGoes("copy", "requeue")
  /\ copy' = NoFrame
  /\ UNCHANGED <<slotVars, queueVars, frame_i, dq, captured, blank>>

(* fb.data.assign from the mapped buffer.                                  *)
CaptureCopy ==
  /\ CaptureGoes("copy", "requeue")
  /\ copy' = [frame_idx |-> frame_i, data |-> content[dq]]
  /\ UNCHANGED <<slotVars, queueVars, frame_i, dq, captured, blank>>

CaptureRequeue ==
  /\ CaptureGoes("requeue", "push")
  /\ CameraRequeue(dq)
  /\ dq' = 0
  /\ UNCHANGED <<slotVars, frame_i, copy, captured, blank>>

CapturePush ==
  /\ CaptureGoes("push", "pushing")
  /\ Slot!CallPush("capture", copy)
  /\ copy' = NoFrame
  /\ UNCHANGED <<queueVars, frame_i, dq, captured, blank>>

(* push has returned: true goes on with the next frame, false breaks.      *)
CapturePushReturns ==
  /\ pc["capture"] = "idle"
  /\ \/ /\ ret["capture"]
        /\ CaptureGoes("pushing", "loop")
        /\ frame_i' = frame_i + 1
     \/ /\ ~ret["capture"]
        /\ CaptureGoes("pushing", "close")
        /\ UNCHANGED frame_i
  /\ UNCHANGED <<slotVars, queueVars, dq, copy, captured, blank>>

CaptureClose ==
  /\ CaptureGoes("close", "closing")
  /\ Slot!CallClose("capture")
  /\ UNCHANGED <<queueVars, frame_i, dq, copy, captured, blank>>

CaptureExit ==
  /\ CaptureGoes("closing", "exit")
  /\ pc["capture"] = "idle"
  /\ UNCHANGED <<slotVars, queueVars, frame_i, dq, copy, captured, blank>>

Capture ==
  \/ CaptureDequeue \/ CaptureDequeueFails \/ CaptureLoopEnds
  \/ CaptureCopy \/ CaptureRequeue
  \/ CapturePush \/ CapturePushReturns
  \/ CaptureClose \/ CaptureExit

--------------------------------------------------------------------------------
(* The process thread                                                      *)

ProcessGoes(from, to) ==
  /\ processAt = from
  /\ processAt' = to
  /\ UNCHANGED <<queueVars, mainVars, captureVars>>

ProcessPop ==
  /\ ProcessGoes("pop", "popping")
  /\ Slot!CallPop("process")
  /\ UNCHANGED <<stats, files>>

(* pop has returned: true has a frame in fb, false ends the thread.        *)
ProcessPopReturns ==
  /\ pc["process"] = "idle"
  /\ \/ ret["process"] /\ ProcessGoes("popping", "frame")
     \/ ~ret["process"] /\ ProcessGoes("popping", "exit")
  /\ UNCHANGED <<slotVars, stats, files>>

(* process_frame returns true, having written frame_<idx>.jpg, or false;   *)
(* either way stats gets an entry.                                         *)
ProcessFrame ==
  /\ ProcessGoes("frame", "pop")
  /\ LET frame == fb["process"] IN
       /\ \/ files' = [n \in DOMAIN files \cup {frame.frame_idx} |->
                         IF n = frame.frame_idx THEN frame.data ELSE files[n]]
          \/ UNCHANGED files
       /\ stats' = Append(stats, frame.frame_idx)
  /\ UNCHANGED slotVars

Process == ProcessPop \/ ProcessPopReturns \/ ProcessFrame

--------------------------------------------------------------------------------
(* Inside the methods of the slot, and the driver.                         *)

InSlot(t) ==
  /\ Slot!Step(t)
  /\ UNCHANGED <<queueVars, mainVars, captureVars, processVars>>

SpuriousWake(t) ==
  /\ Slot!SpuriousWake(t)
  /\ UNCHANGED <<queueVars, mainVars, captureVars, processVars>>

Driver ==
  /\ DriverFill \/ DriverFillEmpty \/ DriverDrop
  /\ UNCHANGED <<slotVars, mainVars, captureVars, processVars>>

(* The program has ended; anything else that stops is a deadlock.          *)
Ended ==
  /\ mainAt \in {"done", "failed", "aborted"}
  /\ UNCHANGED vars

Next ==
  \/ Main
  \/ Capture
  \/ Process
  \/ \E t \in Threads : InSlot(t) \/ SpuriousWake(t)
  \/ Driver
  \/ Ended

(* Every thread runs, poll returns within POLL_TIMEOUT_MS, process_frame   *)
(* returns, and only finitely many wake-ups are spurious.  Nothing is      *)
(* asked of the driver or of the fairness of the mutex.                    *)
Fairness ==
  /\ WF_vars(Main)
  /\ WF_vars(Capture)
  /\ WF_vars(Process)
  /\ \A t \in Threads : WF_vars(InSlot(t))
  /\ <>[][\A t \in Threads : ~SpuriousWake(t)]_vars

Spec == Init /\ [][Next]_vars

FairSpec == Spec /\ Fairness

--------------------------------------------------------------------------------
(* Every variable of main, of the two threads and of the driver has its    *)
(* type; TypeOK of the slot is Slot!TypeOK.                                *)
TypeOK ==
  /\ Slot!TypeOK
  /\ QueueTypeOK
  /\ n_frames \in FrameCounts
  /\ mainAt \in {"start", "reserve", "joinCapture", "joinProcess", "stop",
                 "close", "done", "giveUp", "failed", "aborted"}
  /\ captureAt \in {"unborn", "loop", "copy", "requeue", "push", "pushing",
                    "close", "closing", "exit"}
  /\ processAt \in {"unborn", "pop", "popping", "frame", "exit"}
  /\ frame_i \in Nat
  /\ dq \in 0 .. NBufs
  /\ copy \in FrameBuffer \cup {NoFrame}
  /\ captured \in Seq(0 .. MaxImages)
  /\ blank \subseteq Indices
  /\ stats \in Seq(Indices)
  /\ files \in [DOMAIN files -> 0 .. MaxImages] /\ DOMAIN files \subseteq Indices

(* frame_<n>.jpg holds the image that was dequeued as frame n: between the *)
(* dequeue and the write, through the copy, the slot and a buffer that the *)
(* driver meanwhile refills, no frame takes the place of another.          *)
FilesMatchCapture ==
  \A n \in DOMAIN files :
    n + 1 \in DOMAIN captured /\ files[n] = captured[n + 1]

(* A frame is newer than all before it, unless its bytesused was 0: then   *)
(* the whole buffer is taken for a frame, and what is saved once more is   *)
(* an image that was dequeued before, or an empty one.                     *)
FramesAreNew ==
  \A j \in DOMAIN captured :
    LET before == {captured[i] : i \in 1 .. j - 1}
    IN IF j - 1 \in blank THEN captured[j] \in before \cup {0}
       ELSE \A image \in before : image < captured[j]

(* The frames get their entry in stats in capture order, each exactly once *)
(* and without a gap.                                                      *)
StatsInOrder == \A k \in DOMAIN stats : stats[k] = k - 1

CaptureHolds ==
  \/ captureAt \in {"copy", "requeue", "push"}
  \/ captureAt = "pushing" /\ pc["capture"] \in {"lock", "test", "blocked"}

ProcessHolds ==
  \/ processAt = "frame"
  \/ /\ processAt = "popping"
     /\ pc["process"] \in {"notify", "unlock", "idle"}
     /\ ret["process"]

One(b) == IF b THEN 1 ELSE 0

(* A frame that was dequeued has its entry in stats or is in exactly one   *)
(* of three places: the capture thread, the slot, the process thread.  So  *)
(* at most three copies of frames exist (back-pressure), and close() loses *)
(* none.                                                                   *)
NothingLost ==
  Len(captured) = Len(stats) + One(CaptureHolds) + One(item # NoFrame)
                             + One(ProcessHolds)

(* When main returns normally, every frame that was dequeued has been      *)
(* handed to process_frame: closing the slot does not cut off the last.    *)
DrainedAtEnd ==
  mainAt \in {"stop", "close", "done"} => Len(stats) = Len(captured)

(* The program owns no kernel buffer but the one it is copying from and    *)
(* those whose requeue failed: it copies from no buffer the driver may     *)
(* write, and keeps none while it waits in push.                           *)
BufferAccounting ==
  streaming =>
    /\ Bufs \ WithDriver = lost \cup (IF dq = 0 THEN {} ELSE {dq})
    /\ Len(incoming) + Len(outgoing) = Cardinality(WithDriver)

(* While either thread lives, the camera streams and its buffers are       *)
(* mapped: camera_stop and camera_close come after both joins.             *)
TeardownAfterThreads ==
  \/ captureAt \in {"loop", "copy", "requeue", "push", "pushing", "close", "closing"}
  \/ processAt \in {"pop", "popping", "frame"}
    => streaming /\ mapped

(* The threads use the slot as BoundedSlot allows: what is true of the     *)
(* slot with its most general client is true of it here.                   *)
SlotContract == Slot!Spec

(* The whole of it is a Recorder: images are taken, worked on once and in  *)
(* order, and saved under their own number, at most three are under way,   *)
(* and main stops the camera only when none is.                            *)
Rec == INSTANCE Recorder
         WITH Wants <- FrameCounts, Images <- 0 .. MaxImages, InFlight <- 3,
              wanted <- n_frames, taken <- captured, finished <- Len(stats),
              saved <- files, ended <- mainAt \in {"stop", "close", "done"}

IsRecorder == Rec!Spec

(* main always comes to its end, whatever the driver does and whenever     *)
(* dequeue, requeue or process_frame fail: no thread waits forever in the  *)
(* slot.  It aborts for a negative count of frames, and for no other.      *)
Termination ==
  <>\/ mainAt \in {"done", "failed"}
    \/ mainAt = "aborted" /\ n_frames < 0
================================================================================
