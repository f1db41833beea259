------------------------------- MODULE V4l2Queue -------------------------------
(***************************************************************************)
(* The buffers that the V4L2 driver and the program exchange, and the      *)
(* functions of src/src/main.cpp that move them: camera_start,             *)
(* camera_dequeue, camera_requeue, camera_stop and camera_close.           *)
(*                                                                         *)
(* A buffer is in the incoming queue of the driver (VIDIOC_QBUF put it     *)
(* there and the hardware may write it), in its outgoing queue (filled,    *)
(* waiting for VIDIOC_DQBUF), or with the program.  The driver itself is   *)
(* not part of the repository: its actions say what the program relies on, *)
(* what a failed transfer is, and what the driver does when it is starved  *)
(* of buffers, which is to drop the frame.  An image is the number the     *)
(* sensor gave it.                                                         *)
(*                                                                         *)
(* The module is meant to be instantiated or extended: its operators say   *)
(* how a call changes the queues, and who calls is the business of the     *)
(* module that composes.                                                   *)
(***************************************************************************)
EXTENDS Naturals, Sequences, SequencesExt

CONSTANTS
  NBufs,      (* how many buffers VIDIOC_REQBUFS granted, of N_BUFS asked  *)
  MaxImages   (* bound: how many images the sensor delivers in a behaviour *)

ASSUME QueueAssumption ==
  /\ NBufs \in Nat
  /\ MaxImages \in Nat

VARIABLES
  incoming,   (* the buffers the driver may write, in the order queued     *)
  outgoing,   (* the buffers it has filled, in the order filled            *)
  content,    (* per buffer: the image it holds, 0 for none                *)
  empty,      (* the buffers the driver filled last with bytesused 0       *)
  images,     (* how many images the sensor has delivered                  *)
  streaming,  (* between VIDIOC_STREAMON and VIDIOC_STREAMOFF              *)
  mapped,     (* the buffers are mapped into the program                   *)
  lost        (* history: the buffers whose VIDIOC_QBUF failed             *)

queueVars == <<incoming, outgoing, content, empty, images, streaming, mapped, lost>>

Bufs == 1 .. NBufs

(* The buffers VIDIOC_QBUF gave to the driver and DQBUF has not returned.  *)
WithDriver == ToSet(incoming) \cup ToSet(outgoing)

(* The state left by camera_open and camera_alloc_bufs.                    *)
QueueInit ==
  /\ incoming = <<>>
  /\ outgoing = <<>>
  /\ content = [b \in Bufs |-> 0]
  /\ empty = {}
  /\ images = 0
  /\ streaming = FALSE
  /\ mapped = TRUE
  /\ lost = {}

--------------------------------------------------------------------------------
(* camera_start: VIDIOC_QBUF for every buffer in turn, then STREAMON.      *)
CameraStart ==
  /\ incoming' = [i \in 1 .. NBufs |-> i]
  /\ streaming' = TRUE
  /\ UNCHANGED <<outgoing, content, empty, images, mapped, lost>>

(* camera_start fails: in a VIDIOC_QBUF, or in STREAMON after all of them. *)
CameraStartFails ==
  /\ \E queued \in 0 .. NBufs : incoming' = [i \in 1 .. queued |-> i]
  /\ UNCHANGED <<outgoing, content, empty, images, streaming, mapped, lost>>

(* A mistake to be caught: the driver keeps the buffer it hands out.       *)
DequeueKeepsBuffer(b) ==
  /\ outgoing # <<>>
  /\ b = Head(outgoing)
  /\ outgoing' = Tail(outgoing)
  /\ incoming' = Append(incoming, b)
  /\ UNCHANGED <<content, empty, images, streaming, mapped, lost>>

(* camera_dequeue succeeds: poll reports a filled buffer and DQBUF returns *)
(* the oldest one, b.                                                      *)
CameraDequeue(b) ==
  /\ outgoing # <<>>
  /\ b = Head(outgoing)
  /\ outgoing' = Tail(outgoing)
  /\ UNCHANGED <<incoming, content, empty, images, streaming, mapped, lost>>

(* camera_dequeue returns idx -1: poll times out, is interrupted or fails, *)
(* or DQBUF does.                                                          *)
CameraDequeueFails == UNCHANGED queueVars

(* A mistake to be caught: the index of another buffer is queued.          *)
CameraRequeueOffByOne(b) ==
  /\ incoming' = Append(incoming, b + 1)
  /\ UNCHANGED <<outgoing, content, empty, images, streaming, mapped, lost>>

(* A mistake to be caught: the buffer is not given back.                   *)
CameraRequeueForgotten(b) ==
  /\ b \in Bufs
  /\ UNCHANGED queueVars

(* A mistake to be caught: the buffer is given back twice.                 *)
CameraRequeueTwice(b) ==
  /\ incoming' = incoming \o <<b, b>>
  /\ UNCHANGED <<outgoing, content, empty, images, streaming, mapped, lost>>

(* camera_requeue ignores what VIDIOC_QBUF returns.  When it fails, the    *)
(* buffer stays with the program and nobody will queue it again.           *)
CameraRequeue(b) ==
  /\ \/ /\ incoming' = Append(incoming, b)
        /\ UNCHANGED lost
     \/ /\ lost' = lost \cup {b}
        /\ UNCHANGED incoming
  /\ UNCHANGED <<outgoing, content, empty, images, streaming, mapped>>

(* camera_stop: STREAMOFF takes every buffer back from the driver.         *)
CameraStop ==
  /\ incoming' = <<>>
  /\ outgoing' = <<>>
  /\ streaming' = FALSE
  /\ UNCHANGED <<content, empty, images, mapped, lost>>

(* camera_close: munmap of every buffer; close() ends what the driver does. *)
CameraClose ==
  /\ incoming' = <<>>
  /\ outgoing' = <<>>
  /\ streaming' = FALSE
  /\ mapped' = FALSE
  /\ UNCHANGED <<content, empty, images, lost>>

--------------------------------------------------------------------------------
(* The driver stores the next image in the oldest buffer it may write.     *)
DriverFill ==
  /\ streaming
  /\ images < MaxImages
  /\ incoming # <<>>
  /\ images' = images + 1
  /\ content' = [content EXCEPT ![Head(incoming)] = images + 1]
  /\ empty' = empty \ {Head(incoming)}
  /\ incoming' = Tail(incoming)
  /\ outgoing' = Append(outgoing, Head(incoming))
  /\ UNCHANGED <<streaming, mapped, lost>>

(* The transfer fails: the buffer comes back with bytesused 0, and nothing *)
(* has been written to it.                                                 *)
DriverFillEmpty ==
  /\ streaming
  /\ images < MaxImages
  /\ incoming # <<>>
  /\ images' = images + 1
  /\ empty' = empty \cup {Head(incoming)}
  /\ incoming' = Tail(incoming)
  /\ outgoing' = Append(outgoing, Head(incoming))
  /\ UNCHANGED <<content, streaming, mapped, lost>>

(* No buffer to write: the image is lost.                                  *)
DriverDrop ==
  /\ streaming
  /\ images < MaxImages
  /\ incoming = <<>>
  /\ images' = images + 1
  /\ UNCHANGED <<incoming, outgoing, content, empty, streaming, mapped, lost>>

--------------------------------------------------------------------------------
(* Every buffer queue holds buffers, every buffer an image.                *)
QueueTypeOK ==
  /\ incoming \in Seq(Bufs)
  /\ outgoing \in Seq(Bufs)
  /\ content \in [Bufs -> 0 .. MaxImages]
  /\ empty \subseteq Bufs
  /\ images \in 0 .. MaxImages
  /\ streaming \in BOOLEAN
  /\ mapped \in BOOLEAN
  /\ lost \subseteq Bufs
================================================================================
