-------------------------------- MODULE MppJpeg --------------------------------
(***************************************************************************)
(* The JPEG encoder of src/hw_shim.c (rk_mpp_jpeg_create, _encode and      *)
(* _destroy) behind MppJpegEncoder of src/src/hw/mpp_jpeg.cpp.             *)
(*                                                                         *)
(* librockchip_mpp is external and modelled from how the code uses it:     *)
(* encode_put_frame hands over a frame that refers to the one input buffer *)
(* of the encoder, the hardware reads that buffer some time later, and     *)
(* encode_get_packet returns the oldest result.  A raw image has two       *)
(* halves, so that a memcpy can be caught half-way.                        *)
(***************************************************************************)
EXTENDS Naturals, Sequences

CONSTANTS
  Callers,       (* the threads that call encode                           *)
  Images,        (* the raw frames they pass                               *)
  Nothing,       (* std::nullopt, and a packet that could not be made      *)
  Depth,         (* how many frames MPP accepts before it has results out  *)
  GetMayGiveUp   (* encode_get_packet may fail while a result is to come   *)

ASSUME EncoderAssumption ==
  /\ Depth \in Nat \ {0}
  /\ GetMayGiveUp \in BOOLEAN
  /\ Nothing \notin Images \X Images

VARIABLES
  at,         (* where create or destroy is                                *)
  held,       (* the handles and memory the encoder owns                   *)
  configured, (* the control call with MPP_ENC_SET_CFG succeeded           *)
  pc,         (* per caller: where it is in encode, "idle" outside         *)
  input,      (* per caller: the image of its last call                    *)
  frames,     (* the callers that own an MppFrame                          *)
  pkt,        (* per caller: the MppPacket it owns, as a sequence of 0..1  *)
  out,        (* per caller: what its last call returned                   *)
  in_ptr,     (* the two halves of the input buffer; at first, anything    *)
  pending,    (* how many frames MPP has been given and not encoded yet    *)
  results     (* what MPP has produced and nobody fetched, oldest first    *)

lifeVars == <<at, held, configured>>
mppVars == <<in_ptr, pending, results>>
callVars == <<pc, input, frames, pkt, out>>
vars == <<lifeVars, mppVars, callVars>>

Init ==
  /\ at = "load"
  /\ held = {}
  /\ configured = FALSE
  /\ pc = [c \in Callers |-> "idle"]
  /\ input \in [Callers -> Images]
  /\ frames = {}
  /\ pkt = [c \in Callers |-> <<>>]
  /\ out = [c \in Callers |-> Nothing]
  /\ \E img \in Images : in_ptr = <<img, img>>
  /\ pending = 0
  /\ results = <<>>

--------------------------------------------------------------------------------
(* rk_mpp_jpeg_create                                                      *)

(* A call that acquires r and goes on to the next one, or fails.           *)
Acquire(from, r, to, failed) ==
  /\ at = from
  /\ \/ at' = to /\ held' = held \cup {r}
     \/ at' = failed /\ UNCHANGED held
  /\ UNCHANGED <<configured, callVars, mppVars>>

(* A call that acquires nothing and may fail.                              *)
Check(from, to, failed) ==
  /\ at = from
  /\ at' \in {to, failed}
  /\ UNCHANGED <<held, configured, callVars, mppVars>>

EnsureApi  == Check("load", "calloc", "null")
Calloc     == Acquire("calloc", "enc", "create", "null")
MppCreate  == Acquire("create", "ctx", "init", "fail")
MppInit    == Check("init", "cfg", "fail")
CfgInit    == Acquire("cfg", "cfg", "control", "fail")
GroupGet   == Acquire("group", "grp", "buffer", "fail")
BufferGet  == Acquire("buffer", "buf", "pointer", "fail")
BufferPtr  == Check("pointer", "ready", "fail")

(* The results of set_s32 and of control are ignored; cfg is released.     *)
Configure ==
  /\ at = "control"
  /\ at' = "group"
  /\ held' = held \ {"cfg"}
  /\ configured' \in BOOLEAN
  /\ UNCHANGED <<callVars, mppVars>>

(* A mistake to be caught: the error path leaves the group allocated.      *)
CreateFailsKeepsGroup ==
  /\ at = "fail"
  /\ at' = "null"
  /\ held' = held \ {"buf", "ctx", "enc"}
  /\ UNCHANGED <<configured, callVars, mppVars>>

(* The label fail: what was acquired is released, and create returns NULL. *)
CreateFails ==
  /\ at = "fail"
  /\ at' = "null"
  /\ held' = held \ {"buf", "grp", "ctx", "enc"}
  /\ UNCHANGED <<configured, callVars, mppVars>>

Create ==
  \/ EnsureApi \/ Calloc \/ MppCreate \/ MppInit \/ CfgInit \/ Configure
  \/ GroupGet \/ BufferGet \/ BufferPtr \/ CreateFails

(* rk_mpp_jpeg_destroy.  It asks for the library once more, and without it *)
(* frees its own memory only; it does not look who is inside encode.       *)
Destroy(loaded) ==
  /\ at = "ready"
  /\ at' = "destroyed"
  /\ held' = held \ (IF loaded THEN {"buf", "grp", "ctx", "enc"} ELSE {"enc"})
  /\ UNCHANGED <<configured, callVars, mppVars>>

(* A mistake to be caught: the encoder goes before its users have ended.   *)
OwnerTooEarly == Destroy(TRUE)

(* So this is what its owner must see to.  main lets the encoder go out of *)
(* scope after it has joined the thread that calls it (see Session).       *)
OwnerDestroys ==
  /\ \A c \in Callers : pc[c] = "idle"
  /\ Destroy(TRUE)

--------------------------------------------------------------------------------
(* MppJpegEncoder::encode and rk_mpp_jpeg_encode                           *)

Goes(c, from, to) ==
  /\ pc[c] = from
  /\ pc' = [pc EXCEPT ![c] = to]
  /\ UNCHANGED lifeVars

Call(c, img) ==
  /\ at = "ready"
  /\ Goes(c, "idle", "check")
  /\ input' = [input EXCEPT ![c] = img]
  /\ out' = [out EXCEPT ![c] = Nothing]
  /\ UNCHANGED <<frames, pkt, mppVars>>

(* The span is shorter than an image of this format: nothing is touched.   *)
TooShort(c) ==
  /\ Goes(c, "check", "idle")
  /\ UNCHANGED <<input, frames, pkt, out, mppVars>>

(* memcpy into the input buffer, one half after the other.                 *)
CopyFirst(c) ==
  /\ Goes(c, "check", "copy")
  /\ in_ptr' = [in_ptr EXCEPT ![1] = input[c]]
  /\ UNCHANGED <<input, frames, pkt, out, pending, results>>

(* A mistake to be caught: half of an NV12 image is copied.                *)
CopyNoRest(c) ==
  /\ Goes(c, "copy", "frame")
  /\ UNCHANGED <<input, frames, pkt, out, mppVars>>

CopyRest(c) ==
  /\ Goes(c, "copy", "frame")
  /\ in_ptr' = [in_ptr EXCEPT ![2] = input[c]]
  /\ UNCHANGED <<input, frames, pkt, out, pending, results>>

(* mpp_frame_init and the setters, whose results are not looked at: with   *)
(* no frame encode_put_frame has nothing to accept.                        *)
FrameInit(c) ==
  /\ Goes(c, "frame", "put")
  /\ frames' \in {frames, frames \cup {c}}
  /\ UNCHANGED <<input, pkt, out, mppVars>>

PutFrame(c) ==
  /\ Goes(c, "put", "get")
  /\ c \in frames
  /\ pending + Len(results) < Depth
  /\ pending' = pending + 1
  /\ UNCHANGED <<input, frames, pkt, out, in_ptr, results>>

(* A mistake to be caught: the packet is fetched though the put failed.    *)
PutFailsGoesOn(c) ==
  /\ Goes(c, "put", "get")
  /\ UNCHANGED <<input, frames, pkt, out, mppVars>>

PutFails(c) ==
  /\ Goes(c, "put", "deinit")
  /\ UNCHANGED <<input, frames, pkt, out, mppVars>>

(* A mistake to be caught: a null packet is taken for a packet.            *)
GetPacketOrNull(c) ==
  /\ Goes(c, "get", "take")
  /\ results # <<>>
  /\ pkt' = [pkt EXCEPT ![c] = <<Head(results)>>]
  /\ results' = Tail(results)
  /\ UNCHANGED <<input, frames, out, in_ptr, pending>>

(* MPP_OK and a packet.                                                    *)
GetPacket(c) ==
  /\ Goes(c, "get", "take")
  /\ results # <<>>
  /\ Head(results) # Nothing
  /\ pkt' = [pkt EXCEPT ![c] = <<Head(results)>>]
  /\ results' = Tail(results)
  /\ UNCHANGED <<input, frames, out, in_ptr, pending>>

(* A mistake to be caught: encode does not wait for its result.            *)
GetFailsAtOnce(c) ==
  /\ Goes(c, "get", "deinit")
  /\ UNCHANGED <<input, frames, pkt, out, mppVars>>

(* An error or a null packet, which stands for the oldest frame; or the    *)
(* call gives up on a frame that is still being encoded.                   *)
GetFails(c) ==
  /\ Goes(c, "get", "deinit")
  /\ \/ /\ results # <<>>
        /\ Head(results) = Nothing
        /\ results' = Tail(results)
     \/ /\ GetMayGiveUp
        /\ UNCHANGED results
  /\ UNCHANGED <<input, frames, pkt, out, in_ptr, pending>>

(* The packet is copied to out_buf, unless it is empty or too long, and    *)
(* released.                                                               *)
TakePacket(c) ==
  /\ Goes(c, "take", "deinit")
  /\ \E r \in {Nothing, pkt[c][1]} : out' = [out EXCEPT ![c] = r]
  /\ pkt' = [pkt EXCEPT ![c] = <<>>]
  /\ UNCHANGED <<input, frames, mppVars>>

(* mpp_frame_deinit, and encode returns.                                   *)
FrameDeinit(c) ==
  /\ Goes(c, "deinit", "idle")
  /\ frames' = frames \ {c}
  /\ UNCHANGED <<input, pkt, out, mppVars>>

Encode(c) ==
  \/ TooShort(c) \/ CopyFirst(c) \/ CopyRest(c) \/ FrameInit(c)
  \/ PutFrame(c) \/ PutFails(c) \/ GetPacket(c) \/ GetFails(c)
  \/ TakePacket(c) \/ FrameDeinit(c)

(* The hardware reads the input buffer of the oldest frame, and succeeds   *)
(* or not.                                                                 *)
Hardware ==
  /\ pending > 0
  /\ pending' = pending - 1
  /\ \E r \in {in_ptr, Nothing} : results' = Append(results, r)
  /\ UNCHANGED <<lifeVars, callVars, in_ptr>>

(* The encoder is gone, or never was; anything else that stops is stuck.   *)
Ended ==
  /\ at \in {"null", "destroyed"}
  /\ UNCHANGED vars

Next ==
  \/ Create
  \/ OwnerDestroys
  \/ Hardware
  \/ Ended
  \/ \E c \in Callers : Encode(c) \/ \E img \in Images : Call(c, img)

(* The callers run, and MPP comes to a result for every frame it accepted. *)
Fairness ==
  /\ WF_vars(Hardware)
  /\ \A c \in Callers : WF_vars(Encode(c))

Spec == Init /\ [][Next]_vars

FairSpec == Spec /\ Fairness

--------------------------------------------------------------------------------
Halves == Images \X Images

(* Every variable has its type; MPP holds no more frames than it accepts.  *)
TypeOK ==
  /\ at \in {"load", "calloc", "create", "init", "cfg", "control", "group",
             "buffer", "pointer", "ready", "fail", "null", "destroyed"}
  /\ held \subseteq {"enc", "ctx", "cfg", "grp", "buf"}
  /\ configured \in BOOLEAN
  /\ pc \in [Callers -> {"idle", "check", "copy", "frame", "put", "get",
                         "take", "deinit"}]
  /\ input \in [Callers -> Images]
  /\ frames \subseteq Callers
  /\ pkt \in [Callers -> {<<>>} \cup {<<p>> : p \in Halves}]
  /\ out \in [Callers -> Halves \cup {Nothing}]
  /\ in_ptr \in Halves
  /\ pending \in Nat
  /\ results \in Seq(Halves \cup {Nothing})
  /\ pending + Len(results) <= Depth

(* Whatever call of create fails, and after destroy, every handle has been *)
(* given back; and between two calls of encode its frame and its packet    *)
(* have been, on every path through encode.                                *)
NothingLeaks ==
  /\ at \in {"null", "destroyed"} => held = {}
  /\ \A c \in Callers : pc[c] = "idle" => c \notin frames /\ pkt[c] = <<>>

(* While a caller is in encode, the context, the group and the buffer that *)
(* the frame refers to exist.                                              *)
HandlesLive ==
  \A c \in Callers :
    pc[c] # "idle" => at = "ready" /\ {"enc", "ctx", "grp", "buf"} \subseteq held

(* Once no caller is inside encode, MPP has neither a frame of an earlier  *)
(* call to encode nor a packet of one to hand out: the next call gets its  *)
(* own.                                                                    *)
QuietBetweenCalls ==
  (\A c \in Callers : pc[c] = "idle") => pending = 0 /\ results = <<>>

(* A frame that MPP has not encoded yet is not overwritten.                *)
InputStable ==
  pending > 0 => \A c \in Callers : pc[c] # "copy"

(* encode returns the JPEG of the image it was given, or nothing.          *)
Encoder == INSTANCE JpegEncoder WITH
  busy <- {c \in Callers : pc[c] # "idle"},
  out  <- [c \in Callers |-> IF pc[c] = "idle" THEN out[c] ELSE Nothing]

IsJpegEncoder == Encoder!Spec

(* Every call of encode returns, whichever call inside it fails.           *)
EncodeReturns ==
  \A c \in Callers : pc[c] # "idle" ~> pc[c] = "idle"

(* create returns an encoder only if it was configured ("success returns   *)
(* non-NULL, failure returns NULL").                                       *)
ReadyIsConfigured == at = "ready" => configured
================================================================================
