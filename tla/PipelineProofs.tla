----------------------------- MODULE PipelineProofs ----------------------------
(***************************************************************************)
(* Pipeline for any number of buffers, images and frames: the inductive    *)
(* invariant of main, its two threads, the slot and the driver's queues,   *)
(* and what follows from it.                                               *)
(***************************************************************************)
EXTENDS Pipeline, SequenceTheorems, FiniteSetTheorems, TLAPS

--------------------------------------------------------------------------------
(* The inductive invariant                                                 *)

(* Where main is, against the camera and the life of the two threads.      *)
Places ==
  /\ streaming <=> mainAt \in {"reserve", "aborted", "joinCapture", "joinProcess", "stop"}
  /\ mapped <=> mainAt \notin {"done", "failed"}
  /\ mainAt \in {"start", "reserve", "aborted", "giveUp", "failed"} =>
       captureAt = "unborn" /\ processAt = "unborn"
  /\ mainAt \in {"joinCapture", "joinProcess", "stop", "close", "done"} =>
       captureAt # "unborn" /\ processAt # "unborn"
  /\ mainAt \in {"joinProcess", "stop", "close", "done"} => captureAt = "exit"
  /\ mainAt \in {"stop", "close", "done"} => processAt = "exit"

(* A thread is inside a method of the slot only where it has called it.    *)
Calling ==
  /\ captureAt \notin {"pushing", "closing"} => pc["capture"] = "idle"
  /\ captureAt = "pushing" => op["capture"] = "push"
  /\ captureAt = "closing" => op["capture"] = "close"
  /\ processAt # "popping" => pc["process"] = "idle"
  /\ processAt = "popping" => op["process"] = "pop"

Decided(t) == pc[t] \in {"notify", "unlock", "idle"}

(* The capture thread closes the slot and pushes nothing after, so that no *)
(* push is refused; the end that pop reports is the end.                   *)
Closing ==
  /\ closed => captureAt \in {"closing", "exit"}
  /\ captureAt = "exit" \/ (captureAt = "closing" /\ Decided("capture")) => closed
  /\ captureAt = "pushing" /\ Decided("capture") => ret["capture"]
  /\ processAt = "exit" \/ (processAt = "popping" /\ Decided("process") /\ ~ret["process"])
       => closed /\ item = NoFrame

NoDuplicates(s) == \A i, j \in DOMAIN s : s[i] = s[j] => i = j

(* Every buffer has one owner: one of the driver's two queues, the capture *)
(* thread, or nobody since its requeue has failed.                         *)
Owners ==
  /\ mainAt = "start" => incoming = <<>> /\ outgoing = <<>> /\ lost = {}
  /\ dq # 0 <=> captureAt \in {"copy", "requeue"}
  /\ streaming =>
       /\ NoDuplicates(incoming)
       /\ NoDuplicates(outgoing)
       /\ ToSet(incoming) \cap ToSet(outgoing) = {}
       /\ WithDriver \cap lost = {}
       /\ dq \notin WithDriver \cup lost
       /\ Bufs \subseteq WithDriver \cup lost \cup {dq}

(* f is the copy of the frame that was dequeued as the k-th, from 0.       *)
IsFrame(f, k) ==
  /\ f \in FrameBuffer
  /\ f.frame_idx = k
  /\ k + 1 \in DOMAIN captured
  /\ f.data = captured[k + 1]

(* Which frame is where: the frames with an entry, the one in the process  *)
(* thread, the one in the slot and the one in the capture thread follow    *)
(* each other without a gap.                                               *)
Tokens ==
  /\ captureAt \in {"unborn", "loop"} => Len(captured) = frame_i
  /\ captureAt \in {"copy", "requeue", "push", "pushing"} => Len(captured) = frame_i + 1
  /\ captureAt = "copy" => frame_i \in Indices /\ content[dq] = captured[frame_i + 1]
  /\ captureAt \in {"requeue", "push"} => IsFrame(copy, frame_i)
  /\ captureAt = "pushing" /\ ~Decided("capture") => IsFrame(fb["capture"], frame_i)
  /\ item # NoFrame => IsFrame(item, Len(stats) + One(ProcessHolds))
  /\ ProcessHolds => IsFrame(fb["process"], Len(stats))

(* The age of the images: what a buffer holds that the driver has filled   *)
(* is newer than all that was dequeued, and than the buffers before it;    *)
(* any other buffer holds what was dequeued from it, or nothing.           *)
Ages ==
  /\ Len(captured) + Len(outgoing) <= images
  /\ \A b \in Bufs : content[b] <= images
  /\ \A k \in DOMAIN captured : captured[k] <= images
  /\ blank \subseteq 0 .. Len(captured) - 1
  /\ mainAt = "start" \/ streaming =>
       /\ \A i, j \in DOMAIN outgoing :
            i < j /\ outgoing[i] \notin empty /\ outgoing[j] \notin empty =>
              content[outgoing[i]] < content[outgoing[j]]
       /\ \A i \in DOMAIN outgoing : outgoing[i] \notin empty =>
            /\ 0 < content[outgoing[i]]
            /\ \A k \in DOMAIN captured : captured[k] < content[outgoing[i]]
       /\ \A b \in Bufs : b \notin ToSet(outgoing) \ empty =>
            content[b] \in ToSet(captured) \cup {0}

PipelineInv ==
  /\ TypeOK
  /\ Places /\ Calling /\ Closing
  /\ Owners /\ Tokens /\ NothingLost /\ StatsInOrder
  /\ FilesMatchCapture
  /\ Ages /\ FramesAreNew

--------------------------------------------------------------------------------
(* Queues                                                                  *)

(* Appending an element.                                                   *)
LEMMA AppendFacts ==
  ASSUME NEW S, NEW s \in Seq(S), NEW e \in S
  PROVE  /\ Append(s, e) \in Seq(S)
         /\ DOMAIN Append(s, e) = 1 .. Len(s) + 1
         /\ DOMAIN s = 1 .. Len(s)
         /\ Len(s) \in Nat
         /\ Len(Append(s, e)) = Len(s) + 1
         /\ \A i \in 1 .. Len(s) : Append(s, e)[i] = s[i]
         /\ Append(s, e)[Len(s) + 1] = e
         /\ ToSet(Append(s, e)) = ToSet(s) \cup {e}
         /\ NoDuplicates(s) /\ e \notin ToSet(s) => NoDuplicates(Append(s, e))
<1> DEFINE a == Append(s, e)
<1>1. /\ a \in Seq(S) /\ Len(s) \in Nat /\ Len(a) = Len(s) + 1
      /\ \A i \in 1 .. Len(s) : a[i] = s[i]
      /\ a[Len(s) + 1] = e
  BY AppendProperties, LenProperties
<1>2. DOMAIN s = 1 .. Len(s) /\ DOMAIN a = 1 .. Len(s) + 1
  BY <1>1, LenProperties
<1> HIDE DEF a
<1>3. ToSet(a) = ToSet(s) \cup {e}
  BY <1>1, <1>2 DEF ToSet
<1>4. ASSUME NoDuplicates(s), e \notin ToSet(s) PROVE NoDuplicates(a)
  BY <1>1, <1>2, <1>4 DEF ToSet, NoDuplicates
<1> QED
  BY <1>1, <1>2, <1>3, <1>4 DEF a

(* Taking the head of a queue off.                                         *)
LEMMA TailFacts ==
  ASSUME NEW S, NEW s \in Seq(S), s # <<>>
  PROVE  /\ Len(s) \in Nat
         /\ Len(s) >= 1
         /\ DOMAIN s = 1 .. Len(s)
         /\ Head(s) = s[1]
         /\ Head(s) \in S
         /\ Head(s) \in ToSet(s)
         /\ Tail(s) \in Seq(S)
         /\ Len(Tail(s)) = Len(s) - 1
         /\ DOMAIN Tail(s) = 1 .. Len(s) - 1
         /\ \A i \in 1 .. Len(s) - 1 : Tail(s)[i] = s[i + 1]
         /\ ToSet(Tail(s)) \subseteq ToSet(s)
         /\ ToSet(s) = ToSet(Tail(s)) \cup {Head(s)}
         /\ NoDuplicates(s) =>
              NoDuplicates(Tail(s)) /\ ToSet(Tail(s)) = ToSet(s) \ {Head(s)}
<1> DEFINE t == Tail(s)
<1>1. /\ Head(s) \in S /\ t \in Seq(S) /\ Len(t) = Len(s) - 1
      /\ \A i \in 1 .. Len(t) : t[i] = s[i + 1]
  BY HeadTailProperties
<1>2. Len(s) \in Nat /\ Len(s) >= 1 /\ Head(s) = s[1]
  BY EmptySeq
<1>3. DOMAIN s = 1 .. Len(s) /\ DOMAIN t = 1 .. Len(s) - 1
  BY <1>1, LenProperties
<1> HIDE DEF t
<1>4. ToSet(s) = ToSet(t) \cup {Head(s)}
  <2>1. \A i \in DOMAIN s : i = 1 \/ (i - 1 \in DOMAIN t /\ t[i - 1] = s[i])
    BY <1>1, <1>2, <1>3
  <2>2. \A i \in DOMAIN t : i + 1 \in DOMAIN s /\ t[i] = s[i + 1]
    BY <1>1, <1>2, <1>3
  <2>3. 1 \in DOMAIN s
    BY <1>2, <1>3
  <2>4. ToSet(s) \subseteq ToSet(t) \cup {Head(s)}
    BY <1>2, <2>1 DEF ToSet
  <2>5. ToSet(t) \cup {Head(s)} \subseteq ToSet(s)
    BY <1>2, <2>2, <2>3 DEF ToSet
  <2> QED
    BY <2>4, <2>5
<1>5. ASSUME NoDuplicates(s)
      PROVE  NoDuplicates(t) /\ ToSet(t) = ToSet(s) \ {Head(s)}
  <2>1. \A i \in DOMAIN t : i \in Nat /\ i + 1 \in DOMAIN s /\ t[i] = s[i + 1]
    BY <1>1, <1>2, <1>3
  <2>2. NoDuplicates(t)
    BY <1>5, <2>1, <1>3 DEF NoDuplicates
  <2>3. Head(s) \notin ToSet(t)
    <3>1. 1 \in DOMAIN s
      BY <1>2, <1>3
    <3>2. \A i \in DOMAIN t : t[i] # s[1]
      BY <3>1, <2>1, <1>5, <1>3 DEF NoDuplicates
    <3> QED BY <3>2, <1>2 DEF ToSet
  <2> QED
    BY <2>2, <2>3, <1>4
<1> QED
  BY <1>1, <1>2, <1>3, <1>4, <1>5 DEF t
--------------------------------------------------------------------------------
(* The slot                                                                *)

(* What BoundedSlotProofs shows of the slot holds of this one.             *)
SlotProofs == INSTANCE BoundedSlotProofs WITH Frames <- FrameBuffer

(* The definitions that the two instances share are the same.              *)
LEMMA SameSlot ==
  /\ Slot!Init <=> SlotProofs!Init
  /\ [Slot!Next]_(Slot!vars) <=> [SlotProofs!Next]_(SlotProofs!vars)
  /\ Slot!TypeOK <=> SlotProofs!TypeOK
  /\ (Slot!TypeOK)' <=> (SlotProofs!TypeOK)'
<1>1. Slot!Init <=> SlotProofs!Init
  BY DEF Slot!Init, SlotProofs!Init
<1>2. [Slot!Next]_(Slot!vars) <=> [SlotProofs!Next]_(SlotProofs!vars)
  BY DEF Slot!Next, Slot!vars, Slot!CallPush, Slot!CallPop, Slot!CallClose,
         Slot!Call, Slot!Step, Slot!SpuriousWake, Slot!Lock, Slot!Block,
         Slot!PushRefused, Slot!Ready, Slot!Proceed, Slot!PushStore,
         Slot!PopEmpty, Slot!PopTake, Slot!CloseSet, Slot!NotifyAll, Slot!Unlock,
         SlotProofs!Next, SlotProofs!vars, SlotProofs!CallPush,
         SlotProofs!CallPop, SlotProofs!CallClose, SlotProofs!Call,
         SlotProofs!Step, SlotProofs!SpuriousWake, SlotProofs!Lock,
         SlotProofs!Block, SlotProofs!PushRefused, SlotProofs!Ready,
         SlotProofs!Proceed, SlotProofs!PushStore, SlotProofs!PopEmpty,
         SlotProofs!PopTake, SlotProofs!CloseSet, SlotProofs!NotifyAll,
         SlotProofs!Unlock
<1>3. Slot!TypeOK <=> SlotProofs!TypeOK
  BY DEF Slot!TypeOK, SlotProofs!TypeOK
<1>4. (Slot!TypeOK)' <=> (SlotProofs!TypeOK)'
  BY DEF Slot!TypeOK, SlotProofs!TypeOK
<1> QED
  BY <1>1, <1>2, <1>3, <1>4

LEMMA SlotTypeStep ==
  Slot!TypeOK /\ [Slot!Next]_(Slot!vars) => (Slot!TypeOK)'
<1>1. SlotProofs!TypeOK /\ [SlotProofs!Next]_(SlotProofs!vars)
        => (SlotProofs!TypeOK)'
  BY SlotProofs!TypeStep, PipelineAssumption DEF SlotProofs!SlotAssumption
<1> QED
  BY <1>1, SameSlot

(* Every step of the program is a step of the slot's most general client.  *)
LEMMA ClientStep == Tokens /\ [Next]_vars => [Slot!Next]_(Slot!vars)
<1> SUFFICES ASSUME Tokens, [Next]_vars PROVE [Slot!Next]_(Slot!vars)
  OBVIOUS
<1>a. "capture" \in Threads /\ "process" \in Threads
  BY DEF Threads
<1>1. CASE UNCHANGED slotVars
  BY <1>1 DEF slotVars, Slot!vars
<1>2. CASE CapturePush
  <2>1. copy \in FrameBuffer
    BY <1>2 DEF CapturePush, CaptureGoes, Tokens, IsFrame
  <2> QED
    BY <1>2, <1>a, <2>1 DEF CapturePush, Slot!Next
<1>3. CASE CaptureClose
  BY <1>3, <1>a DEF CaptureClose, Slot!Next
<1>4. CASE ProcessPop
  BY <1>4, <1>a DEF ProcessPop, Slot!Next
<1>5. ASSUME NEW t \in Threads, InSlot(t) \/ SpuriousWake(t)
      PROVE  Slot!Next
  BY <1>5 DEF InSlot, SpuriousWake, Slot!Next
<1>6. ASSUME Main PROVE UNCHANGED slotVars
  BY <1>6
  DEF Main, MainStart, MainStartFails, MainGivesUp, MainAborts, MainSpawn,
      MainJoinCapture, MainJoinProcess, MainStop, MainClose
<1>7. ASSUME Capture, ~CapturePush, ~CaptureClose PROVE UNCHANGED slotVars
  BY <1>7
  DEF Capture, CaptureDequeue, CaptureDequeueFails, CaptureLoopEnds,
      CaptureCopy, CaptureRequeue, CapturePushReturns, CaptureExit
<1>8. ASSUME Process, ~ProcessPop PROVE UNCHANGED slotVars
  BY <1>8 DEF Process, ProcessPopReturns, ProcessFrame
<1>9. ASSUME Driver \/ Ended \/ UNCHANGED vars PROVE UNCHANGED slotVars
  BY <1>9 DEF Driver, Ended, vars
<1> QED
  BY <1>1, <1>2, <1>3, <1>4, <1>5, <1>6, <1>7, <1>8, <1>9 DEF Next

(* What a step inside a method of the slot is, given who calls which.      *)
ElseUnchanged == UNCHANGED <<queueVars, mainVars, captureVars, processVars>>

(* No frame moves, and no thread learns the outcome of its call.           *)
Quiet ==
  /\ ElseUnchanged
  /\ UNCHANGED <<item, closed, op, fb, ret>>
  /\ \A u \in Threads : /\ Decided(u)' <=> Decided(u)
                        /\ pc[u] = "idle" => pc'[u] = "idle"

(* The thread t leaves the wait of the method o, which will return r.      *)
Outcome(t, o, r) ==
  /\ ElseUnchanged
  /\ op[t] = o
  /\ ~Decided(t) /\ Decided(t)'
  /\ pc' = [pc EXCEPT ![t] = pc'[t]]
  /\ ret' = [ret EXCEPT ![t] = r]
  /\ UNCHANGED op

Stored ==
  /\ Outcome("capture", "push", TRUE)
  /\ captureAt = "pushing"
  /\ item = NoFrame /\ ~closed
  /\ item' = fb["capture"]
  /\ fb' = [fb EXCEPT !["capture"] = NoFrame]
  /\ UNCHANGED closed

Taken ==
  /\ Outcome("process", "pop", TRUE)
  /\ processAt = "popping"
  /\ item # NoFrame
  /\ item' = NoFrame
  /\ fb' = [fb EXCEPT !["process"] = item]
  /\ UNCHANGED closed

FoundEnd ==
  /\ Outcome("process", "pop", FALSE)
  /\ processAt = "popping"
  /\ item = NoFrame /\ closed
  /\ UNCHANGED <<item, closed, fb>>

Shut ==
  /\ Outcome("capture", "close", TRUE)
  /\ captureAt = "closing"
  /\ closed' = TRUE
  /\ UNCHANGED <<item, fb>>

LEMMA SlotCases ==
  ASSUME TypeOK, Calling, Closing, NEW t \in Threads, InSlot(t) \/ SpuriousWake(t)
  PROVE  Quiet \/ Stored \/ Taken \/ FoundEnd \/ Shut
<1>0. /\ pc \in [Threads -> {"idle", "lock", "test", "blocked", "notify", "unlock"}]
      /\ op \in [Threads -> {"push", "pop", "close"}]
      /\ fb \in [Threads -> FrameBuffer \cup {NoFrame}]
      /\ ret \in [Threads -> BOOLEAN]
      /\ ElseUnchanged
  BY DEF TypeOK, Slot!TypeOK, InSlot, SpuriousWake, ElseUnchanged
<1>1. pc[t] # "idle"
  BY <1>0 DEF InSlot, SpuriousWake, Slot!SpuriousWake, Slot!Step, Slot!Lock,
     Slot!Block, Slot!PushRefused, Slot!PushStore, Slot!PopEmpty, Slot!PopTake,
     Slot!CloseSet, Slot!NotifyAll, Slot!Unlock, Slot!Proceed
<1>2. /\ t = "capture" => \/ captureAt = "pushing" /\ op[t] = "push"
                          \/ captureAt = "closing" /\ op[t] = "close"
      /\ t = "process" => processAt = "popping" /\ op[t] = "pop"
      /\ t = "capture" \/ t = "process"
  BY <1>1 DEF Calling, Threads
<1>3. CASE SpuriousWake(t)
  BY <1>0, <1>3 DEF SpuriousWake, Slot!SpuriousWake, Quiet, Decided
<1>4. CASE Slot!Lock(t)
  BY <1>0, <1>4 DEF Slot!Lock, Quiet, Decided
<1>5. CASE Slot!Block(t)
  BY <1>0, <1>5 DEF Slot!Block, Quiet, Decided
<1>6. CASE Slot!NotifyAll(t)
  BY <1>0, <1>6 DEF Slot!NotifyAll, Quiet, Decided
<1>7. CASE Slot!Unlock(t)
  BY <1>0, <1>7 DEF Slot!Unlock, Quiet, Decided
<1>8. CASE Slot!PushRefused(t)
  <2>1. FALSE
    BY <1>2, <1>8 DEF Slot!PushRefused, Slot!Proceed, Closing
  <2> QED
    BY <2>1
<1>9. CASE Slot!PushStore(t)
  BY <1>0, <1>2, <1>9
  DEF Slot!PushStore, Slot!Proceed, Slot!Ready, Stored, Outcome, Decided
<1>10. CASE Slot!PopEmpty(t)
  BY <1>0, <1>2, <1>10
  DEF Slot!PopEmpty, Slot!Proceed, Slot!Ready, FoundEnd, Outcome, Decided
<1>11. CASE Slot!PopTake(t)
  BY <1>0, <1>2, <1>11
  DEF Slot!PopTake, Slot!Proceed, Slot!Ready, Taken, Outcome, Decided
<1>12. CASE Slot!CloseSet(t)
  BY <1>0, <1>2, <1>12
  DEF Slot!CloseSet, Slot!Proceed, Slot!Ready, Shut, Outcome, Decided
<1> QED
  BY <1>3, <1>4, <1>5, <1>6, <1>7, <1>8, <1>9, <1>10, <1>11, <1>12
  DEF InSlot, Slot!Step

LEMMA NextCases ==
  ASSUME TypeOK, Calling, Closing, [Next]_vars
  PROVE  Main \/ Capture \/ Process \/ Driver
         \/ Quiet \/ Stored \/ Taken \/ FoundEnd \/ Shut
<1>1. ASSUME UNCHANGED vars PROVE Quiet
  BY <1>1
  DEF vars, slotVars, queueVars, mainVars, captureVars, processVars, Quiet,
      ElseUnchanged, Decided
<1> QED
  BY <1>1, SlotCases DEF Next, Ended

--------------------------------------------------------------------------------
(* Control: where main and the threads are, and what they know of the slot *)

Control == Places /\ Calling /\ Closing

LEMMA PlacesStep ==
  ASSUME TypeOK, Control, [Next]_vars
  PROVE  Places'
<1> USE DEF Control, Places
<1>1. CASE Main
  BY <1>1
  DEF Main, MainGoes, MainStart, MainStartFails, MainGivesUp, MainAborts,
      MainSpawn, MainJoinCapture, MainJoinProcess, MainStop, MainClose,
      CameraStart, CameraStartFails, CameraStop, CameraClose, queueVars,
      captureVars, processVars
<1>2. CASE Capture
  BY <1>2
  DEF Capture, CaptureGoes, CaptureDequeue, CaptureDequeueFails, CaptureLoopEnds,
      CaptureCopy, CaptureRequeue, CapturePush, CapturePushReturns, CaptureClose,
      CaptureExit, CameraDequeue, CameraDequeueFails, CameraRequeue, queueVars,
      mainVars, processVars
<1>3. CASE Process
  BY <1>3
  DEF Process, ProcessGoes, ProcessPop, ProcessPopReturns, ProcessFrame,
      queueVars, mainVars, captureVars
<1>4. CASE Driver
  BY <1>4
  DEF Driver, DriverFill, DriverFillEmpty, DriverDrop, mainVars, captureVars,
      processVars
<1>5. CASE Quiet \/ Stored \/ Taken \/ FoundEnd \/ Shut
  BY <1>5
  DEF Quiet, Stored, Taken, FoundEnd, Shut, Outcome, ElseUnchanged, queueVars,
      mainVars, captureVars, processVars
<1> QED
  BY <1>1, <1>2, <1>3, <1>4, <1>5, NextCases

LEMMA CallingStep ==
  ASSUME TypeOK, Control, [Next]_vars
  PROVE  Calling'
<1>0. /\ pc \in [Threads -> {"idle", "lock", "test", "blocked", "notify", "unlock"}]
      /\ op \in [Threads -> {"push", "pop", "close"}]
      /\ "capture" \in Threads /\ "process" \in Threads
  BY DEF TypeOK, Slot!TypeOK, Threads
<1> USE <1>0 DEF Control, Calling
<1>1. CASE Main
  BY <1>1
  DEF Places, Main, MainGoes, MainStart, MainStartFails, MainGivesUp, MainAborts,
      MainSpawn, MainJoinCapture, MainJoinProcess, MainStop, MainClose,
      slotVars, captureVars, processVars
<1>2. CASE Capture
  BY <1>2
  DEF Capture, CaptureGoes, CaptureDequeue, CaptureDequeueFails, CaptureLoopEnds,
      CaptureCopy, CaptureRequeue, CapturePush, CapturePushReturns, CaptureClose,
      CaptureExit, Slot!CallPush, Slot!CallClose, Slot!Call, slotVars, processVars
<1>3. CASE Process
  BY <1>3
  DEF Process, ProcessGoes, ProcessPop, ProcessPopReturns, ProcessFrame,
      Slot!CallPop, Slot!Call, slotVars, captureVars
<1>4. CASE Driver
  BY <1>4 DEF Driver, slotVars, captureVars, processVars
<1>5. CASE Quiet
  BY <1>5 DEF Quiet, ElseUnchanged, captureVars, processVars
<1>6. CASE Stored \/ Taken \/ FoundEnd \/ Shut
  BY <1>6
  DEF Stored, Taken, FoundEnd, Shut, Outcome, ElseUnchanged, captureVars, processVars
<1> QED
  BY <1>1, <1>2, <1>3, <1>4, <1>5, <1>6, NextCases

LEMMA ClosingStep ==
  ASSUME TypeOK, Control, [Next]_vars
  PROVE  Closing'
<1>0. /\ pc \in [Threads -> {"idle", "lock", "test", "blocked", "notify", "unlock"}]
      /\ op \in [Threads -> {"push", "pop", "close"}]
      /\ ret \in [Threads -> BOOLEAN]
      /\ "capture" \in Threads /\ "process" \in Threads
  BY DEF TypeOK, Slot!TypeOK, Threads
<1> USE <1>0 DEF Control, Closing, Decided
<1>1. CASE Main
  BY <1>1
  DEF Places, Main, MainGoes, MainStart, MainStartFails, MainGivesUp, MainAborts,
      MainSpawn, MainJoinCapture, MainJoinProcess, MainStop, MainClose,
      slotVars, captureVars, processVars
<1>2. CASE Capture
  BY <1>2
  DEF Calling, Capture, CaptureGoes, CaptureDequeue, CaptureDequeueFails,
      CaptureLoopEnds, CaptureCopy, CaptureRequeue, CapturePush,
      CapturePushReturns, CaptureClose, CaptureExit, Slot!CallPush,
      Slot!CallClose, Slot!Call, slotVars, processVars
<1>3. CASE Process
  BY <1>3
  DEF Calling, Process, ProcessGoes, ProcessPop, ProcessPopReturns, ProcessFrame,
      Slot!CallPop, Slot!Call, slotVars, captureVars
<1>4. CASE Driver
  BY <1>4 DEF Driver, slotVars, captureVars, processVars
<1>5. CASE Quiet
  BY <1>5 DEF Quiet, ElseUnchanged, captureVars, processVars
<1>6. CASE Stored
  BY <1>6 DEF Stored, Calling, Outcome, ElseUnchanged, captureVars, processVars
<1>7. CASE Taken
  BY <1>7 DEF Taken, Calling, Outcome, ElseUnchanged, captureVars, processVars
<1>8. CASE FoundEnd
  BY <1>8 DEF FoundEnd, Calling, Outcome, ElseUnchanged, captureVars, processVars
<1>9. CASE Shut
  BY <1>9 DEF Shut, Calling, Outcome, ElseUnchanged, captureVars, processVars
<1> QED
  BY <1>1, <1>2, <1>3, <1>4, <1>5, <1>6, <1>7, <1>8, <1>9, NextCases

--------------------------------------------------------------------------------
(* The buffers                                                             *)

(* While the capture thread lives, main waits for it and the camera        *)
(* streams.                                                                *)
LEMMA CaptureLives ==
  ASSUME TypeOK, Places, captureAt \notin {"unborn", "exit"}
  PROVE  mainAt = "joinCapture" /\ streaming /\ mapped
  BY DEF TypeOK, Places

LEMMA OwnersStep ==
  ASSUME TypeOK, Control, Owners, [Next]_vars
  PROVE  Owners'
<1>0. /\ incoming \in Seq(Bufs) /\ outgoing \in Seq(Bufs)
      /\ dq \in 0 .. NBufs /\ NBufs \in Nat
      /\ Bufs = 1 .. NBufs
      /\ Places /\ Calling /\ Closing
  BY QueueAssumption DEF TypeOK, QueueTypeOK, Bufs, Control
<1>1. CASE Main
  <2>1. CASE MainStart
    <3>1. incoming' = [i \in Bufs |-> i] /\ outgoing' = <<>> /\ lost' = {}
      BY <2>1, <1>0 DEF MainStart, MainGoes, CameraStart, Owners
    <3>2. DOMAIN incoming' = Bufs /\ ToSet(incoming') = Bufs
      BY <3>1 DEF ToSet
    <3>3. ToSet(outgoing') = {} /\ DOMAIN outgoing' = {}
      BY <3>1 DEF ToSet
    <3>4. NoDuplicates(incoming')
      BY <3>1, <3>2 DEF NoDuplicates
    <3>5. NoDuplicates(outgoing')
      BY <3>3 DEF NoDuplicates
    <3>6. WithDriver' = Bufs
      BY <3>2, <3>3 DEF WithDriver
    <3>7. captureAt' = "unborn" /\ dq' = 0 /\ mainAt' = "reserve" /\ 0 \notin Bufs
      BY <2>1, <1>0 DEF MainStart, MainGoes, captureVars, Owners, Places
    <3> QED
      BY <3>1, <3>2, <3>3, <3>4, <3>5, <3>6, <3>7 DEF Owners
  <2>2. CASE MainStartFails
    BY <1>0, <2>2
    DEF MainStartFails, MainGoes, CameraStartFails, captureVars, Owners, Places
  <2>3. CASE MainSpawn
    BY <1>0, <2>3
    DEF MainSpawn, MainGoes, queueVars, Owners, Places, WithDriver
  <2>4. CASE MainAborts \/ MainJoinCapture \/ MainJoinProcess
    BY <1>0, <2>4
    DEF MainAborts, MainJoinCapture, MainJoinProcess, MainGoes, queueVars,
        captureVars, Owners, WithDriver
  <2>5. CASE MainStop \/ MainClose \/ MainGivesUp
    BY <1>0, <2>5
    DEF MainStop, MainClose, MainGivesUp, MainGoes, CameraStop, CameraClose,
        captureVars, Owners
  <2> QED
    BY <1>1, <2>1, <2>2, <2>3, <2>4, <2>5 DEF Main
<1>2. CASE CaptureDequeue
  <2>1. /\ outgoing # <<>> /\ dq' = Head(outgoing) /\ outgoing' = Tail(outgoing)
        /\ UNCHANGED <<incoming, lost, streaming>>
        /\ captureAt = "loop" /\ captureAt' = "copy" /\ UNCHANGED mainAt
    BY <1>2 DEF CaptureDequeue, CaptureGoes, CameraDequeue, mainVars
  <2>2. streaming /\ mainAt = "joinCapture" /\ dq = 0
    BY <1>0, <2>1, CaptureLives DEF Owners
  <2>3. /\ NoDuplicates(incoming) /\ NoDuplicates(outgoing)
        /\ ToSet(incoming) \cap ToSet(outgoing) = {}
        /\ WithDriver \cap lost = {}
        /\ Bufs \subseteq WithDriver \cup lost \cup {dq}
    BY <2>2 DEF Owners
  <2>4. /\ Head(outgoing) \in Bufs /\ Head(outgoing) \in ToSet(outgoing)
        /\ NoDuplicates(outgoing') /\ ToSet(outgoing') = ToSet(outgoing) \ {dq'}
    BY <1>0, <2>1, <2>3, TailFacts
  <2>5. WithDriver' = WithDriver \ {dq'}
    BY <2>1, <2>3, <2>4 DEF WithDriver
  <2>6. dq' \in Bufs /\ dq' # 0 /\ 0 \notin Bufs
    BY <1>0, <2>1, <2>4
  <2>7. dq' \in WithDriver
    BY <2>1, <2>4 DEF WithDriver
  <2>8. Bufs \subseteq WithDriver' \cup lost' \cup {dq'}
    BY <2>1, <2>2, <2>3, <2>5, <2>6
  <2> QED
    BY <2>1, <2>2, <2>3, <2>4, <2>5, <2>6, <2>7, <2>8 DEF Owners
<1>3. CASE CaptureRequeue
  <2>1. /\ captureAt = "requeue" /\ captureAt' = "push" /\ UNCHANGED mainAt
        /\ dq' = 0 /\ UNCHANGED <<outgoing, streaming>>
        /\ \/ incoming' = Append(incoming, dq) /\ UNCHANGED lost
           \/ lost' = lost \cup {dq} /\ UNCHANGED incoming
    BY <1>3 DEF CaptureRequeue, CaptureGoes, CameraRequeue, mainVars
  <2>2. streaming /\ mainAt = "joinCapture" /\ dq \in Bufs /\ 0 \notin Bufs
    BY <1>0, <2>1, CaptureLives DEF Owners
  <2>3. /\ NoDuplicates(incoming) /\ NoDuplicates(outgoing)
        /\ ToSet(incoming) \cap ToSet(outgoing) = {}
        /\ WithDriver \cap lost = {}
        /\ dq \notin WithDriver \cup lost
        /\ Bufs \subseteq WithDriver \cup lost \cup {dq}
        /\ WithDriver = ToSet(incoming) \cup ToSet(outgoing)
    BY <2>2 DEF Owners, WithDriver
  <2>4. WithDriver' = ToSet(incoming') \cup ToSet(outgoing)
    BY <2>1 DEF WithDriver
  <2>5. lost \subseteq Bufs /\ WithDriver \subseteq Bufs
    BY <1>0, LenProperties DEF TypeOK, QueueTypeOK, WithDriver, ToSet
  <2>6. CASE incoming' = Append(incoming, dq) /\ UNCHANGED lost
    <3>1. NoDuplicates(incoming') /\ ToSet(incoming') = ToSet(incoming) \cup {dq}
      BY <1>0, <2>2, <2>3, <2>6, AppendFacts
    <3> QED
      BY <2>1, <2>2, <2>3, <2>4, <2>5, <2>6, <3>1 DEF Owners
  <2>7. CASE lost' = lost \cup {dq} /\ UNCHANGED incoming
    BY <2>1, <2>2, <2>3, <2>4, <2>5, <2>7 DEF Owners
  <2> QED
    BY <2>1, <2>6, <2>7
<1>4. ASSUME Capture, ~CaptureDequeue, ~CaptureRequeue
      PROVE  /\ UNCHANGED <<queueVars, mainAt, dq>>
             /\ captureAt \in {"copy", "requeue"}
                  <=> captureAt' \in {"copy", "requeue"}
  BY <1>4
  DEF Capture, CaptureGoes, CaptureDequeueFails, CaptureLoopEnds, CaptureCopy,
      CapturePush, CapturePushReturns, CaptureClose, CaptureExit,
      CameraDequeueFails, mainVars
<1>5. ASSUME UNCHANGED <<queueVars, mainAt, dq>>,
             captureAt \in {"copy", "requeue"} <=> captureAt' \in {"copy", "requeue"}
      PROVE  Owners'
  BY <1>5 DEF queueVars, Owners, WithDriver
<1>6. CASE Process
  BY <1>5, <1>6
  DEF Process, ProcessGoes, ProcessPop, ProcessPopReturns, ProcessFrame,
      mainVars, captureVars
<1>7. CASE Quiet \/ Stored \/ Taken \/ FoundEnd \/ Shut
  BY <1>5, <1>7
  DEF Quiet, Stored, Taken, FoundEnd, Shut, Outcome, ElseUnchanged, mainVars,
      captureVars
<1>8. CASE Driver
  <2> DEFINE b == Head(incoming)
  <2>1. UNCHANGED <<mainAt, captureAt, dq, lost, streaming>> /\ streaming
    BY <1>8
    DEF Driver, DriverFill, DriverFillEmpty, DriverDrop, mainVars, captureVars
  <2>2. mainAt # "start"
    BY <1>0, <2>1 DEF Places
  <2>3. CASE DriverDrop
    BY <2>1, <2>2, <2>3 DEF DriverDrop, Owners, WithDriver
  <2>4. CASE DriverFill \/ DriverFillEmpty
    <3>1. /\ incoming # <<>> /\ incoming' = Tail(incoming)
          /\ outgoing' = Append(outgoing, b)
      BY <2>4 DEF DriverFill, DriverFillEmpty
    <3>2. /\ NoDuplicates(incoming) /\ NoDuplicates(outgoing)
          /\ ToSet(incoming) \cap ToSet(outgoing) = {}
      BY <2>1 DEF Owners
    <3>3. /\ b \in Bufs /\ b \in ToSet(incoming)
          /\ NoDuplicates(incoming') /\ ToSet(incoming') = ToSet(incoming) \ {b}
      BY <1>0, <3>1, <3>2, TailFacts
    <3>4. b \notin ToSet(outgoing)
      BY <3>2, <3>3
    <3>5. NoDuplicates(outgoing') /\ ToSet(outgoing') = ToSet(outgoing) \cup {b}
      BY <1>0, <3>1, <3>2, <3>3, <3>4, AppendFacts
    <3>6. WithDriver' = WithDriver /\ ToSet(incoming') \cap ToSet(outgoing') = {}
      BY <3>2, <3>3, <3>4, <3>5 DEF WithDriver
    <3> QED
      BY <2>1, <2>2, <3>3, <3>5, <3>6 DEF Owners
  <2> QED
    BY <1>8, <2>3, <2>4 DEF Driver
<1> QED
  BY <1>0, <1>1, <1>2, <1>3, <1>4, <1>5, <1>6, <1>7, <1>8, NextCases

--------------------------------------------------------------------------------
(* Types                                                                   *)

(* A filled buffer that is not dequeued yet keeps the loop counter within  *)
(* the images of the sensor.                                               *)
LEMMA LoopCounter ==
  ASSUME TypeOK, Tokens, Ages, captureAt = "loop", frame_i < n_frames,
         outgoing # <<>>
  PROVE  frame_i \in Indices
<1>1. outgoing \in Seq(Bufs) /\ Len(captured) \in Nat /\ Len(outgoing) \in Nat
  BY LenProperties DEF TypeOK, QueueTypeOK
<1>2. Len(outgoing) >= 1
  BY <1>1, TailFacts
<1>3. Len(captured) = frame_i /\ Len(captured) + Len(outgoing) <= images
  BY DEF Tokens, Ages
<1>4. images \in 0 .. MaxImages /\ MaxImages \in Nat
  BY QueueAssumption DEF TypeOK, QueueTypeOK
<1>5. frame_i \in 0 .. MaxImages
  BY <1>1, <1>2, <1>3, <1>4
<1>6. n_frames \in FrameCounts
  BY DEF TypeOK
<1> QED
  BY <1>5, <1>6 DEF Indices

LEMMA QueueTypeStep ==
  ASSUME TypeOK, Owners, [Next]_vars, Calling, Closing
  PROVE  QueueTypeOK'
<1>0. /\ incoming \in Seq(Bufs) /\ outgoing \in Seq(Bufs)
      /\ dq \in 0 .. NBufs /\ NBufs \in Nat /\ MaxImages \in Nat
      /\ Bufs = 1 .. NBufs
      /\ <<>> \in Seq(Bufs)
  BY QueueAssumption, EmptySeq DEF TypeOK, QueueTypeOK, Bufs
<1>i. \A k \in 0 .. NBufs : [i \in 1 .. k |-> i] \in Seq(Bufs)
  <2> SUFFICES ASSUME NEW k \in 0 .. NBufs PROVE [i \in 1 .. k |-> i] \in Seq(Bufs)
    OBVIOUS
  <2>1. k \in Nat /\ \A i \in 1 .. k : i \in Bufs
    BY <1>0
  <2> QED
    BY <2>1, IsASeq
<1>1. CASE Main
  <2>1. CASE MainStart
    <3>1. NBufs \in 0 .. NBufs
      BY <1>0
    <3>2. incoming' \in Seq(Bufs)
      BY <1>i, <2>1, <3>1 DEF MainStart, CameraStart
    <3> QED
      BY <2>1, <3>2 DEF MainStart, CameraStart, TypeOK, QueueTypeOK
  <2>2. CASE MainStartFails
    BY <1>0, <1>i, <2>2 DEF MainStartFails, CameraStartFails, TypeOK, QueueTypeOK
  <2>3. CASE MainGivesUp \/ MainStop \/ MainClose
    BY <1>0, <2>3
    DEF MainGivesUp, MainStop, MainClose, CameraStop, CameraClose, TypeOK,
        QueueTypeOK
  <2>4. CASE MainAborts \/ MainSpawn \/ MainJoinCapture \/ MainJoinProcess
    BY <2>4
    DEF MainAborts, MainSpawn, MainJoinCapture, MainJoinProcess, queueVars,
        TypeOK, QueueTypeOK
  <2> QED
    BY <1>1, <2>1, <2>2, <2>3, <2>4 DEF Main
<1>2. CASE CaptureDequeue
  <2>1. outgoing # <<>> /\ outgoing' = Tail(outgoing)
        /\ UNCHANGED <<incoming, content, empty, images, streaming, mapped, lost>>
    BY <1>2 DEF CaptureDequeue, CameraDequeue
  <2>2. outgoing' \in Seq(Bufs)
    BY <1>0, <2>1, TailFacts
  <2> QED
    BY <2>1, <2>2 DEF TypeOK, QueueTypeOK
<1>3. CASE CaptureRequeue
  <2>1. dq \in Bufs
    BY <1>0, <1>3 DEF CaptureRequeue, CaptureGoes, Owners
  <2>2. Append(incoming, dq) \in Seq(Bufs)
    BY <1>0, <2>1, AppendFacts
  <2> QED
    BY <1>3, <2>1, <2>2 DEF CaptureRequeue, CameraRequeue, TypeOK, QueueTypeOK
<1>4. ASSUME Capture, ~CaptureDequeue, ~CaptureRequeue PROVE UNCHANGED queueVars
  BY <1>4
  DEF Capture, CaptureDequeueFails, CaptureLoopEnds, CaptureCopy, CapturePush,
      CapturePushReturns, CaptureClose, CaptureExit, CameraDequeueFails
<1>5. ASSUME Process \/ Quiet \/ Stored \/ Taken \/ FoundEnd \/ Shut
      PROVE  UNCHANGED queueVars
  BY <1>5
  DEF Process, ProcessGoes, ProcessPop, ProcessPopReturns, ProcessFrame,
      Quiet, Stored, Taken, FoundEnd, Shut, Outcome, ElseUnchanged
<1>6. ASSUME UNCHANGED queueVars PROVE QueueTypeOK'
  BY <1>6 DEF queueVars, TypeOK, QueueTypeOK
<1>7. CASE Driver
  <2>1. CASE DriverDrop
    BY <1>0, <2>1 DEF DriverDrop, TypeOK, QueueTypeOK
  <2>2. CASE DriverFill \/ DriverFillEmpty
    <3>1. /\ incoming # <<>> /\ incoming' = Tail(incoming)
          /\ outgoing' = Append(outgoing, Head(incoming))
          /\ images < MaxImages /\ images' = images + 1
      BY <2>2 DEF DriverFill, DriverFillEmpty
    <3>2. Head(incoming) \in Bufs /\ incoming' \in Seq(Bufs)
      BY <1>0, <3>1, TailFacts
    <3>3. outgoing' \in Seq(Bufs)
      BY <1>0, <3>1, <3>2, AppendFacts
    <3>4. images' \in 0 .. MaxImages
      BY <1>0, <3>1 DEF TypeOK, QueueTypeOK
    <3>5. content' \in [Bufs -> 0 .. MaxImages]
      BY <1>0, <2>2, <3>1, <3>2, <3>4
      DEF DriverFill, DriverFillEmpty, TypeOK, QueueTypeOK
    <3> QED
      BY <2>2, <3>2, <3>3, <3>4, <3>5
      DEF DriverFill, DriverFillEmpty, TypeOK, QueueTypeOK
  <2> QED
    BY <1>7, <2>1, <2>2 DEF Driver
<1> QED
  BY <1>1, <1>2, <1>3, <1>4, <1>5, <1>6, <1>7, NextCases

LEMMA TypeStep ==
  ASSUME TypeOK, Control, Owners, Tokens, Ages, [Next]_vars
  PROVE  TypeOK'
<1>0. Places /\ Calling /\ Closing
  BY DEF Control
<1>1. (Slot!TypeOK)'
  BY ClientStep, SlotTypeStep DEF TypeOK
<1>2. QueueTypeOK'
  BY <1>0, QueueTypeStep
<1> SUFFICES
      /\ n_frames' \in FrameCounts
      /\ mainAt' \in {"start", "reserve", "joinCapture", "joinProcess", "stop",
                      "close", "done", "giveUp", "failed", "aborted"}
      /\ captureAt' \in {"unborn", "loop", "copy", "requeue", "push", "pushing",
                         "close", "closing", "exit"}
      /\ processAt' \in {"unborn", "pop", "popping", "frame", "exit"}
      /\ frame_i' \in Nat
      /\ dq' \in 0 .. NBufs
      /\ copy' \in FrameBuffer \cup {NoFrame}
      /\ captured' \in Seq(0 .. MaxImages)
      /\ blank' \subseteq Indices
      /\ stats' \in Seq(Indices)
      /\ files' \in [DOMAIN files' -> 0 .. MaxImages] /\ DOMAIN files' \subseteq Indices
  BY <1>1, <1>2 DEF TypeOK
<1> USE DEF TypeOK
<1>3. CASE Main
  BY <1>3
  DEF Main, MainGoes, MainStart, MainStartFails, MainGivesUp, MainAborts,
      MainSpawn, MainJoinCapture, MainJoinProcess, MainStop, MainClose,
      captureVars, processVars
<1>4. CASE CaptureDequeue
  <2> DEFINE b == Head(outgoing)
  <2>1. /\ outgoing # <<>> /\ dq' = b
        /\ captured' = Append(captured, content[b])
        /\ blank' \in {blank, blank \cup {frame_i}}
    BY <1>4 DEF CaptureDequeue, CameraDequeue
  <2>2. frame_i \in Indices
    BY <1>4, <2>1, LoopCounter DEF CaptureDequeue, CaptureGoes
  <2>3. b \in Bufs
    BY <2>1, TailFacts DEF QueueTypeOK
  <2>4. content[b] \in 0 .. MaxImages
    BY <2>3 DEF QueueTypeOK
  <2>5. captured' \in Seq(0 .. MaxImages)
    BY <2>1, <2>4, AppendFacts
  <2>6. dq' \in 0 .. NBufs
    BY <2>1, <2>3, QueueAssumption DEF Bufs
  <2>7. UNCHANGED <<n_frames, mainAt, processAt, stats, files, frame_i, copy>>
        /\ captureAt' = "copy"
    BY <1>4 DEF CaptureDequeue, CaptureGoes, mainVars, processVars
  <2> QED
    BY <2>1, <2>2, <2>5, <2>6, <2>7
<1>5. CASE CaptureCopy
  <2>1. dq \in Bufs /\ frame_i \in Indices
    BY <1>5, QueueAssumption DEF CaptureCopy, CaptureGoes, Owners, Tokens, Bufs
  <2>2. copy' \in FrameBuffer
    BY <1>5, <2>1 DEF CaptureCopy, FrameBuffer, QueueTypeOK
  <2> QED
    BY <1>5, <2>2 DEF CaptureCopy, CaptureGoes, mainVars, processVars
<1>6. ASSUME Capture, ~CaptureDequeue, ~CaptureCopy
      PROVE  /\ UNCHANGED <<mainVars, processVars, captured, blank>>
             /\ captureAt' \in {"loop", "push", "pushing", "close", "closing", "exit"}
             /\ frame_i' \in {frame_i, frame_i + 1}
             /\ dq' \in {dq, 0}
             /\ copy' \in {copy, NoFrame}
  BY <1>6
  DEF Capture, CaptureGoes, CaptureDequeueFails, CaptureLoopEnds, CaptureRequeue,
      CapturePush, CapturePushReturns, CaptureClose, CaptureExit
<1>7. CASE Capture /\ ~CaptureDequeue /\ ~CaptureCopy
  BY <1>6, <1>7, QueueAssumption DEF mainVars, processVars
<1>8. CASE ProcessPop \/ ProcessPopReturns
  BY <1>8
  DEF ProcessGoes, ProcessPop, ProcessPopReturns, mainVars, captureVars
<1>9. CASE ProcessFrame
  <2> DEFINE f == fb["process"]
  <2>1. f \in FrameBuffer
    BY <1>9 DEF ProcessFrame, ProcessGoes, ProcessHolds, Tokens, IsFrame
  <2>2. f.frame_idx \in Indices /\ f.data \in 0 .. MaxImages
    BY <2>1 DEF FrameBuffer
  <2>3. stats' \in Seq(Indices)
    BY <1>9, <2>2, AppendFacts DEF ProcessFrame
  <2>4. CASE UNCHANGED files
    BY <1>9, <2>3, <2>4 DEF ProcessFrame, ProcessGoes, mainVars, captureVars
  <2>5. CASE files' = [n \in DOMAIN files \cup {f.frame_idx} |->
                         IF n = f.frame_idx THEN f.data ELSE files[n]]
    <3>1. DOMAIN files' = DOMAIN files \cup {f.frame_idx}
      BY <2>5
    <3>2. files' \in [DOMAIN files' -> 0 .. MaxImages]
      BY <2>2, <2>5, <3>1
    <3> QED
      BY <1>9, <2>2, <2>3, <3>1, <3>2
      DEF ProcessFrame, ProcessGoes, mainVars, captureVars
  <2> QED
    BY <1>9, <2>4, <2>5 DEF ProcessFrame
<1>10. CASE Driver
  BY <1>10 DEF Driver, mainVars, captureVars, processVars
<1>11. CASE Quiet \/ Stored \/ Taken \/ FoundEnd \/ Shut
  BY <1>11
  DEF Quiet, Stored, Taken, FoundEnd, Shut, Outcome, ElseUnchanged, mainVars,
      captureVars, processVars
<1> QED
  BY <1>0, <1>3, <1>4, <1>5, <1>7, <1>8, <1>9, <1>10, <1>11, NextCases DEF Process

--------------------------------------------------------------------------------
(* The frames                                                              *)

LEMMA HoldsByOutcome ==
  ASSUME TypeOK
  PROVE  /\ CaptureHolds <=> \/ captureAt \in {"copy", "requeue", "push"}
                             \/ captureAt = "pushing" /\ ~Decided("capture")
         /\ ProcessHolds <=> \/ processAt = "frame"
                             \/ /\ processAt = "popping" /\ Decided("process")
                                /\ ret["process"]
  BY DEF TypeOK, Slot!TypeOK, CaptureHolds, ProcessHolds, Decided, Threads

Frames == Tokens /\ NothingLost /\ StatsInOrder /\ FilesMatchCapture

LEMMA FramesMain ==
  ASSUME TypeOK, Places, Frames, Main
  PROVE  Frames'
<1>1. /\ UNCHANGED <<slotVars, content, frame_i, dq, copy, captured, stats, files>>
      /\ \/ UNCHANGED <<captureAt, processAt>>
         \/ /\ captureAt = "unborn" /\ captureAt' = "loop"
            /\ processAt = "unborn" /\ processAt' = "pop"
  BY DEF Places, Main, MainGoes, MainStart, MainStartFails, MainGivesUp,
     MainAborts, MainSpawn, MainJoinCapture, MainJoinProcess, MainStop, MainClose,
     CameraStart, CameraStartFails, CameraStop, CameraClose, queueVars,
     captureVars, processVars
<1> QED
  BY <1>1
  DEF slotVars, Frames, Tokens, NothingLost, StatsInOrder, FilesMatchCapture,
      IsFrame, CaptureHolds, ProcessHolds, Decided

LEMMA FramesDriver ==
  ASSUME TypeOK, Owners, Control, Frames, Driver
  PROVE  Frames'
<1>1. UNCHANGED <<slotVars, captureAt, processAt, frame_i, dq, copy, captured,
                  stats, files>>
  BY DEF Driver, captureVars, processVars
<1>2. captureAt = "copy" => content'[dq] = content[dq]
  <2> SUFFICES ASSUME captureAt = "copy" PROVE content'[dq] = content[dq]
    OBVIOUS
  <2>1. streaming /\ dq \in Bufs /\ dq \notin ToSet(incoming)
    BY CaptureLives, QueueAssumption
    DEF Owners, Control, TypeOK, Bufs, WithDriver
  <2>2. incoming # <<>> => Head(incoming) \in ToSet(incoming)
    BY TailFacts DEF TypeOK, QueueTypeOK
  <2> QED
    BY <2>1, <2>2
    DEF Driver, DriverFill, DriverFillEmpty, DriverDrop, TypeOK, QueueTypeOK
<1> QED
  BY <1>1, <1>2
  DEF slotVars, Frames, Tokens, NothingLost, StatsInOrder, FilesMatchCapture,
      IsFrame, CaptureHolds, ProcessHolds, Decided

LEMMA FramesQuiet ==
  ASSUME TypeOK, TypeOK', Frames, Quiet
  PROVE  Frames'
<1>1. /\ CaptureHolds' <=> CaptureHolds
      /\ ProcessHolds' <=> ProcessHolds
      /\ Decided("capture")' <=> Decided("capture")
  <2>1. /\ CaptureHolds' <=> \/ captureAt' \in {"copy", "requeue", "push"}
                             \/ captureAt' = "pushing" /\ ~Decided("capture")'
        /\ ProcessHolds' <=> \/ processAt' = "frame"
                             \/ /\ processAt' = "popping" /\ Decided("process")'
                                /\ ret'["process"]
    BY DEF TypeOK, Slot!TypeOK, CaptureHolds, ProcessHolds, Decided, Threads
  <2> QED
    BY <2>1, HoldsByOutcome
    DEF Quiet, ElseUnchanged, captureVars, processVars, Threads
<1>2. UNCHANGED <<item, fb, content, captureAt, frame_i, dq, copy, captured,
                  stats, files>>
  BY DEF Quiet, ElseUnchanged, queueVars, captureVars, processVars
<1> HIDE DEF Decided, CaptureHolds, ProcessHolds
<1> QED
  BY <1>1, <1>2
  DEF Frames, Tokens, NothingLost, StatsInOrder, FilesMatchCapture, IsFrame, One

LEMMA FramesDequeue ==
  ASSUME TypeOK, Owners, Control, Ages, Frames, CaptureDequeue
  PROVE  Frames'
<1> DEFINE b == Head(outgoing)
<1>1. /\ outgoing # <<>> /\ dq' = b /\ captured' = Append(captured, content[b])
      /\ captureAt = "loop" /\ captureAt' = "copy" /\ frame_i < n_frames
      /\ UNCHANGED <<slotVars, processAt, frame_i, copy, content, stats, files>>
  BY DEF CaptureDequeue, CaptureGoes, CameraDequeue, processVars
<1>2. content[b] \in 0 .. MaxImages
  BY <1>1, TailFacts DEF TypeOK, QueueTypeOK
<1>3. /\ Len(captured) \in Nat /\ DOMAIN captured = 1 .. Len(captured)
      /\ Len(captured') = Len(captured) + 1
      /\ DOMAIN captured' = 1 .. Len(captured) + 1
      /\ \A k \in DOMAIN captured : captured'[k] = captured[k]
      /\ captured'[Len(captured) + 1] = content[b]
  BY <1>1, <1>2, AppendFacts DEF TypeOK
<1>4. Len(captured) = frame_i /\ frame_i \in Indices
  BY <1>1, LoopCounter DEF Frames, Tokens
<1>5. \A k \in DOMAIN captured : k \in DOMAIN captured'
  BY <1>3
<1>6. Tokens'
  BY <1>1, <1>3, <1>4, <1>5
  DEF slotVars, Frames, Tokens, IsFrame, ProcessHolds
<1>7. NothingLost'
  <2>1. CaptureHolds' /\ ~CaptureHolds /\ (ProcessHolds' <=> ProcessHolds)
    BY <1>1 DEF CaptureHolds, ProcessHolds, slotVars
  <2>2. Len(stats) \in Nat /\ item' = item /\ stats' = stats
    BY <1>1, LenProperties DEF TypeOK, slotVars
  <2> HIDE DEF CaptureHolds, ProcessHolds
  <2>3. One(CaptureHolds) = 0 /\ One(CaptureHolds') = 1
    BY <2>1 DEF One
  <2>4. /\ One(ProcessHolds') = One(ProcessHolds) /\ One(ProcessHolds) \in Nat
        /\ One(item' # NoFrame) = One(item # NoFrame) /\ One(item # NoFrame) \in Nat
    BY <2>1, <2>2 DEF One
  <2>5. Len(captured) = Len(stats) + One(CaptureHolds) + One(item # NoFrame)
                                   + One(ProcessHolds)
    BY DEF Frames, NothingLost
  <2>6. Len(captured') = Len(stats') + One(CaptureHolds') + One(item' # NoFrame)
                                     + One(ProcessHolds')
    BY <1>3, <2>2, <2>3, <2>4, <2>5
  <2> QED
    BY <2>6 DEF NothingLost
<1>8. StatsInOrder' /\ FilesMatchCapture'
  BY <1>1, <1>3, <1>5 DEF Frames, StatsInOrder, FilesMatchCapture
<1> QED
  BY <1>6, <1>7, <1>8 DEF Frames

LEMMA FramesCapture ==
  ASSUME TypeOK, Owners, Control, Ages, Frames, Capture
  PROVE  Frames'
<1>0. /\ pc \in [Threads -> {"idle", "lock", "test", "blocked", "notify", "unlock"}]
      /\ fb \in [Threads -> FrameBuffer \cup {NoFrame}]
      /\ "capture" \in Threads /\ "process" \in Threads
      /\ frame_i \in Nat /\ Len(captured) \in Nat /\ Len(stats) \in Nat
      /\ DOMAIN captured = 1 .. Len(captured)
  BY LenProperties DEF TypeOK, Slot!TypeOK, Threads
<1>1. CASE CaptureDequeue
  BY <1>1, FramesDequeue
<1> USE DEF Frames, Tokens, NothingLost, StatsInOrder, FilesMatchCapture, IsFrame,
            CaptureHolds, ProcessHolds, Decided
<1>2. CASE CaptureDequeueFails \/ CaptureLoopEnds
  BY <1>0, <1>2
  DEF CaptureDequeueFails, CaptureLoopEnds, CaptureGoes, CameraDequeueFails,
      slotVars, queueVars, processVars
<1>3. CASE CaptureCopy
  <2>1. dq \in Bufs
    BY <1>3, QueueAssumption DEF CaptureCopy, CaptureGoes, Owners, TypeOK, Bufs
  <2>2. copy' \in FrameBuffer /\ copy'.frame_idx = frame_i
        /\ copy'.data = captured[frame_i + 1]
    BY <1>3, <2>1 DEF CaptureCopy, CaptureGoes, FrameBuffer, TypeOK, QueueTypeOK
  <2>3. frame_i + 1 \in DOMAIN captured
    <3>1. Len(captured) = frame_i + 1
      BY <1>3 DEF CaptureCopy, CaptureGoes
    <3>2. frame_i \in Nat /\ DOMAIN captured = 1 .. Len(captured)
      BY <1>0
    <3> HIDE DEF Frames
    <3> QED
      BY <3>1, <3>2
  <2> QED
    BY <1>0, <1>3, <2>2, <2>3
    DEF CaptureCopy, CaptureGoes, slotVars, queueVars, processVars
<1>4. CASE CaptureRequeue
  BY <1>0, <1>4
  DEF CaptureRequeue, CaptureGoes, CameraRequeue, slotVars, processVars
<1>5. CASE CapturePush
  BY <1>0, <1>5
  DEF CapturePush, CaptureGoes, Slot!CallPush, Slot!Call, queueVars, processVars
<1>6. CASE CapturePushReturns
  <2>1. captureAt' = "loop" /\ frame_i' = frame_i + 1
    BY <1>6 DEF CapturePushReturns, CaptureGoes, Control, Closing
  <2> QED
    BY <1>0, <1>6, <2>1
    DEF CapturePushReturns, CaptureGoes, slotVars, queueVars, processVars
<1>7. CASE CaptureClose
  BY <1>0, <1>7
  DEF CaptureClose, CaptureGoes, Slot!CallClose, Slot!Call, queueVars, processVars
<1>8. CASE CaptureExit
  BY <1>0, <1>8
  DEF CaptureExit, CaptureGoes, slotVars, queueVars, processVars
<1> QED
  BY <1>1, <1>2, <1>3, <1>4, <1>5, <1>6, <1>7, <1>8 DEF Capture

LEMMA FramesProcess ==
  ASSUME TypeOK, Control, Frames, Process
  PROVE  Frames'
<1>0. /\ pc \in [Threads -> {"idle", "lock", "test", "blocked", "notify", "unlock"}]
      /\ fb \in [Threads -> FrameBuffer \cup {NoFrame}]
      /\ ret \in [Threads -> BOOLEAN]
      /\ "capture" \in Threads /\ "process" \in Threads
      /\ Len(captured) \in Nat /\ Len(stats) \in Nat
  BY LenProperties DEF TypeOK, Slot!TypeOK, Threads
<1> USE DEF Frames, NothingLost, CaptureHolds, ProcessHolds, Decided
<1>1. CASE ProcessPop
  BY <1>0, <1>1
  DEF ProcessPop, ProcessGoes, Slot!CallPop, Slot!Call, queueVars, captureVars,
      Tokens, StatsInOrder, FilesMatchCapture, IsFrame
<1>2. CASE ProcessPopReturns
  BY <1>0, <1>2
  DEF ProcessPopReturns, ProcessGoes, slotVars, queueVars, captureVars,
      Tokens, StatsInOrder, FilesMatchCapture, IsFrame
<1>3. CASE ProcessFrame
  <2> DEFINE f == fb["process"]
  <2>1. /\ processAt = "frame" /\ processAt' = "pop"
        /\ stats' = Append(stats, f.frame_idx)
        /\ UNCHANGED <<slotVars, content, captureAt, frame_i, dq, copy, captured>>
    BY <1>3 DEF ProcessFrame, ProcessGoes, queueVars, captureVars
  <2>2. f \in FrameBuffer /\ f.frame_idx = Len(stats)
        /\ f.frame_idx + 1 \in DOMAIN captured
        /\ f.data = captured[f.frame_idx + 1]
    BY <2>1 DEF Tokens, IsFrame
  <2>3. ~ProcessHolds' /\ ProcessHolds /\ (CaptureHolds' <=> CaptureHolds)
    BY <2>1 DEF slotVars
  <2>4. /\ Len(stats') = Len(stats) + 1
        /\ DOMAIN stats' = 1 .. Len(stats) + 1
        /\ DOMAIN stats = 1 .. Len(stats)
        /\ \A i \in 1 .. Len(stats) : stats'[i] = stats[i]
        /\ stats'[Len(stats) + 1] = f.frame_idx
    <3>1. f.frame_idx \in Indices
      BY <2>2 DEF FrameBuffer
    <3> QED
      BY <2>1, <3>1, AppendFacts DEF TypeOK
  <2>5. StatsInOrder'
    BY <1>0, <2>2, <2>4 DEF StatsInOrder
  <2>6. FilesMatchCapture'
    <3>1. CASE UNCHANGED files
      BY <2>1, <3>1 DEF FilesMatchCapture
    <3>2. CASE files' = [n \in DOMAIN files \cup {f.frame_idx} |->
                           IF n = f.frame_idx THEN f.data ELSE files[n]]
      BY <2>1, <2>2, <3>2 DEF FilesMatchCapture
    <3> QED
      BY <1>3, <3>1, <3>2 DEF ProcessFrame
  <2>7. Len(stats) + One(ProcessHolds) = Len(stats') + One(ProcessHolds')
    BY <1>0, <2>3, <2>4 DEF One
  <2> HIDE DEF CaptureHolds, ProcessHolds
  <2>8. NothingLost'
    <3>1. /\ One(CaptureHolds') = One(CaptureHolds)
          /\ One(item' # NoFrame) = One(item # NoFrame)
          /\ One(CaptureHolds) \in Nat /\ One(item # NoFrame) \in Nat
          /\ One(ProcessHolds) \in Nat /\ One(ProcessHolds') \in Nat
      BY <2>1, <2>3 DEF One, slotVars
    <3>2. Len(captured) = Len(stats) + One(CaptureHolds) + One(item # NoFrame)
                                     + One(ProcessHolds)
      BY DEF NothingLost
    <3>3. Len(captured') = Len(stats') + One(CaptureHolds') + One(item' # NoFrame)
                                       + One(ProcessHolds')
      BY <1>0, <2>1, <2>4, <2>7, <3>1, <3>2
    <3> QED
      BY <3>3 DEF NothingLost
  <2>9. Tokens'
    BY <2>1, <2>3, <2>7 DEF Tokens, IsFrame, slotVars
  <2> QED
    BY <2>5, <2>6, <2>8, <2>9
<1> QED
  BY <1>1, <1>2, <1>3 DEF Process

LEMMA FramesSlot ==
  ASSUME TypeOK, TypeOK', Control, Frames, Stored \/ Taken \/ FoundEnd \/ Shut
  PROVE  Frames'
<1>0. /\ ret \in [Threads -> BOOLEAN]
      /\ fb \in [Threads -> FrameBuffer \cup {NoFrame}]
      /\ "capture" \in Threads /\ "process" \in Threads
      /\ frame_i \in Nat /\ Len(captured) \in Nat /\ Len(stats) \in Nat
      /\ NoFrame \notin FrameBuffer
      /\ pc \in [Threads -> {"idle", "lock", "test", "blocked", "notify", "unlock"}]
  BY LenProperties, PipelineAssumption DEF TypeOK, Slot!TypeOK, Threads
<1>1. /\ CaptureHolds' <=> \/ captureAt' \in {"copy", "requeue", "push"}
                           \/ captureAt' = "pushing" /\ ~Decided("capture")'
      /\ ProcessHolds' <=> \/ processAt' = "frame"
                           \/ /\ processAt' = "popping" /\ Decided("process")'
                              /\ ret'["process"]
  BY DEF TypeOK, Slot!TypeOK, CaptureHolds, ProcessHolds, Decided, Threads
<1>2. UNCHANGED <<content, captureAt, processAt, frame_i, dq, copy, captured,
                  stats, files>>
  BY DEF Stored, Taken, FoundEnd, Shut, Outcome, ElseUnchanged, queueVars,
     captureVars, processVars
<1>3. StatsInOrder' /\ FilesMatchCapture'
  BY <1>2 DEF Frames, StatsInOrder, FilesMatchCapture
<1>4. \A f, k : IsFrame(f, k)' <=> IsFrame(f, k)
  BY <1>2 DEF IsFrame
<1>5. CASE Stored
  <2>1. /\ captureAt = "pushing" /\ ~Decided("capture") /\ Decided("capture")'
        /\ (Decided("process")' <=> Decided("process"))
        /\ item = NoFrame /\ item' = fb["capture"]
        /\ fb'["process"] = fb["process"] /\ ret'["process"] = ret["process"]
    BY <1>0, <1>5 DEF Stored, Outcome, Decided
  <2>2. CaptureHolds /\ ~CaptureHolds' /\ (ProcessHolds' <=> ProcessHolds)
    BY <1>1, <1>2, <2>1, HoldsByOutcome
  <2>3. IsFrame(item', frame_i) /\ item' # NoFrame
    BY <1>0, <2>1 DEF Frames, Tokens, IsFrame
  <2> HIDE DEF CaptureHolds, ProcessHolds
  <2>4. NothingLost'
    BY <1>0, <1>2, <2>1, <2>2, <2>3 DEF Frames, NothingLost, One
  <2>5. frame_i = Len(stats) + One(ProcessHolds)
    BY <1>0, <2>1, <2>2 DEF Frames, NothingLost, Tokens, One
  <2>6. IsFrame(item, Len(stats) + One(ProcessHolds))'
    <3>1. One(ProcessHolds') = One(ProcessHolds)
      BY <2>2 DEF One
    <3> QED
      BY <1>2, <2>3, <2>5, <3>1 DEF IsFrame
  <2>7. Tokens'
    BY <1>2, <2>1, <2>2, <2>6 DEF Frames, Tokens, IsFrame
  <2> QED
    BY <1>3, <2>4, <2>7 DEF Frames
<1>6. CASE Taken
  <2>1. /\ processAt = "popping" /\ ~Decided("process") /\ Decided("process")'
        /\ (Decided("capture")' <=> Decided("capture"))
        /\ item # NoFrame /\ item' = NoFrame /\ fb'["process"] = item
        /\ fb'["capture"] = fb["capture"] /\ ret'["process"]
    BY <1>0, <1>6 DEF Taken, Outcome, Decided
  <2>2. ~ProcessHolds /\ ProcessHolds' /\ (CaptureHolds' <=> CaptureHolds)
    BY <1>1, <1>2, <2>1, HoldsByOutcome
  <2> HIDE DEF CaptureHolds, ProcessHolds
  <2>3. NothingLost'
    BY <1>0, <1>2, <2>1, <2>2 DEF Frames, NothingLost, One
  <2>4. Len(stats) = Len(stats) + One(ProcessHolds)
    BY <1>0, <2>2 DEF One
  <2>5. Tokens'
    BY <1>2, <2>1, <2>2, <2>4 DEF Frames, Tokens, IsFrame
  <2> QED
    BY <1>3, <2>3, <2>5 DEF Frames
<1>7. CASE FoundEnd \/ Shut
  <2>1. /\ UNCHANGED <<item, fb>>
        /\ captureAt = "pushing" => (Decided("capture")' <=> Decided("capture"))
        /\ \/ (Decided("process")' <=> Decided("process"))
              /\ ret'["process"] = ret["process"]
           \/ ~Decided("process") /\ processAt = "popping" /\ ~ret'["process"]
    BY <1>0, <1>7 DEF FoundEnd, Shut, Outcome, Decided
  <2>2. (ProcessHolds' <=> ProcessHolds) /\ (CaptureHolds' <=> CaptureHolds)
    BY <1>1, <1>2, <2>1, HoldsByOutcome
  <2> HIDE DEF CaptureHolds, ProcessHolds
  <2>3. NothingLost'
    BY <1>0, <1>2, <2>1, <2>2 DEF Frames, NothingLost, One
  <2>4. Tokens'
    BY <1>2, <2>1, <2>2 DEF Frames, Tokens, IsFrame, One
  <2> QED
    BY <1>3, <2>3, <2>4 DEF Frames
<1> QED
  BY <1>5, <1>6, <1>7

--------------------------------------------------------------------------------
(* The age of the images                                                   *)

(* Whatever is dequeued is newer than all that was dequeued before, unless *)
(* its buffer came back empty: then it is old or nothing.                  *)
LEMMA DequeuedImage ==
  ASSUME TypeOK, Ages, streaming, outgoing # <<>>
  PROVE  LET b == Head(outgoing)
         IN  /\ b \in Bufs
             /\ b \notin empty => \A k \in DOMAIN captured : captured[k] < content[b]
             /\ b \in empty => content[b] \in ToSet(captured) \cup {0}
<1> DEFINE b == Head(outgoing)
<1>1. b \in Bufs /\ b = outgoing[1] /\ 1 \in DOMAIN outgoing
  BY TailFacts DEF TypeOK, QueueTypeOK
<1> QED
  BY <1>1 DEF Ages

LEMMA NewStep ==
  ASSUME TypeOK, Places, Tokens, Ages, FramesAreNew, Calling, Closing, [Next]_vars
  PROVE  FramesAreNew'
<1>1. CASE CaptureDequeue
  <2> DEFINE b == Head(outgoing)
             n == Len(captured)
  <2>1. /\ outgoing # <<>> /\ captured' = Append(captured, content[b])
        /\ blank' = IF b \in empty THEN blank \cup {frame_i} ELSE blank
        /\ captureAt = "loop"
    BY <1>1 DEF CaptureDequeue, CaptureGoes, CameraDequeue
  <2>2. streaming /\ frame_i = n
    BY <2>1, CaptureLives DEF Tokens
  <2>3. b \in Bufs /\ content[b] \in 0 .. MaxImages
    BY <2>1, <2>2, DequeuedImage DEF TypeOK, QueueTypeOK
  <2>4. /\ n \in Nat /\ DOMAIN captured = 1 .. n /\ DOMAIN captured' = 1 .. n + 1
        /\ \A k \in 1 .. n : captured'[k] = captured[k]
        /\ captured'[n + 1] = content[b]
    BY <2>1, <2>3, AppendFacts DEF TypeOK
  <2>s. ToSet(captured) = {captured[i] : i \in 1 .. n}
    BY <2>4 DEF ToSet
  <2> HIDE DEF n
  <2>5. ASSUME NEW j \in 1 .. n
        PROVE  LET before == {captured'[i] : i \in 1 .. j - 1}
               IN IF j - 1 \in blank' THEN captured'[j] \in before \cup {0}
                  ELSE \A image \in before : image < captured'[j]
    <3>1. {captured'[i] : i \in 1 .. j - 1} = {captured[i] : i \in 1 .. j - 1}
          /\ captured'[j] = captured[j]
      BY <2>4
    <3>2. j - 1 \in blank' <=> j - 1 \in blank
      BY <2>1, <2>2, <2>4
    <3> QED
      BY <2>4, <3>1, <3>2 DEF FramesAreNew
  <2>6. LET before == {captured'[i] : i \in 1 .. n}
        IN IF n \in blank' THEN captured'[n + 1] \in before \cup {0}
           ELSE \A image \in before : image < captured'[n + 1]
    <3>1. {captured'[i] : i \in 1 .. n} = ToSet(captured)
      BY <2>4, <2>s
    <3>2. n \in blank' <=> b \in empty
      <4>1. n \notin blank
        BY <2>4 DEF Ages, n
      <4> QED
        BY <2>1, <2>2, <4>1
    <3>3. \A image \in ToSet(captured) : \E k \in DOMAIN captured : image = captured[k]
      BY DEF ToSet
    <3> QED
      BY <2>1, <2>2, <2>4, <3>1, <3>2, <3>3, DequeuedImage
  <2>7. \A j \in DOMAIN captured' : j \in 1 .. n \/ (j = n + 1 /\ j - 1 = n)
    BY <2>4
  <2> QED
    BY <2>5, <2>6, <2>7 DEF FramesAreNew
<1>2. ASSUME ~CaptureDequeue PROVE UNCHANGED <<captured, blank>>
  <2>1. CASE Main
    BY <2>1
    DEF Main, MainStart, MainStartFails, MainGivesUp, MainAborts, MainSpawn,
        MainJoinCapture, MainJoinProcess, MainStop, MainClose, captureVars
  <2>2. CASE Capture
    BY <1>2, <2>2
    DEF Capture, CaptureDequeueFails, CaptureLoopEnds, CaptureCopy,
        CaptureRequeue, CapturePush, CapturePushReturns, CaptureClose, CaptureExit
  <2>3. CASE Process \/ Driver
    BY <2>3
    DEF Process, ProcessGoes, ProcessPop, ProcessPopReturns, ProcessFrame, Driver,
        captureVars
  <2>4. CASE Quiet \/ Stored \/ Taken \/ FoundEnd \/ Shut
    BY <2>4
    DEF Quiet, Stored, Taken, FoundEnd, Shut, Outcome, ElseUnchanged, captureVars
  <2> QED
    BY <2>1, <2>2, <2>3, <2>4, NextCases
<1> QED
  BY <1>1, <1>2 DEF FramesAreNew

LEMMA AgesDequeue ==
  ASSUME TypeOK, Places, Owners, Tokens, Ages, CaptureDequeue
  PROVE  Ages'
<1> DEFINE b == Head(outgoing)
           n == Len(captured)
<1>1. /\ outgoing # <<>> /\ outgoing' = Tail(outgoing)
      /\ captured' = Append(captured, content[b])
      /\ blank' = IF b \in empty THEN blank \cup {frame_i} ELSE blank
      /\ captureAt = "loop"
      /\ UNCHANGED <<content, empty, images, streaming>>
  BY DEF CaptureDequeue, CaptureGoes, CameraDequeue
<1>2. streaming /\ frame_i = n
  BY <1>1, CaptureLives DEF Tokens
<1>3. /\ b \in Bufs /\ content[b] \in 0 .. MaxImages /\ content[b] <= images
      /\ images \in Nat /\ content \in [Bufs -> Nat]
  BY <1>1, <1>2, DequeuedImage, QueueAssumption DEF TypeOK, QueueTypeOK, Ages
<1>4. /\ n \in Nat /\ DOMAIN captured = 1 .. n /\ DOMAIN captured' = 1 .. n + 1
      /\ Len(captured') = n + 1
      /\ \A k \in 1 .. n : captured'[k] = captured[k] /\ captured[k] \in Nat
      /\ captured'[n + 1] = content[b]
      /\ ToSet(captured') = ToSet(captured) \cup {content[b]}
  <2>1. \A k \in 1 .. n : captured[k] \in Nat
    BY ElementOfSeq, QueueAssumption DEF TypeOK
  <2>2. /\ n \in Nat /\ DOMAIN captured = 1 .. n /\ DOMAIN captured' = 1 .. n + 1
        /\ Len(captured') = n + 1
        /\ \A k \in 1 .. n : captured'[k] = captured[k]
        /\ captured'[n + 1] = content[b]
        /\ ToSet(captured') = ToSet(captured) \cup {content[b]}
    <3>1. captured \in Seq(0 .. MaxImages)
      BY DEF TypeOK
    <3>2. ToSet(captured') = ToSet(captured) \cup {content[b]}
      <4> DEFINE S == 0 .. MaxImages
      <4>1. captured \in Seq(S) /\ content[b] \in S
        BY <1>3, <3>1
      <4> HIDE DEF S
      <4> QED
        BY <1>1, <4>1, AppendFacts
    <3> QED
      BY <1>1, <1>3, <3>1, <3>2, AppendFacts
  <2> QED
    BY <2>1, <2>2
<1>5. /\ Len(outgoing) \in Nat /\ Len(outgoing) >= 1
      /\ DOMAIN outgoing = 1 .. Len(outgoing) /\ b = outgoing[1]
      /\ Len(outgoing') = Len(outgoing) - 1
      /\ DOMAIN outgoing' = 1 .. Len(outgoing) - 1
      /\ \A i \in 1 .. Len(outgoing) - 1 : outgoing'[i] = outgoing[i + 1]
      /\ ToSet(outgoing) = ToSet(outgoing') \cup {b}
      /\ \A i \in 1 .. Len(outgoing) : outgoing[i] \in Bufs
  BY <1>1, TailFacts, ElementOfSeq DEF TypeOK, QueueTypeOK
<1> HIDE DEF b, n
<1>6. Len(captured') + Len(outgoing') <= images'
  BY <1>1, <1>3, <1>4, <1>5 DEF Ages, n
<1>7. \A c \in Bufs : content'[c] <= images'
  BY <1>1 DEF Ages
<1>8. \A k \in DOMAIN captured' : captured'[k] <= images'
  BY <1>1, <1>3, <1>4 DEF Ages
<1>9. blank' \subseteq 0 .. Len(captured') - 1
  <2>1. blank \subseteq 0 .. n - 1
    BY DEF Ages, n
  <2>2. blank \subseteq 0 .. n /\ n \in 0 .. n
    BY <1>4, <2>1
  <2> QED
    BY <1>1, <1>2, <1>4, <2>2
<1>10. /\ \A i, j \in DOMAIN outgoing :
            i < j /\ outgoing[i] \notin empty /\ outgoing[j] \notin empty =>
              content[outgoing[i]] < content[outgoing[j]]
       /\ \A i \in DOMAIN outgoing : outgoing[i] \notin empty =>
            /\ 0 < content[outgoing[i]]
            /\ \A k \in DOMAIN captured : captured[k] < content[outgoing[i]]
       /\ \A c \in Bufs : c \notin ToSet(outgoing) \ empty =>
            content[c] \in ToSet(captured) \cup {0}
  BY <1>2 DEF Ages
<1>11. ASSUME NEW i \in DOMAIN outgoing', NEW j \in DOMAIN outgoing', i < j,
              outgoing'[i] \notin empty, outgoing'[j] \notin empty
       PROVE  content[outgoing'[i]] < content[outgoing'[j]]
  <2>1. i + 1 \in DOMAIN outgoing /\ j + 1 \in DOMAIN outgoing /\ i + 1 < j + 1
    BY <1>5, <1>11
  <2> QED
    BY <1>5, <1>10, <1>11, <2>1
<1>12. ASSUME NEW i \in DOMAIN outgoing', outgoing'[i] \notin empty
       PROVE  /\ 0 < content[outgoing'[i]]
              /\ \A k \in DOMAIN captured' : captured'[k] < content[outgoing'[i]]
  <2>1. i + 1 \in DOMAIN outgoing /\ 1 \in DOMAIN outgoing /\ 1 < i + 1
        /\ outgoing'[i] = outgoing[i + 1]
    BY <1>5
  <2>2. /\ 0 < content[outgoing[i + 1]]
        /\ \A k \in DOMAIN captured : captured[k] < content[outgoing[i + 1]]
    BY <1>10, <1>12, <2>1
  <2>3. content[b] < content[outgoing[i + 1]]
    <3>1. CASE b \notin empty
      BY <1>5, <1>10, <1>12, <2>1, <3>1
    <3>2. CASE b \in empty
      <4>1. content[b] \in ToSet(captured) \cup {0}
        BY <1>3, <1>10, <3>2
      <4> QED
        BY <2>2, <4>1 DEF ToSet
    <3> QED
      BY <3>1, <3>2
  <2>4. \A k \in DOMAIN captured' : k \in DOMAIN captured \/ k = n + 1
    BY <1>4
  <2> QED
    BY <1>4, <2>1, <2>2, <2>3, <2>4
<1>13. ASSUME NEW c \in Bufs, c \notin ToSet(outgoing') \ empty
       PROVE  content[c] \in ToSet(captured') \cup {0}
  BY <1>4, <1>5, <1>10, <1>13
<1> QED
  BY <1>1, <1>6, <1>7, <1>8, <1>9, <1>11, <1>12, <1>13 DEF Ages

LEMMA AgesDriver ==
  ASSUME TypeOK, Places, Owners, Ages, Driver
  PROVE  Ages'
<1> DEFINE b == Head(incoming)
<1>1. streaming /\ streaming' /\ images' = images + 1
      /\ UNCHANGED <<captured, blank>>
  BY DEF Driver, DriverFill, DriverFillEmpty, DriverDrop, captureVars
<1>2. /\ images \in Nat /\ content \in [Bufs -> Nat]
      /\ outgoing \in Seq(Bufs) /\ Len(outgoing) \in Nat /\ Len(captured) \in Nat
      /\ DOMAIN outgoing = 1 .. Len(outgoing)
      /\ \A i \in 1 .. Len(outgoing) : outgoing[i] \in Bufs
      /\ \A k \in DOMAIN captured : captured[k] \in Nat
  <2>1. /\ outgoing \in Seq(Bufs) /\ captured \in Seq(0 .. MaxImages)
        /\ content \in [Bufs -> 0 .. MaxImages] /\ images \in 0 .. MaxImages
        /\ MaxImages \in Nat
    BY QueueAssumption DEF TypeOK, QueueTypeOK
  <2>2. \A k \in DOMAIN captured : captured[k] \in 0 .. MaxImages
    BY <2>1, LenProperties, ElementOfSeq
  <2> QED
    BY <2>1, <2>2, LenProperties, ElementOfSeq
<1>3. /\ \A i, j \in DOMAIN outgoing :
           i < j /\ outgoing[i] \notin empty /\ outgoing[j] \notin empty =>
             content[outgoing[i]] < content[outgoing[j]]
      /\ \A i \in DOMAIN outgoing : outgoing[i] \notin empty =>
           /\ 0 < content[outgoing[i]]
           /\ \A k \in DOMAIN captured : captured[k] < content[outgoing[i]]
      /\ \A c \in Bufs : c \notin ToSet(outgoing) \ empty =>
           content[c] \in ToSet(captured) \cup {0}
      /\ \A c \in Bufs : content[c] <= images
      /\ \A k \in DOMAIN captured : captured[k] <= images
      /\ blank \subseteq 0 .. Len(captured) - 1
      /\ Len(captured) + Len(outgoing) <= images
  BY <1>1 DEF Ages
<1>4. CASE DriverDrop
  BY <1>1, <1>2, <1>3, <1>4 DEF DriverDrop, Ages
<1>5. CASE DriverFill \/ DriverFillEmpty
  <2>1. /\ incoming # <<>> /\ outgoing' = Append(outgoing, b)
        /\ \/ content' = [content EXCEPT ![b] = images + 1] /\ empty' = empty \ {b}
           \/ UNCHANGED content /\ empty' = empty \cup {b}
    BY <1>5 DEF DriverFill, DriverFillEmpty
  <2>2. b \in Bufs /\ b \notin ToSet(outgoing)
    <3>1. b \in Bufs /\ b \in ToSet(incoming)
      BY <2>1, TailFacts DEF TypeOK, QueueTypeOK
    <3> QED
      BY <1>1, <3>1 DEF Owners
  <2>3. /\ Len(outgoing') = Len(outgoing) + 1
        /\ DOMAIN outgoing' = 1 .. Len(outgoing) + 1
        /\ \A i \in DOMAIN outgoing : outgoing'[i] = outgoing[i]
        /\ outgoing'[Len(outgoing) + 1] = b
        /\ ToSet(outgoing') = ToSet(outgoing) \cup {b}
    BY <1>2, <2>1, <2>2, AppendFacts
  <2>4. \A i \in DOMAIN outgoing : outgoing[i] # b /\ outgoing[i] \in Bufs
    BY <1>2, <2>2 DEF ToSet
  <2>5. \A c \in Bufs : c # b => content'[c] = content[c] /\ (c \in empty' <=> c \in empty)
    BY <1>2, <2>1
  <2>6. b \notin empty' => content'[b] = images + 1
    BY <1>2, <2>1, <2>2
  <2> HIDE DEF b
  <2>7. \A i \in DOMAIN outgoing' :
          \/ i \in DOMAIN outgoing /\ i < Len(outgoing) + 1
          \/ i = Len(outgoing) + 1 /\ outgoing'[i] = b
    BY <1>2, <2>3
  <2>8. ASSUME NEW i \in DOMAIN outgoing', NEW j \in DOMAIN outgoing', i < j,
               outgoing'[i] \notin empty', outgoing'[j] \notin empty'
        PROVE  content'[outgoing'[i]] < content'[outgoing'[j]]
    <3>1. i \in DOMAIN outgoing
      BY <1>2, <2>3, <2>8
    <3>2. /\ outgoing'[i] = outgoing[i] /\ outgoing[i] # b /\ outgoing[i] \in Bufs
          /\ outgoing[i] \notin empty /\ content'[outgoing'[i]] = content[outgoing[i]]
      BY <2>3, <2>4, <2>5, <2>8, <3>1
    <3>3. CASE j \in DOMAIN outgoing
      <4>1. /\ outgoing'[j] = outgoing[j] /\ outgoing[j] \notin empty
            /\ content'[outgoing'[j]] = content[outgoing[j]]
        BY <2>3, <2>4, <2>5, <2>8, <3>3
      <4> QED
        BY <1>3, <2>8, <3>1, <3>2, <3>3, <4>1
    <3>4. CASE j = Len(outgoing) + 1 /\ outgoing'[j] = b
      <4>1. content[outgoing[i]] <= images /\ content[outgoing[i]] \in Nat
        BY <1>2, <1>3, <3>2
      <4> QED
        BY <1>2, <2>6, <2>8, <3>2, <3>4, <4>1
    <3> QED
      BY <2>7, <3>3, <3>4
  <2>9. ASSUME NEW i \in DOMAIN outgoing', outgoing'[i] \notin empty'
        PROVE  /\ 0 < content'[outgoing'[i]]
               /\ \A k \in DOMAIN captured : captured[k] < content'[outgoing'[i]]
    <3>1. CASE i \in DOMAIN outgoing
      BY <1>3, <2>3, <2>4, <2>5, <2>9, <3>1
    <3>2. CASE i = Len(outgoing) + 1 /\ outgoing'[i] = b
      <4>1. \A k \in DOMAIN captured : captured[k] < images + 1
        BY <1>2, <1>3
      <4> QED
        BY <1>2, <2>6, <2>9, <3>2, <4>1
    <3> QED
      BY <2>7, <3>1, <3>2
  <2>10. ASSUME NEW c \in Bufs, c \notin ToSet(outgoing') \ empty'
         PROVE  content'[c] \in ToSet(captured) \cup {0}
    <3>1. CASE c # b
      BY <1>3, <2>3, <2>5, <2>10, <3>1
    <3>2. CASE c = b
      <4>1. b \in empty' /\ UNCHANGED content
        BY <2>1, <2>3, <2>10, <3>2
      <4> QED
        BY <1>3, <2>2, <3>2, <4>1
    <3> QED
      BY <3>1, <3>2
  <2>11. \A c \in Bufs : content'[c] <= images'
    BY <1>1, <1>2, <1>3, <2>1
  <2>12. /\ Len(captured') + Len(outgoing') <= images'
         /\ \A k \in DOMAIN captured' : captured'[k] <= images'
         /\ blank' \subseteq 0 .. Len(captured') - 1
    BY <1>1, <1>2, <1>3, <2>3
  <2> QED
    BY <1>1, <2>8, <2>9, <2>10, <2>11, <2>12 DEF Ages
<1> QED
  BY <1>4, <1>5 DEF Driver

LEMMA AgesStep ==
  ASSUME TypeOK, Control, Owners, Tokens, Ages, [Next]_vars
  PROVE  Ages'
<1>0. Places /\ Calling /\ Closing /\ images \in Nat /\ Len(captured) \in Nat
      /\ Len(<<>>) = 0 /\ Len(outgoing) \in Nat
  BY LenProperties, QueueAssumption DEF Control, TypeOK, QueueTypeOK
<1>1. CASE CaptureDequeue
  BY <1>0, <1>1, AgesDequeue
<1>2. CASE Driver
  BY <1>0, <1>2, AgesDriver
<1>3. ASSUME Capture, ~CaptureDequeue
      PROVE  UNCHANGED <<outgoing, content, empty, images, streaming, mainAt,
                         captured, blank>>
  BY <1>3
  DEF Capture, CaptureGoes, CaptureDequeueFails, CaptureLoopEnds, CaptureCopy,
      CaptureRequeue, CapturePush, CapturePushReturns, CaptureClose, CaptureExit,
      CameraDequeueFails, CameraRequeue, queueVars, mainVars
<1>4. ASSUME Process \/ Quiet \/ Stored \/ Taken \/ FoundEnd \/ Shut
      PROVE  UNCHANGED <<outgoing, content, empty, images, streaming, mainAt,
                         captured, blank>>
  BY <1>4
  DEF Process, ProcessGoes, ProcessPop, ProcessPopReturns, ProcessFrame, Quiet,
      Stored, Taken, FoundEnd, Shut, Outcome, ElseUnchanged, queueVars, mainVars,
      captureVars
<1>5. CASE UNCHANGED <<outgoing, content, empty, images, streaming, mainAt,
                       captured, blank>>
  BY <1>5 DEF Ages
<1>6. CASE Main
  <2>1. /\ UNCHANGED <<content, empty, images, captured, blank>>
        /\ outgoing' \in {outgoing, <<>>}
        /\ mainAt' = "start" \/ streaming' =>
             outgoing' = outgoing /\ (mainAt = "start" \/ streaming)
    BY <1>0, <1>6
    DEF Places, Main, MainGoes, MainStart, MainStartFails, MainGivesUp,
        MainAborts, MainSpawn, MainJoinCapture, MainJoinProcess, MainStop,
        MainClose, CameraStart, CameraStartFails, CameraStop, CameraClose,
        queueVars, captureVars
  <2>2. Len(captured') + Len(outgoing') <= images'
    BY <1>0, <2>1 DEF Ages
  <2> QED
    BY <2>1, <2>2 DEF Ages
<1> QED
  BY <1>0, <1>1, <1>2, <1>3, <1>4, <1>5, <1>6, NextCases

--------------------------------------------------------------------------------
(* The invariant is inductive                                              *)

LEMMA InitPipelineInv == Init => PipelineInv
<1> SUFFICES ASSUME Init PROVE PipelineInv
  OBVIOUS
<1>0. /\ mtx = Nobody /\ item = NoFrame /\ closed = FALSE
      /\ pc = [t \in Threads |-> "idle"] /\ op = [t \in Threads |-> "close"]
      /\ fb = [t \in Threads |-> NoFrame] /\ ret = [t \in Threads |-> TRUE]
      /\ incoming = <<>> /\ outgoing = <<>> /\ content = [b \in Bufs |-> 0]
      /\ empty = {} /\ images = 0 /\ streaming = FALSE /\ mapped = TRUE /\ lost = {}
  BY DEF Init, Slot!Init, QueueInit
<1>1. /\ n_frames \in FrameCounts /\ mainAt = "start"
      /\ captureAt = "unborn" /\ processAt = "unborn" /\ frame_i = 0 /\ dq = 0
      /\ copy = NoFrame /\ captured = <<>> /\ blank = {} /\ stats = <<>>
      /\ files = <<>>
  BY DEF Init
<1>2. /\ \A S : <<>> \in Seq(S) /\ Len(<<>>) = 0 /\ DOMAIN <<>> = {}
      /\ ToSet(<<>>) = {}
  BY EmptySeq DEF ToSet
<1>3. Slot!TypeOK
  BY <1>0, PipelineAssumption DEF Slot!TypeOK
<1>4. QueueTypeOK
  <2>1. incoming \in Seq(Bufs) /\ outgoing \in Seq(Bufs)
    BY <1>0, <1>2
  <2>2. 0 \in 0 .. MaxImages
    BY QueueAssumption
  <2> QED
    BY <1>0, <2>1, <2>2 DEF QueueTypeOK
<1>5. TypeOK
  <2>1. dq \in 0 .. NBufs
    BY <1>1, QueueAssumption
  <2>2. files \in [DOMAIN files -> 0 .. MaxImages] /\ DOMAIN files \subseteq Indices
    BY <1>1, <1>2
  <2> QED
    BY <1>1, <1>2, <1>3, <1>4, <2>1, <2>2 DEF TypeOK
<1>6. Control
  BY <1>0, <1>1 DEF Control, Places, Calling, Closing, Decided, Threads
<1>7. Owners
  BY <1>0, <1>1 DEF Owners
<1>8. Tokens /\ NothingLost /\ StatsInOrder /\ FilesMatchCapture
  BY <1>0, <1>1, <1>2
  DEF Tokens, NothingLost, StatsInOrder, FilesMatchCapture, CaptureHolds,
      ProcessHolds, One
<1>9. Ages
  BY <1>0, <1>1, <1>2 DEF Ages
<1>10. FramesAreNew
  BY <1>1, <1>2 DEF FramesAreNew
<1> QED
  BY <1>5, <1>6, <1>7, <1>8, <1>9, <1>10 DEF PipelineInv, Control

LEMMA PipelineStep == PipelineInv /\ [Next]_vars => PipelineInv'
<1> SUFFICES ASSUME PipelineInv, [Next]_vars PROVE PipelineInv'
  OBVIOUS
<1>1. /\ TypeOK /\ Control /\ Owners /\ Tokens /\ Frames /\ Ages /\ FramesAreNew
      /\ Places /\ Calling /\ Closing
  BY DEF PipelineInv, Control, Frames
<1>2. TypeOK'
  BY <1>1, TypeStep
<1>3. Control'
  BY <1>1, PlacesStep, CallingStep, ClosingStep DEF Control
<1>4. Owners'
  BY <1>1, OwnersStep
<1>5. Frames'
  BY <1>1, <1>2, NextCases, FramesMain, FramesCapture, FramesProcess, FramesDriver,
     FramesQuiet, FramesSlot
<1>6. Ages'
  BY <1>1, AgesStep
<1>7. FramesAreNew'
  BY <1>1, NewStep
<1> QED
  BY <1>2, <1>3, <1>4, <1>5, <1>6, <1>7 DEF PipelineInv, Control, Frames

(* The inductive invariant holds in every reachable state.                 *)
THEOREM PipelineInvariant == Spec => []PipelineInv
  BY InitPipelineInv, PipelineStep, PTL DEF Spec

--------------------------------------------------------------------------------
(* What follows                                                            *)

(* Every variable of main, of the two threads, of the slot and of the      *)
(* driver keeps its type, for any number of buffers, images and frames.    *)
THEOREM PipelineTypes == Spec => []TypeOK
<1>1. PipelineInv => TypeOK
  BY DEF PipelineInv
<1> QED
  BY <1>1, PipelineInvariant, PTL

(* frame_<n>.jpg holds the image that was dequeued as frame n, whatever    *)
(* the interleaving of the capture thread, the process thread and the      *)
(* driver that refills the buffers meanwhile.                              *)
THEOREM FilesCorrect == Spec => []FilesMatchCapture
<1>1. PipelineInv => FilesMatchCapture
  BY DEF PipelineInv
<1> QED
  BY <1>1, PipelineInvariant, PTL

(* A frame that was dequeued has its entry in stats or is in exactly one   *)
(* of three places: at most three copies of frames exist.                  *)
THEOREM NoneIsLost == Spec => []NothingLost
<1>1. PipelineInv => NothingLost
  BY DEF PipelineInv
<1> QED
  BY <1>1, PipelineInvariant, PTL

(* The frames reach stats in capture order, each once and without a gap.   *)
THEOREM StatsCorrect == Spec => []StatsInOrder
<1>1. PipelineInv => StatsInOrder
  BY DEF PipelineInv
<1> QED
  BY <1>1, PipelineInvariant, PTL

(* Frames are dequeued in the order of their images; only a buffer that    *)
(* came back with bytesused 0 repeats an old image.                        *)
THEOREM OrderOfImages == Spec => []FramesAreNew
<1>1. PipelineInv => FramesAreNew
  BY DEF PipelineInv
<1> QED
  BY <1>1, PipelineInvariant, PTL

(* When both threads have ended, every frame that was dequeued has been    *)
(* handed to process_frame: by then the end that the last pop found has    *)
(* left neither thread nor the slot a frame.                               *)
LEMMA BothExited ==
  ASSUME PipelineInv, captureAt = "exit", processAt = "exit"
  PROVE  Len(stats) = Len(captured)
<1>1. item = NoFrame
  BY DEF PipelineInv, Closing
<1>2. ~CaptureHolds /\ ~ProcessHolds
  BY DEF CaptureHolds, ProcessHolds
<1>3. Len(stats) \in Nat
  BY LenProperties DEF PipelineInv, TypeOK
<1> HIDE DEF CaptureHolds, ProcessHolds
<1> QED
  BY <1>1, <1>2, <1>3 DEF PipelineInv, NothingLost, One

(* When main has joined both threads, every frame that was dequeued has    *)
(* its entry in stats: closing the slot does not cut off the last.         *)
THEOREM AllProcessed == Spec => []DrainedAtEnd
<1>1. PipelineInv => DrainedAtEnd
  BY BothExited DEF PipelineInv, Places, DrainedAtEnd
<1> QED
  BY <1>1, PipelineInvariant, PTL

(* While either thread lives, the camera streams and its buffers are       *)
(* mapped: main stops and closes it after both joins.                      *)
THEOREM TeardownLast == Spec => []TeardownAfterThreads
<1>1. PipelineInv => TeardownAfterThreads
  BY DEF PipelineInv, TypeOK, Places, TeardownAfterThreads
<1> QED
  BY <1>1, PipelineInvariant, PTL

(* Two queues without a common buffer hold as many buffers as their        *)
(* lengths say.                                                            *)
LEMMA QueuesCount ==
  ASSUME NEW S, NEW s \in Seq(S), NEW t \in Seq(S),
         NoDuplicates(s), NoDuplicates(t), ToSet(s) \cap ToSet(t) = {}
  PROVE  Cardinality(ToSet(s) \cup ToSet(t)) = Len(s) + Len(t)
<1> DEFINE n == Len(s) + Len(t)
           T == ToSet(s) \cup ToSet(t)
           f == [i \in 1 .. n |-> IF i <= Len(s) THEN s[i] ELSE t[i - Len(s)]]
<1>1. /\ Len(s) \in Nat /\ Len(t) \in Nat
      /\ DOMAIN s = 1 .. Len(s) /\ DOMAIN t = 1 .. Len(t)
  BY LenProperties
<1>2. \A i \in 1 .. n : \/ i \in DOMAIN s /\ i <= Len(s) /\ f[i] = s[i]
                        \/ i - Len(s) \in DOMAIN t /\ i > Len(s) /\ f[i] = t[i - Len(s)]
  BY <1>1
<1>3. /\ \A k \in DOMAIN s : k \in 1 .. n /\ f[k] = s[k]
      /\ \A k \in DOMAIN t : k + Len(s) \in 1 .. n /\ f[k + Len(s)] = t[k]
  BY <1>1
<1>4. f \in [1 .. n -> T]
  <2>1. \A i \in 1 .. n : f[i] \in T
    BY <1>2 DEF ToSet
  <2> QED
    BY <2>1
<1> HIDE DEF f
<1>5. \A x \in T : \E i \in 1 .. n : f[i] = x
  <2>1. \A x \in ToSet(s) : \E i \in 1 .. n : f[i] = x
    BY <1>3 DEF ToSet
  <2>2. \A x \in ToSet(t) : \E i \in 1 .. n : f[i] = x
    BY <1>3 DEF ToSet
  <2> QED
    BY <2>1, <2>2
<1>6. ASSUME NEW i \in 1 .. n, NEW j \in 1 .. n, f[i] = f[j] PROVE i = j
  <2> HIDE DEF n
  <2>1. CASE i \in DOMAIN s /\ f[i] = s[i] /\ j \in DOMAIN s /\ f[j] = s[j]
    BY <1>6, <2>1 DEF NoDuplicates
  <2>2. CASE /\ i - Len(s) \in DOMAIN t /\ f[i] = t[i - Len(s)]
             /\ j - Len(s) \in DOMAIN t /\ f[j] = t[j - Len(s)]
    <3>1. i - Len(s) = j - Len(s)
      BY <1>6, <2>2 DEF NoDuplicates
    <3>2. i \in Int /\ j \in Int
      BY DEF n
    <3> QED
      BY <1>1, <3>1, <3>2
  <2>3. CASE i \in DOMAIN s /\ f[i] = s[i] /\ j - Len(s) \in DOMAIN t /\ f[j] = t[j - Len(s)]
    <3>1. f[i] \in ToSet(s) /\ f[j] \in ToSet(t)
      BY <2>3 DEF ToSet
    <3> QED
      BY <1>6, <3>1
  <2>4. CASE j \in DOMAIN s /\ f[j] = s[j] /\ i - Len(s) \in DOMAIN t /\ f[i] = t[i - Len(s)]
    <3>1. f[j] \in ToSet(s) /\ f[i] \in ToSet(t)
      BY <2>4 DEF ToSet
    <3> QED
      BY <1>6, <3>1
  <2> QED
    BY <1>2, <2>1, <2>2, <2>3, <2>4
<1>7. n \in Nat /\ 1 \in Int /\ n \in Int
  BY <1>1
<1> HIDE DEF n, T
<1>8. IsFiniteSet(1 .. n) /\ Cardinality(1 .. n) = n
  <2>1. IsFiniteSet(1 .. n) /\ Cardinality(1 .. n) = IF 1 > n THEN 0 ELSE n - 1 + 1
    BY <1>7, FS_Interval
  <2> QED
    BY <1>7, <2>1
<1>9. f \in Surjection(1 .. n, T) /\ f \in Injection(1 .. n, T)
  BY <1>4, <1>5, <1>6 DEF Surjection, Injection, IsInjective
<1>10. Cardinality(T) = n
  BY <1>8, <1>9, FS_Surjection
<1> QED
  BY <1>10 DEF T, n

(* The program owns no kernel buffer but the one it copies from and those  *)
(* whose requeue failed, for any number of buffers.                        *)
THEOREM BuffersAccounted == Spec => []BufferAccounting
<1>1. PipelineInv => BufferAccounting
  <2> SUFFICES ASSUME PipelineInv, streaming
               PROVE  /\ Bufs \ WithDriver = lost \cup (IF dq = 0 THEN {} ELSE {dq})
                      /\ Len(incoming) + Len(outgoing) = Cardinality(WithDriver)
    BY DEF BufferAccounting
  <2>1. /\ NoDuplicates(incoming) /\ NoDuplicates(outgoing)
        /\ ToSet(incoming) \cap ToSet(outgoing) = {}
        /\ WithDriver \cap lost = {}
        /\ dq \notin WithDriver \cup lost
        /\ Bufs \subseteq WithDriver \cup lost \cup {dq}
    BY DEF PipelineInv, Owners
  <2>2. /\ incoming \in Seq(Bufs) /\ outgoing \in Seq(Bufs)
        /\ lost \subseteq Bufs /\ dq \in 0 .. NBufs /\ NBufs \in Nat
    BY QueueAssumption DEF PipelineInv, TypeOK, QueueTypeOK
  <2>3. (dq # 0 => dq \in Bufs) /\ 0 \notin Bufs
    BY <2>2 DEF Bufs
  <2>4. Bufs \ WithDriver = lost \cup (IF dq = 0 THEN {} ELSE {dq})
    BY <2>1, <2>2, <2>3
  <2>5. Len(incoming) + Len(outgoing) = Cardinality(WithDriver)
    BY <2>1, <2>2, QueuesCount DEF WithDriver
  <2> QED
    BY <2>4, <2>5
<1> QED
  BY <1>1, PipelineInvariant, PTL

--------------------------------------------------------------------------------
(* The whole implements the Recorder                                       *)

(* A step in which nothing is taken or worked on and the end is not        *)
(* reached is a stutter.                                                   *)
LEMMA RecStutter ==
  ASSUME UNCHANGED <<n_frames, captured, stats, files>>,
         mainAt' \in {"stop", "close", "done"} <=> mainAt \in {"stop", "close", "done"}
  PROVE  UNCHANGED Rec!vars
  BY DEF Rec!vars

(* A frame is dequeued while at most the slot and the process thread have  *)
(* one, so that three copies are the most there are.                       *)
LEMMA RecTake ==
  ASSUME PipelineInv, CaptureDequeue
  PROVE  \E image \in 0 .. MaxImages : Rec!Take(image)
<1>1. PICK b \in Bufs : captured' = Append(captured, content[b])
  BY DEF CaptureDequeue
<1>2. /\ captureAt = "loop" /\ frame_i < n_frames
      /\ UNCHANGED <<n_frames, mainAt, stats, files>>
  BY DEF CaptureDequeue, CaptureGoes, mainVars, processVars
<1>3. content[b] \in 0 .. MaxImages
  BY DEF PipelineInv, TypeOK, QueueTypeOK
<1>4. mainAt \notin {"stop", "close", "done"}
  BY <1>2 DEF PipelineInv, Places
<1>5. Len(captured) = frame_i
  BY <1>2 DEF PipelineInv, Tokens
<1>6. Len(captured) - Len(stats) < 3
  <2>1. Len(captured) = Len(stats) + One(CaptureHolds) + One(item # NoFrame)
                                   + One(ProcessHolds)
    BY DEF PipelineInv, NothingLost
  <2>2. ~CaptureHolds
    BY <1>2 DEF CaptureHolds
  <2>3. Len(stats) \in Nat
    BY LenProperties DEF PipelineInv, TypeOK
  <2> HIDE DEF CaptureHolds, ProcessHolds
  <2>4. /\ One(CaptureHolds) = 0
        /\ One(item # NoFrame) \in 0 .. 1 /\ One(ProcessHolds) \in 0 .. 1
    BY <2>2 DEF One
  <2> QED
    BY <2>1, <2>3, <2>4
<1> QED
  BY <1>1, <1>2, <1>3, <1>4, <1>5, <1>6 DEF Rec!Take

(* The frame that process_frame works on is the next, and what it writes   *)
(* goes under its own number.                                              *)
LEMMA RecFinish ==
  ASSUME PipelineInv, ProcessFrame
  PROVE  Rec!Save \/ Rec!Skip
<1> DEFINE f == fb["process"]
<1>1. /\ processAt = "frame" /\ stats' = Append(stats, f.frame_idx)
      /\ UNCHANGED <<n_frames, mainAt, captured>>
  BY DEF ProcessFrame, ProcessGoes, mainVars, captureVars
<1>2. /\ f \in FrameBuffer /\ f.frame_idx = Len(stats)
      /\ Len(stats) + 1 \in DOMAIN captured /\ f.data = captured[Len(stats) + 1]
  BY <1>1 DEF PipelineInv, Tokens, IsFrame, ProcessHolds
<1>3. Len(stats) \in Nat /\ Len(captured) \in Nat /\ DOMAIN captured = 1 .. Len(captured)
  BY LenProperties DEF PipelineInv, TypeOK
<1>4. Len(stats') = Len(stats) + 1
  <2>1. f.frame_idx \in Indices
    BY <1>2 DEF FrameBuffer
  <2> QED
    BY <1>1, <2>1, AppendFacts DEF PipelineInv, TypeOK
<1>5. mainAt \notin {"stop", "close", "done"}
  BY <1>1 DEF PipelineInv, Places
<1>6. Rec!Finish
  BY <1>1, <1>2, <1>3, <1>4, <1>5 DEF Rec!Finish
<1>7. CASE UNCHANGED files
  BY <1>6, <1>7 DEF Rec!Skip
<1>8. CASE files' = [n \in DOMAIN files \cup {f.frame_idx} |->
                       IF n = f.frame_idx THEN f.data ELSE files[n]]
  <2>1. files' = [n \in DOMAIN files \cup {Len(stats)} |->
                    IF n = Len(stats) THEN captured[Len(stats) + 1] ELSE files[n]]
    BY <1>2, <1>8
  <2> QED
    BY <1>6, <2>1 DEF Rec!Save
<1> QED
  BY <1>7, <1>8 DEF ProcessFrame

LEMMA RecEnd ==
  ASSUME PipelineInv, MainJoinProcess
  PROVE  Rec!End
<1>1. /\ mainAt = "joinProcess" /\ mainAt' = "stop" /\ processAt = "exit"
      /\ UNCHANGED <<n_frames, captured, stats, files>>
  BY DEF MainJoinProcess, MainGoes, captureVars, processVars
<1>2. Len(stats) = Len(captured)
  BY <1>1, BothExited DEF PipelineInv, Places
<1> QED
  BY <1>1, <1>2 DEF Rec!End

LEMMA RecStep == PipelineInv /\ [Next]_vars => [Rec!Next]_(Rec!vars)
<1> SUFFICES ASSUME PipelineInv, [Next]_vars
             PROVE  Rec!Next \/ UNCHANGED Rec!vars
  OBVIOUS
<1> DEFINE Over == mainAt \in {"stop", "close", "done"}
<1>1. CASE CaptureDequeue
  BY <1>1, RecTake DEF Rec!Next
<1>2. CASE ProcessFrame
  BY <1>2, RecFinish DEF Rec!Next
<1>3. CASE MainJoinProcess
  BY <1>3, RecEnd DEF Rec!Next
<1>4. ASSUME Main, ~MainJoinProcess
      PROVE  UNCHANGED <<n_frames, captured, stats, files>> /\ (Over' <=> Over)
  BY <1>4
  DEF Main, MainGoes, MainStart, MainStartFails, MainGivesUp, MainAborts, MainSpawn,
      MainJoinCapture, MainStop, MainClose, captureVars, processVars
<1>5. ASSUME Capture, ~CaptureDequeue
      PROVE  UNCHANGED <<n_frames, captured, stats, files>> /\ (Over' <=> Over)
  BY <1>5
  DEF Capture, CaptureGoes, CaptureDequeueFails, CaptureLoopEnds, CaptureCopy,
      CaptureRequeue, CapturePush, CapturePushReturns, CaptureClose, CaptureExit,
      mainVars, processVars
<1>6. ASSUME Process, ~ProcessFrame
      PROVE  UNCHANGED <<n_frames, captured, stats, files>> /\ (Over' <=> Over)
  BY <1>6
  DEF Process, ProcessGoes, ProcessPop, ProcessPopReturns, mainVars, captureVars
<1>7. ASSUME Driver \/ Quiet \/ Stored \/ Taken \/ FoundEnd \/ Shut
      PROVE  UNCHANGED <<n_frames, captured, stats, files>> /\ (Over' <=> Over)
  BY <1>7
  DEF Driver, Quiet, Stored, Taken, FoundEnd, Shut, Outcome, ElseUnchanged, mainVars,
      captureVars, processVars
<1>8. ASSUME UNCHANGED <<n_frames, captured, stats, files>>, Over' <=> Over
      PROVE  UNCHANGED Rec!vars
  BY <1>8, RecStutter
<1> HIDE DEF Over
<1>9. \/ Main \/ Capture \/ Process \/ Driver
      \/ Quiet \/ Stored \/ Taken \/ FoundEnd \/ Shut
  BY NextCases DEF PipelineInv
<1> QED
  BY <1>1, <1>2, <1>3, <1>4, <1>5, <1>6, <1>7, <1>8, <1>9

(* The program with its two threads, the slot and the driver's queues is a *)
(* Recorder, for any number of buffers, images and frames: images are      *)
(* taken, worked on once and in order, and saved under their own number,   *)
(* at most three are under way, and it ends only when none is.             *)
THEOREM PipelineImplementsRecorder == Spec => IsRecorder
<1>1. Init => Rec!Init
  <2> SUFFICES ASSUME Init PROVE Rec!Init
    OBVIOUS
  <2>1. Len(stats) = 0
    BY EmptySeq DEF Init
  <2> QED
    BY <2>1 DEF Init, Rec!Init
<1> QED
  BY <1>1, RecStep, PipelineInvariant, PTL DEF Spec, IsRecorder, Rec!Spec

--------------------------------------------------------------------------------
(* The slot, in the program                                                *)

(* The two threads use the slot as its most general client may.            *)
THEOREM SlotIsUsedRight == Spec => SlotContract
<1>1. Init => Slot!Init
  BY DEF Init
<1>2. PipelineInv /\ [Next]_vars => [Slot!Next]_(Slot!vars)
  BY ClientStep DEF PipelineInv
<1> QED
  BY <1>1, <1>2, PipelineInvariant, PTL DEF Spec, SlotContract, Slot!Spec

(* So the slot keeps its own invariant in the program: no data race on its *)
(* members and no lost wake-up between the capture and the process thread. *)
THEOREM SlotInvariantHolds == Spec => []SlotProofs!IndInv
<1>1. SlotProofs!Spec => []SlotProofs!IndInv
  BY SlotProofs!SlotInvariant, PipelineAssumption DEF SlotProofs!SlotAssumption
<1>2. SlotContract => SlotProofs!Spec
  BY SameSlot, PTL DEF SlotContract, Slot!Spec, SlotProofs!Spec
<1> QED
  BY <1>1, <1>2, SlotIsUsedRight, PTL
================================================================================
