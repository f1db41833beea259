----------------------------- MODULE SessionProofs -----------------------------
(***************************************************************************)
(* main and its threads use the loader, the camera and the encoder as the  *)
(* modules of these allow, so that what is proved of each of them is true  *)
(* of every session; and what is true of main as a whole: what it leaves   *)
(* behind, what its exit code means, and that no load needs a lock.        *)
(***************************************************************************)
EXTENDS Session, DynLoaderProofs, FiniteSetTheorems, SequenceTheorems

(* Each step of main is a step of ensure or leaves the loader alone.       *)
LEMMA MainLoads == Main => LoaderNext \/ UNCHANGED loaderVars
<1> SUFFICES ASSUME Main PROVE LoaderNext \/ UNCHANGED loaderVars
  OBVIOUS
<1>1. CASE MainUsage \/ MainArgs \/ MainOpens \/ MainCameraReady
  BY <1>1 DEF MainUsage, MainArgs, MainOpens, MainCameraReady
<1>2. CASE MainLoadsMpp
  BY <1>2, SessionAssumption DEF MainLoadsMpp, LoaderNext
<1>3. CASE MainCreates \/ MainEncoderReady \/ MainStarts
  BY <1>3 DEF MainCreates, MainEncoderReady, MainStarts
<1>4. CASE MainFails \/ MainGivesUp \/ MainAborts \/ MainSpawns
  BY <1>4 DEF MainFails, MainGivesUp, MainAborts, MainSpawns
<1>5. CASE MainJoinsCapture \/ MainJoinsProcess \/ MainStops \/ MainCloses
  BY <1>5 DEF MainJoinsCapture, MainJoinsProcess, MainStops, MainCloses
<1>6. CASE MainLeaves \/ MainDestroys
  BY <1>6 DEF MainLeaves, MainDestroys
<1>7. CASE MainAsksMpp
  BY <1>7, SessionAssumption DEF MainAsksMpp, LoaderNext, Ensure
<1> QED
  BY <1>1, <1>2, <1>3, <1>4, <1>5, <1>6, <1>7 DEF Main

(* So is each step of the process thread.                                  *)
LEMMA ProcessLoads == Process => LoaderNext \/ UNCHANGED loaderVars
<1> SUFFICES ASSUME Process PROVE LoaderNext \/ UNCHANGED loaderVars
  OBVIOUS
<1>1. CASE ProcessPops \/ ProcessEnds \/ ProcessNv12 \/ ProcessConverts
  BY <1>1 DEF ProcessPops, ProcessEnds, ProcessNv12, ProcessConverts
<1>2. CASE ProcessLoadsRga
  BY <1>2, SessionAssumption DEF ProcessLoadsRga, LoaderNext
<1>3. CASE ProcessEncodes \/ ProcessReturns
  BY <1>3 DEF ProcessEncodes, ProcessReturns
<1>4. CASE ProcessInEncoder
  <2>1. AlreadyReady("mpp") \/ UNCHANGED loaderVars
    BY <1>4 DEF ProcessInEncoder
  <2> QED
    BY <2>1, SessionAssumption DEF LoaderNext, Ensure
<1> QED
  BY <1>1, <1>2, <1>3, <1>4 DEF Process

LEMMA SessionLoads == [Next]_vars => [LoaderNext]_loaderVars
<1> SUFFICES ASSUME [Next]_vars PROVE LoaderNext \/ UNCHANGED loaderVars
  OBVIOUS
<1>1. CASE Capture
  BY <1>1 DEF Capture, CaptureGoes, CaptureTakes, CapturePushes, CaptureEnds
<1>2. CASE Hardware
  BY <1>2 DEF Hardware
<1>3. CASE Ended \/ UNCHANGED vars
  BY <1>3 DEF Ended, vars
<1> QED
  BY <1>1, <1>2, <1>3, MainLoads, ProcessLoads DEF Next

--------------------------------------------------------------------------------
(* Every session is a behaviour of the loader.                             *)
THEOREM SessionIsLoader == Spec => LoaderSpec
<1>1. Init => LoaderInit
  BY DEF Init
<1> QED
  BY <1>1, SessionLoads, PTL DEF Spec, LoaderSpec

(* In every session ensure gives one answer for each library, which is     *)
(* what rk_mpp_jpeg_destroy relies on when it asks again.                  *)
THEOREM SessionAnswer == Spec => AnswerIsFinal
  BY SessionIsLoader, AnswerCorrect

(* In every session a library that is open is ready and complete.          *)
THEOREM SessionLibraries == Spec => []LibrariesAccounted
  BY SessionIsLoader, LibrariesCorrect

--------------------------------------------------------------------------------
(* The camera                                                              *)

(* What CameraSetupProofs shows of the camera holds of this one.           *)
CamProofs == INSTANCE CameraSetupProofs WITH at <- camAt, tried <- preferred

(* The definitions that the two instances share are the same.              *)
LEMMA SameCamera ==
  /\ Cam!Init <=> CamProofs!Init
  /\ [Cam!Next]_(Cam!vars) <=> [CamProofs!Next]_(CamProofs!vars)
  /\ Cam!TypeOK <=> CamProofs!TypeOK
<1>1. Cam!Init <=> CamProofs!Init
  BY DEF Cam!Init, CamProofs!Init
<1>2. [Cam!Next]_(Cam!vars) <=> [CamProofs!Next]_(CamProofs!vars)
  BY DEF Cam!Next, Cam!vars, Cam!driverVars, Cam!OpenAndAlloc, Cam!OpenDevice,
         Cam!QueryCap, Cam!SetFormat, Cam!FormatRefused, Cam!FormatsExhausted,
         Cam!RequestBufs, Cam!MapBuf, Cam!IsNext, Cam!MapFails, Cam!CameraClose,
         Cam!Ended,
         CamProofs!Next, CamProofs!vars, CamProofs!driverVars,
         CamProofs!OpenAndAlloc, CamProofs!OpenDevice, CamProofs!QueryCap,
         CamProofs!SetFormat, CamProofs!FormatRefused, CamProofs!FormatsExhausted,
         CamProofs!RequestBufs, CamProofs!MapBuf, CamProofs!IsNext,
         CamProofs!MapFails, CamProofs!CameraClose, CamProofs!Ended
<1>3. Cam!TypeOK <=> CamProofs!TypeOK
  BY DEF Cam!TypeOK, CamProofs!TypeOK
<1> QED
  BY <1>1, <1>2, <1>3

LEMMA CameraKept == UNCHANGED camVars => UNCHANGED Cam!vars
  BY DEF camVars, Cam!vars, Cam!driverVars

(* Each step of a session is one of the camera or leaves it alone.         *)
LEMMA SessionSetsUp == [Next]_vars => [Cam!Next]_(Cam!vars)
<1> SUFFICES ASSUME [Next]_vars PROVE Cam!Next \/ UNCHANGED camVars
  BY CameraKept
<1>1. CASE MainOpens \/ MainGivesUp \/ MainCloses
  BY <1>1 DEF MainOpens, MainGivesUp, MainCloses, Cam!Next
<1>2. CASE MainUsage \/ MainArgs \/ MainCameraReady \/ MainLoadsMpp \/ MainCreates
  BY <1>2 DEF MainUsage, MainArgs, MainCameraReady, MainLoadsMpp, MainCreates
<1>3. CASE MainEncoderReady \/ MainStarts \/ MainFails \/ MainAborts \/ MainSpawns
  BY <1>3 DEF MainEncoderReady, MainStarts, MainFails, MainAborts, MainSpawns
<1>4. CASE MainJoinsCapture \/ MainJoinsProcess \/ MainStops \/ MainLeaves
  BY <1>4 DEF MainJoinsCapture, MainJoinsProcess, MainStops, MainLeaves
<1>5. CASE MainAsksMpp \/ MainDestroys
  BY <1>5 DEF MainAsksMpp, MainDestroys
<1>6. CASE Capture
  BY <1>6 DEF Capture, CaptureGoes, CaptureTakes, CapturePushes, CaptureEnds
<1>7. CASE Process
  BY <1>7 DEF Process, ProcessGoes, ProcessPops, ProcessEnds, ProcessNv12,
              ProcessLoadsRga, ProcessConverts, ProcessEncodes, ProcessInEncoder,
              ProcessReturns
<1>8. CASE Hardware \/ Ended \/ UNCHANGED vars
  BY <1>8 DEF Hardware, Ended, vars
<1> QED
  BY <1>1, <1>2, <1>3, <1>4, <1>5, <1>6, <1>7, <1>8 DEF Next, Main

(* main uses the camera as CameraSetup allows, so that what is proved of   *)
(* the set-up is true of every session.                                    *)
THEOREM SessionIsCamera == Spec => Cam!Spec
<1>1. Init => Cam!Init
  BY DEF Init
<1> QED
  BY <1>1, SessionSetsUp, PTL DEF Spec, Cam!Spec

LEMMA CameraInvariant == Spec => []CamProofs!SetupInv
<1>1. CamProofs!Spec => []CamProofs!SetupInv
  BY CamProofs!SetupInvariant, SessionAssumption
  DEF CamProofs!SetupAssumption, Cam!SetupAssumption
<1>2. Cam!Spec => CamProofs!Spec
  BY SameCamera, PTL DEF Cam!Spec, CamProofs!Spec
<1> QED
  BY <1>1, <1>2, SessionIsCamera, PTL

--------------------------------------------------------------------------------
(* The inductive invariant of main                                         *)

Places == {"args", "open", "create", "start", "spawn", "joinCapture", "joinProcess",
           "stop", "close", "giveUp", "leave", "destroy", "done", "aborted"}

(* main before its threads exist, and main on a way on which they never do. *)
BeforeThreads == {"args", "open", "create", "start", "spawn", "giveUp", "aborted"}

(* main past the set-up of the encoder, on the way to exit code 0.         *)
Working == {"start", "spawn", "joinCapture", "joinProcess", "stop", "close", "aborted"}

(* main gives an exit code on three ways, and never revises it.            *)
Exits ==
  /\ mainAt \in Places
  /\ code \in {-1, 0, 1}
  /\ mainAt \in Working \cup {"args", "open", "create"} <=> code = -1
  /\ mainAt = "giveUp" => code = 1
  /\ streaming \in BOOLEAN
  /\ streaming => mainAt \in {"spawn", "joinCapture", "joinProcess", "stop", "aborted"}

One(b) == IF b THEN 1 ELSE 0

(* The process thread has a frame in hand.                                 *)
Processing == processAt \in {"frame", "convert", "encode", "encoding"}

(* The threads live between their creation and the joins; a frame taken is *)
(* handled, or in one of three places; the slot is closed by the capture   *)
(* thread as it ends, and the process thread ends with the slot drained.   *)
ThreadLives ==
  /\ captureAt \in {"unborn", "loop", "push", "exit"}
  /\ processAt \in {"unborn", "pop", "frame", "convert", "encode", "encoding", "exit"}
  /\ slot \in [full : BOOLEAN, closed : BOOLEAN]
  /\ taken \in Nat /\ handled \in Nat
  /\ mainAt \in BeforeThreads \/ code = 1 =>
       /\ captureAt = "unborn" /\ processAt = "unborn"
       /\ taken = 0 /\ handled = 0 /\ ~slot.full
  /\ mainAt \in {"joinProcess", "stop", "close"} \/ code = 0 => captureAt = "exit"
  /\ mainAt \in {"stop", "close"} \/ code = 0 => processAt = "exit"
  /\ slot.closed => captureAt = "exit"
  /\ processAt = "exit" => slot.closed /\ ~slot.full
  /\ taken = handled + One(captureAt = "push") + One(slot.full) + One(Processing)

(* The camera is ready while main works with it, and closed when it has    *)
(* left; before the arguments are looked at it is not even open.           *)
CameraUse ==
  /\ mainAt = "args" => camAt = "open" /\ ~fd
  /\ mainAt \in {"create"} \cup Working => camAt = "ready"
  /\ mainAt \in {"leave", "destroy"} => camAt = "closed"
  /\ mainAt = "done" => camAt \in {"open", "closed"} /\ ~fd

(* The encoder exists while main works, is used by the process thread      *)
(* between the call of encode and its return, and is there only with its   *)
(* library.                                                                *)
EncoderUse ==
  /\ pc["process"] # "idle" => processAt = "encoding"
  /\ mainAt \in {"args", "open"} => encAt = "load"
  /\ mainAt \in Working \cup {"destroy"} => encAt = "ready"
  /\ mainAt \in {"giveUp", "leave", "done"} =>
       encAt \in {"load", "null", "ready", "destroyed"}
  /\ mainAt = "done" => encAt # "ready"
  /\ encAt = "destroyed" => mainAt = "done"
  /\ encAt \notin {"load", "null"} => answer["mpp"] = "ready"

MainInv == Exits /\ ThreadLives /\ CameraUse /\ EncoderUse

LEMMA InitMainInv == Init => MainInv
<1> SUFFICES ASSUME Init PROVE MainInv
  OBVIOUS
<1>1. Exits
  BY DEF Init, Exits, Places, Working
<1>2. ThreadLives
  BY DEF Init, ThreadLives, BeforeThreads, One, Processing
<1>3. CameraUse
  BY DEF Init, CameraUse, Working, Cam!Init
<1>4. EncoderUse
  BY DEF Init, EncoderUse, Working, Enc!Init
<1> QED
  BY <1>1, <1>2, <1>3, <1>4 DEF MainInv

(* Only main decides where it is, whether the stream runs, and the code.   *)
LEMMA OnlyMain ==
  ASSUME Capture \/ Process \/ Hardware \/ Ended \/ UNCHANGED vars
  PROVE  UNCHANGED <<mainVars, camVars>>
<1>1. CASE Capture
  BY <1>1 DEF Capture, CaptureGoes, CaptureTakes, CapturePushes, CaptureEnds
<1>2. CASE Process
  BY <1>2 DEF Process, ProcessGoes, ProcessPops, ProcessEnds, ProcessNv12,
              ProcessLoadsRga, ProcessConverts, ProcessEncodes, ProcessInEncoder,
              ProcessReturns
<1>3. CASE Hardware \/ Ended \/ UNCHANGED vars
  BY <1>3 DEF Hardware, Ended, vars
<1> QED
  BY <1>1, <1>2, <1>3

LEMMA ExitsStep == Exits /\ [Next]_vars => Exits'
<1> SUFFICES ASSUME Exits, [Next]_vars PROVE Exits'
  OBVIOUS
<1> USE DEF Exits, Places, Working, MainGoes
<1>1. CASE MainUsage \/ MainArgs \/ MainOpens \/ MainCameraReady
  BY <1>1 DEF MainUsage, MainArgs, MainOpens, MainCameraReady
<1>2. CASE MainLoadsMpp \/ MainCreates
  BY <1>2 DEF MainLoadsMpp, MainCreates
<1>3. CASE MainEncoderReady
  BY <1>3 DEF MainEncoderReady
<1>4. CASE MainStarts
  <2>1. streaming' \in BOOLEAN
    BY <1>4 DEF MainStarts
  <2>2. mainAt = "start" /\ mainAt' = "spawn" /\ UNCHANGED code
    BY <1>4 DEF MainStarts
  <2> QED
    BY <2>1, <2>2
<1>5. CASE MainFails \/ MainGivesUp \/ MainAborts \/ MainSpawns
  BY <1>5 DEF MainFails, MainGivesUp, MainAborts, MainSpawns
<1>6. CASE MainJoinsCapture \/ MainJoinsProcess
  BY <1>6 DEF MainJoinsCapture, MainJoinsProcess
<1>7. CASE MainStops
  <2>1. streaming' \in BOOLEAN /\ ~streaming'
    BY <1>7 DEF MainStops
  <2>2. mainAt = "stop" /\ mainAt' = "close" /\ UNCHANGED code
    BY <1>7 DEF MainStops
  <2> QED
    BY <2>1, <2>2
<1>8. CASE MainCloses
  BY <1>8 DEF MainCloses
<1>9. CASE MainLeaves \/ MainAsksMpp \/ MainDestroys
  BY <1>9 DEF MainLeaves, MainAsksMpp, MainDestroys
<1>10. CASE Capture \/ Process \/ Hardware \/ Ended \/ UNCHANGED vars
  BY <1>10, OnlyMain DEF mainVars
<1> QED
  BY <1>1, <1>2, <1>3, <1>4, <1>5, <1>6, <1>7, <1>8, <1>9, <1>10
  DEF Next, Main

(* What main does to the threads: it creates them, once, before which they *)
(* are not there, and joins them.                                          *)
LEMMA MainAndThreads ==
  ASSUME Exits, ThreadLives, Main
  PROVE  ThreadLives'
<1> USE DEF Exits, ThreadLives, Places, Working, BeforeThreads, MainGoes, threadVars
<1>1. CASE MainUsage \/ MainArgs \/ MainOpens \/ MainCameraReady
  BY <1>1 DEF MainUsage, MainArgs, MainOpens, MainCameraReady, Processing
<1>2. CASE MainLoadsMpp \/ MainCreates \/ MainEncoderReady \/ MainStarts
  BY <1>2 DEF MainLoadsMpp, MainCreates, MainEncoderReady, MainStarts, Processing
<1>3. CASE MainFails \/ MainGivesUp \/ MainAborts
  BY <1>3 DEF MainFails, MainGivesUp, MainAborts, Processing
<1>4. CASE MainSpawns
  BY <1>4 DEF MainSpawns, One, Processing
<1>5. CASE MainJoinsCapture \/ MainJoinsProcess \/ MainStops \/ MainCloses
  BY <1>5 DEF MainJoinsCapture, MainJoinsProcess, MainStops, MainCloses, Processing
<1>6. CASE MainLeaves \/ MainAsksMpp \/ MainDestroys
  BY <1>6 DEF MainLeaves, MainAsksMpp, MainDestroys, Processing
<1> QED
  BY <1>1, <1>2, <1>3, <1>4, <1>5, <1>6 DEF Main

(* A thread that runs does so between its creation and its join.           *)
LEMMA RunningMeansJoining ==
  ASSUME Exits, ThreadLives,
         captureAt \notin {"unborn", "exit"} \/ processAt \notin {"unborn", "exit"}
  PROVE  mainAt \in {"joinCapture", "joinProcess"} /\ code = -1
  BY DEF Exits, ThreadLives, Places, Working, BeforeThreads

LEMMA CaptureLives ==
  ASSUME Exits, ThreadLives, Capture
  PROVE  ThreadLives'
<1>1. /\ UNCHANGED <<mainAt, code, processAt, handled>>
      /\ captureAt \in {"loop", "push"}
  BY DEF Capture, CaptureGoes, CaptureTakes, CapturePushes, CaptureEnds, mainVars
<1>2. mainAt = "joinCapture" /\ code = -1 /\ ~slot.closed /\ processAt # "exit"
  BY <1>1, RunningMeansJoining DEF ThreadLives
<1> USE DEF ThreadLives, CaptureGoes, BeforeThreads
<1>3. CASE CaptureTakes
  BY <1>1, <1>2, <1>3 DEF CaptureTakes, One, Processing
<1>4. CASE CapturePushes
  <2>1. ~slot.full /\ captureAt = "push" /\ captureAt' = "loop" /\ UNCHANGED taken
    BY <1>4 DEF CapturePushes
  <2>2. slot' = [full |-> TRUE, closed |-> FALSE]
    BY <1>2, <1>4 DEF CapturePushes
  <2> QED
    BY <1>1, <1>2, <2>1, <2>2 DEF One, Processing
<1>5. CASE CaptureEnds
  BY <1>1, <1>2, <1>5 DEF CaptureEnds, One, Processing
<1> QED
  BY <1>3, <1>4, <1>5 DEF Capture

LEMMA ProcessLives ==
  ASSUME Exits, ThreadLives, Process
  PROVE  ThreadLives'
<1>1. /\ UNCHANGED <<mainAt, code, captureAt, taken>>
      /\ processAt \in {"pop", "frame", "convert", "encode", "encoding"}
  BY DEF Process, ProcessGoes, ProcessPops, ProcessEnds, ProcessNv12,
         ProcessLoadsRga, ProcessConverts, ProcessEncodes, ProcessInEncoder,
         ProcessReturns, mainVars
<1>2. mainAt \in {"joinCapture", "joinProcess"} /\ code = -1
  BY <1>1, RunningMeansJoining
<1> USE DEF ThreadLives, ProcessGoes, BeforeThreads
<1>3. CASE ProcessPops
  <2>1. slot.full /\ processAt = "pop" /\ processAt' = "frame" /\ UNCHANGED handled
    BY <1>3 DEF ProcessPops
  <2>2. slot' = [full |-> FALSE, closed |-> slot.closed]
    BY <1>3 DEF ProcessPops
  <2>3. slot' \in [full : BOOLEAN, closed : BOOLEAN]
    BY <2>2
  <2> QED
    BY <1>1, <1>2, <2>1, <2>2, <2>3 DEF One, Processing
<1>4. CASE ProcessEnds
  BY <1>1, <1>2, <1>4 DEF ProcessEnds, One, Processing
<1>5. CASE ProcessNv12 \/ ProcessConverts \/ ProcessEncodes \/ ProcessInEncoder
  BY <1>1, <1>2, <1>5
  DEF ProcessNv12, ProcessConverts, ProcessEncodes, ProcessInEncoder, One, Processing
<1>6. CASE ProcessLoadsRga
  BY <1>1, <1>2, <1>6 DEF ProcessLoadsRga, One, Processing
<1>7. CASE ProcessReturns
  BY <1>1, <1>2, <1>7 DEF ProcessReturns, One, Processing
<1> QED
  BY <1>3, <1>4, <1>5, <1>6, <1>7 DEF Process

LEMMA ThreadLivesStep == Exits /\ ThreadLives /\ [Next]_vars => ThreadLives'
<1> SUFFICES ASSUME Exits, ThreadLives, [Next]_vars PROVE ThreadLives'
  OBVIOUS
<1>1. CASE Hardware \/ Ended \/ UNCHANGED vars
  <2>1. UNCHANGED <<mainVars, threadVars>>
    BY <1>1 DEF Hardware, Ended, vars
  <2> QED
    BY <2>1 DEF mainVars, threadVars, ThreadLives, Processing
<1> QED
  BY <1>1, MainAndThreads, CaptureLives, ProcessLives DEF Next

LEMMA CameraUseStep ==
  Exits /\ CameraUse /\ CamProofs!SetupInv /\ [Next]_vars => CameraUse'
<1> SUFFICES ASSUME Exits, CameraUse, CamProofs!SetupInv, [Next]_vars PROVE CameraUse'
  OBVIOUS
<1> USE DEF Exits, CameraUse, Places, Working, MainGoes, camVars
<1>1. CASE MainUsage \/ MainArgs \/ MainCameraReady
  BY <1>1 DEF MainUsage, MainArgs, MainCameraReady
<1>2. CASE MainOpens
  BY <1>2 DEF MainOpens
<1>3. CASE MainLoadsMpp \/ MainCreates \/ MainEncoderReady \/ MainStarts
  BY <1>3 DEF MainLoadsMpp, MainCreates, MainEncoderReady, MainStarts
<1>4. CASE MainFails \/ MainAborts \/ MainSpawns
  BY <1>4 DEF MainFails, MainAborts, MainSpawns
<1>5. CASE MainGivesUp \/ MainCloses
  BY <1>5 DEF MainGivesUp, MainCloses, Cam!CameraClose
<1>6. CASE MainJoinsCapture \/ MainJoinsProcess \/ MainStops
  BY <1>6 DEF MainJoinsCapture, MainJoinsProcess, MainStops
<1>7. CASE MainLeaves \/ MainAsksMpp \/ MainDestroys
  <2>1. camAt = "closed" => ~fd
    BY DEF CamProofs!SetupInv, CamProofs!Progress
  <2> QED
    BY <1>7, <2>1 DEF MainLeaves, MainAsksMpp, MainDestroys
<1>8. CASE Capture \/ Process \/ Hardware \/ Ended \/ UNCHANGED vars
  BY <1>8, OnlyMain DEF mainVars
<1> QED
  BY <1>1, <1>2, <1>3, <1>4, <1>5, <1>6, <1>7, <1>8 DEF Next, Main

(* A library that is there stays there.                                    *)
LEMMA MppStays ==
  ASSUME LoaderInv, [Next]_vars, answer["mpp"] = "ready"
  PROVE  answer'["mpp"] = "ready"
  BY SessionLoads, AnswerStep, SessionAssumption

LEMMA CreateMoves ==
  ASSUME Enc!Create
  PROVE  /\ UNCHANGED pc
         /\ encAt' # "destroyed"
         /\ encAt \notin {"null", "ready", "destroyed"}
         /\ encAt = "load" => encAt' \in {"calloc", "null"}
  BY DEF Enc!Create, Enc!Acquire, Enc!Check, Enc!EnsureApi, Enc!Calloc, Enc!MppCreate,
         Enc!MppInit, Enc!CfgInit, Enc!Configure, Enc!GroupGet, Enc!BufferGet,
         Enc!BufferPtr, Enc!CreateFails, Enc!callVars

(* What main does to the encoder.                                          *)
LEMMA MainAndEncoder ==
  ASSUME Exits, ThreadLives, EncoderUse, LoaderInv, Main
  PROVE  EncoderUse'
<1>1. answer["mpp"] = "ready" => answer'["mpp"] = "ready"
  BY MppStays DEF Next
<1>2. processAt = "encoding" => mainAt \in {"joinCapture", "joinProcess"}
  BY RunningMeansJoining
<1> USE <1>1 DEF EncoderUse, Working, MainGoes, threadVars, encVars
<1>3. CASE MainUsage \/ MainArgs \/ MainOpens \/ MainCameraReady
  BY <1>3 DEF MainUsage, MainArgs, MainOpens, MainCameraReady
<1>4. CASE MainLoadsMpp
  BY <1>4 DEF MainLoadsMpp
<1>5. CASE MainCreates
  BY <1>5, CreateMoves DEF MainCreates, loaderVars
<1>6. CASE MainEncoderReady \/ MainStarts
  BY <1>6 DEF MainEncoderReady, MainStarts
<1>7. CASE MainFails \/ MainGivesUp \/ MainAborts
  BY <1>7 DEF MainFails, MainGivesUp, MainAborts
<1>8. CASE MainSpawns
  BY <1>2, <1>8 DEF MainSpawns
<1>9. CASE MainJoinsCapture \/ MainJoinsProcess
  BY <1>9 DEF MainJoinsCapture, MainJoinsProcess
<1>10. CASE MainStops \/ MainCloses
  BY <1>10 DEF MainStops, MainCloses
<1>11. CASE MainLeaves \/ MainAsksMpp
  BY <1>11 DEF MainLeaves, MainAsksMpp
<1>12. CASE MainDestroys
  BY <1>12 DEF MainDestroys, MainGoes, Enc!Destroy, Enc!callVars
<1> QED
  BY <1>3, <1>4, <1>5, <1>6, <1>7, <1>8, <1>9, <1>10, <1>11, <1>12 DEF Main

(* The process thread calls encode and does its steps; it never changes    *)
(* whether the encoder is there.                                           *)
LEMMA EncodeKeepsLife ==
  ASSUME Enc!Encode("process") \/ \E img \in Images : Enc!Call("process", img)
  PROVE  UNCHANGED <<encAt, held>>
  BY DEF Enc!Encode, Enc!Call, Enc!Goes, Enc!lifeVars, Enc!TooShort, Enc!CopyFirst,
         Enc!CopyRest, Enc!FrameInit, Enc!PutFrame, Enc!PutFails, Enc!GetPacket,
         Enc!GetFails, Enc!TakePacket, Enc!FrameDeinit

LEMMA ProcessAndEncoder ==
  ASSUME EncoderUse, LoaderInv, Process
  PROVE  EncoderUse'
<1>1. answer["mpp"] = "ready" => answer'["mpp"] = "ready"
  BY MppStays DEF Next
<1>2. UNCHANGED mainAt
  BY OnlyMain DEF mainVars
<1>3. UNCHANGED encAt /\ (pc'["process"] # "idle" => processAt' = "encoding")
  <2> USE DEF ProcessGoes, encVars, EncoderUse
  <2>1. CASE ProcessPops \/ ProcessEnds \/ ProcessNv12
    BY <2>1 DEF ProcessPops, ProcessEnds, ProcessNv12
  <2>2. CASE ProcessLoadsRga \/ ProcessConverts \/ ProcessReturns
    BY <2>2 DEF ProcessLoadsRga, ProcessConverts, ProcessReturns
  <2>3. CASE ProcessEncodes \/ ProcessInEncoder
    BY <2>3, EncodeKeepsLife DEF ProcessEncodes, ProcessInEncoder
  <2> QED
    BY <2>1, <2>2, <2>3 DEF Process
<1> QED
  BY <1>1, <1>2, <1>3 DEF EncoderUse

LEMMA EncoderUseStep ==
  Exits /\ ThreadLives /\ EncoderUse /\ LoaderInv /\ [Next]_vars => EncoderUse'
<1> SUFFICES ASSUME Exits, ThreadLives, EncoderUse, LoaderInv, [Next]_vars
             PROVE  EncoderUse'
  OBVIOUS
<1>1. CASE Capture
  BY <1>1 DEF Capture, CaptureGoes, CaptureTakes, CapturePushes, CaptureEnds,
              encVars, loaderVars, mainVars, EncoderUse
<1>2. CASE Hardware
  BY <1>2 DEF Hardware, Enc!Hardware, Enc!lifeVars, Enc!callVars, loaderVars,
              mainVars, threadVars, EncoderUse
<1>3. CASE Ended \/ UNCHANGED vars
  BY <1>3 DEF Ended, vars, encVars, loaderVars, mainVars, threadVars, EncoderUse
<1> QED
  BY <1>1, <1>2, <1>3, MainAndEncoder, ProcessAndEncoder DEF Next

--------------------------------------------------------------------------------
(* What main and its threads know of each other, of the camera and of the  *)
(* encoder, in every reachable state.                                      *)
THEOREM MainInvariant == Spec => []MainInv
<1>1. MainInv /\ LoaderInv /\ CamProofs!SetupInv /\ [Next]_vars => MainInv'
  BY ExitsStep, ThreadLivesStep, CameraUseStep, EncoderUseStep DEF MainInv
<1>2. Spec => []LoaderInv
  BY SessionIsLoader, LoaderInvariant
<1> QED
  BY <1>1, <1>2, InitMainInv, CameraInvariant, PTL DEF Spec

(* Exit code 0 means that every frame taken from the camera has been       *)
(* through process_frame, exit code 1 that none was taken.                 *)
THEOREM ExitCodeCorrect == Spec => []ExitCodeMeansFrames
<1>1. MainInv => ExitCodeMeansFrames
  <2> SUFFICES ASSUME MainInv, mainAt = "done"
               PROVE  /\ code = 0 => handled = taken /\ processAt = "exit"
                      /\ code = 1 => taken = 0 /\ processAt = "unborn"
    BY DEF ExitCodeMeansFrames
  <2>1. CASE code = 0
    BY <2>1 DEF MainInv, ThreadLives, One, Processing
  <2>2. CASE code = 1
    BY <2>2 DEF MainInv, ThreadLives
  <2> QED
    BY <2>1, <2>2
<1> QED
  BY <1>1, MainInvariant, PTL

--------------------------------------------------------------------------------
(* The threads implement the Recorder                                      *)

Over == mainAt \in {"stop", "close"} \/ code = 0

LEMMA RecTake ==
  ASSUME MainInv, CaptureTakes
  PROVE  Rec!Take(0)
<1>1. /\ captureAt = "loop" /\ taken < n_frames /\ taken' = taken + 1
      /\ UNCHANGED <<n_frames, mainAt, code, handled>>
  BY DEF CaptureTakes, CaptureGoes, mainVars
<1>2. ~Over
  BY <1>1 DEF MainInv, ThreadLives, Over
<1>3. taken \in Nat /\ handled \in Nat /\ taken - handled < 3
  <2>1. taken \in Nat /\ handled \in Nat
    BY DEF MainInv, ThreadLives
  <2>2. taken = handled + One(captureAt = "push") + One(slot.full) + One(Processing)
    BY DEF MainInv, ThreadLives
  <2>3. /\ One(captureAt = "push") = 0
        /\ One(slot.full) \in 0 .. 1 /\ One(Processing) \in 0 .. 1
    BY <1>1 DEF One
  <2> QED
    BY <2>1, <2>2, <2>3
<1>4. /\ Len([k \in 1 .. taken |-> 0]) = taken
      /\ [k \in 1 .. taken' |-> 0] = Append([k \in 1 .. taken |-> 0], 0)
  <2> DEFINE s == [k \in 1 .. taken |-> 0]
             t == [k \in 1 .. taken + 1 |-> 0]
  <2>1. /\ s \in Seq({0}) /\ Len(s) = taken /\ \A k \in 1 .. taken : s[k] = 0
        /\ t \in Seq({0}) /\ Len(t) = taken + 1
        /\ \A k \in 1 .. taken + 1 : t[k] = 0
    BY <1>3, IsASeq
  <2> HIDE DEF s, t
  <2>2. /\ Append(s, 0) \in Seq({0}) /\ Len(Append(s, 0)) = taken + 1
        /\ \A k \in 1 .. taken + 1 : Append(s, 0)[k] = 0
    BY <1>3, <2>1, AppendProperties
  <2>3. t = Append(s, 0)
    BY <2>1, <2>2, SeqEqual
  <2> QED
    BY <1>1, <2>1, <2>3 DEF s, t
<1> QED
  BY <1>1, <1>2, <1>3, <1>4 DEF Rec!Take, Over

LEMMA RecSkip ==
  ASSUME MainInv, ProcessReturns
  PROVE  Rec!Skip
<1>1. /\ Processing /\ handled' = handled + 1 /\ processAt # "exit"
      /\ UNCHANGED <<n_frames, mainAt, code, taken>>
  BY DEF ProcessReturns, ProcessGoes, Processing, mainVars
<1>2. ~Over
  BY <1>1 DEF MainInv, ThreadLives, Over
<1>3. taken \in Nat /\ handled \in Nat /\ handled < taken
  <2>1. taken \in Nat /\ handled \in Nat
    BY DEF MainInv, ThreadLives
  <2>2. taken = handled + One(captureAt = "push") + One(slot.full) + One(Processing)
    BY DEF MainInv, ThreadLives
  <2>3. /\ One(captureAt = "push") \in 0 .. 1 /\ One(slot.full) \in 0 .. 1
        /\ One(Processing) = 1
    BY <1>1 DEF One
  <2> QED
    BY <2>1, <2>2, <2>3
<1>4. Len([k \in 1 .. taken |-> 0]) = taken
  BY <1>3, IsASeq
<1> QED
  BY <1>1, <1>2, <1>3, <1>4 DEF Rec!Skip, Rec!Finish, Over

LEMMA RecEnd ==
  ASSUME MainInv, MainJoinsProcess
  PROVE  Rec!End
<1>1. /\ mainAt = "joinProcess" /\ mainAt' = "stop" /\ processAt = "exit"
      /\ UNCHANGED <<n_frames, code, taken, handled>>
  BY DEF MainJoinsProcess, MainGoes, threadVars
<1>2. ~Over /\ Over'
  BY <1>1 DEF MainInv, Exits, Working, Over
<1>3. taken \in Nat /\ taken = handled
  BY <1>1 DEF MainInv, ThreadLives, One, Processing
<1>4. Len([k \in 1 .. taken |-> 0]) = taken
  BY <1>3, IsASeq
<1> QED
  BY <1>1, <1>2, <1>3, <1>4 DEF Rec!End, Over

LEMMA RecStep == MainInv /\ [Next]_vars => [Rec!Next]_(Rec!vars)
<1> SUFFICES ASSUME MainInv, [Next]_vars
             PROVE  Rec!Next \/ UNCHANGED Rec!vars
  OBVIOUS
<1>1. CASE CaptureTakes
  BY <1>1, RecTake DEF Rec!Next
<1>2. CASE ProcessReturns
  BY <1>2, RecSkip DEF Rec!Next
<1>3. CASE MainJoinsProcess
  BY <1>3, RecEnd DEF Rec!Next
<1>4. ASSUME Main, ~MainJoinsProcess
      PROVE  UNCHANGED <<n_frames, taken, handled>> /\ (Over' <=> Over)
  <2> USE DEF MainInv, Exits, Working, Over, MainGoes, threadVars
  <2>1. CASE MainUsage \/ MainArgs \/ MainOpens \/ MainCameraReady
    BY <2>1 DEF MainUsage, MainArgs, MainOpens, MainCameraReady
  <2>2. CASE MainLoadsMpp \/ MainCreates \/ MainEncoderReady \/ MainStarts
    BY <2>2 DEF MainLoadsMpp, MainCreates, MainEncoderReady, MainStarts
  <2>3. CASE MainFails \/ MainGivesUp \/ MainAborts \/ MainSpawns
    BY <2>3 DEF MainFails, MainGivesUp, MainAborts, MainSpawns
  <2>4. CASE MainJoinsCapture \/ MainStops \/ MainCloses
    BY <2>4 DEF MainJoinsCapture, MainStops, MainCloses
  <2>5. CASE MainLeaves \/ MainAsksMpp \/ MainDestroys
    BY <2>5 DEF MainLeaves, MainAsksMpp, MainDestroys
  <2> QED
    BY <1>4, <2>1, <2>2, <2>3, <2>4, <2>5 DEF Main
<1>5. ASSUME Capture, ~CaptureTakes
      PROVE  UNCHANGED <<n_frames, taken, handled>> /\ (Over' <=> Over)
  BY <1>5 DEF Capture, CaptureGoes, CapturePushes, CaptureEnds, mainVars, Over
<1>6. ASSUME Process, ~ProcessReturns
      PROVE  UNCHANGED <<n_frames, taken, handled>> /\ (Over' <=> Over)
  BY <1>6
  DEF Process, ProcessGoes, ProcessPops, ProcessEnds, ProcessNv12, ProcessLoadsRga,
      ProcessConverts, ProcessEncodes, ProcessInEncoder, mainVars, Over
<1>7. ASSUME Hardware \/ Ended \/ UNCHANGED vars
      PROVE  UNCHANGED <<n_frames, taken, handled>> /\ (Over' <=> Over)
  BY <1>7 DEF Hardware, Ended, vars, mainVars, threadVars, Over
<1>8. ASSUME UNCHANGED <<n_frames, taken, handled>>, Over' <=> Over
      PROVE  UNCHANGED Rec!vars
  BY <1>8 DEF Rec!vars, Over
<1> HIDE DEF Over
<1> QED
  BY <1>1, <1>2, <1>3, <1>4, <1>5, <1>6, <1>7, <1>8 DEF Next

(* In every session the frames go through the two threads as a Recorder    *)
(* says: no more than were asked for, at most three at a time, each once,  *)
(* and main goes on only when all have been worked on.                     *)
THEOREM SessionImplementsRecorder == Spec => IsRecorder
<1>1. Init => Rec!Init
  <2> SUFFICES ASSUME Init PROVE Rec!Init
    OBVIOUS
  <2>1. [k \in 1 .. taken |-> 0] = <<>>
    BY DEF Init
  <2>2. mainAt \notin {"stop", "close"} /\ code # 0
    BY DEF Init
  <2> QED
    BY <2>1, <2>2 DEF Init, Rec!Init
<1> QED
  BY <1>1, RecStep, MainInvariant, PTL DEF Spec, IsRecorder, Rec!Spec

--------------------------------------------------------------------------------
(* What main leaves behind, and what it may call                           *)

(* attempted, ready and the function tables need no lock: of main and the  *)
(* process thread only one is in ensure for a library at a time.           *)
THEOREM NoTwoLoads == Spec => []LoadsDoNotOverlap
<1>1. MainInv => LoadsDoNotOverlap
  <2> SUFFICES ASSUME MainInv, NEW lib \in Libs PROVE Cardinality(Asking(lib)) <= 1
    BY DEF LoadsDoNotOverlap
  <2>1. processAt = "encoding" => mainAt \in {"joinCapture", "joinProcess"}
    BY RunningMeansJoining DEF MainInv
  <2>2. ~("main" \in Asking(lib) /\ "process" \in Asking(lib))
    BY <2>1 DEF Asking, MainInv, EncoderUse
  <2>3. Asking(lib) \subseteq {"main"} \/ Asking(lib) \subseteq {"process"}
    BY <2>2 DEF Asking
  <2>4. ASSUME NEW t, Asking(lib) \subseteq {t} PROVE Cardinality(Asking(lib)) <= 1
    <3>1. IsFiniteSet({t}) /\ Cardinality({t}) = 1
      BY FS_Singleton
    <3> QED
      BY <2>4, <3>1, FS_Subset
  <2> QED
    BY <2>3, <2>4
<1> QED
  BY <1>1, MainInvariant, PTL

--------------------------------------------------------------------------------
(* The encoder                                                             *)

(* What MppJpegProofs shows of the encoder holds of this one.              *)
EncProofs == INSTANCE MppJpegProofs WITH at <- encAt, Callers <- {"process"}

(* The definitions that the two instances share are the same.              *)
LEMMA SameEncoder ==
  /\ Enc!Init <=> EncProofs!Init
  /\ [Enc!Next]_(Enc!vars) <=> [EncProofs!Next]_(EncProofs!vars)
  /\ Enc!TypeOK <=> EncProofs!TypeOK
<1>1. Enc!Init <=> EncProofs!Init
  BY DEF Enc!Init, EncProofs!Init
<1>2. Enc!Create <=> EncProofs!Create
  BY DEF Enc!Create, Enc!Acquire, Enc!Check, Enc!EnsureApi, Enc!Calloc,
         Enc!MppCreate, Enc!MppInit, Enc!CfgInit, Enc!Configure, Enc!GroupGet,
         Enc!BufferGet, Enc!BufferPtr, Enc!CreateFails, Enc!callVars, Enc!mppVars,
         EncProofs!Create, EncProofs!Acquire, EncProofs!Check, EncProofs!EnsureApi,
         EncProofs!Calloc, EncProofs!MppCreate, EncProofs!MppInit,
         EncProofs!CfgInit, EncProofs!Configure, EncProofs!GroupGet,
         EncProofs!BufferGet, EncProofs!BufferPtr, EncProofs!CreateFails,
         EncProofs!callVars, EncProofs!mppVars
<1>3. ASSUME NEW c PROVE Enc!Encode(c) <=> EncProofs!Encode(c)
  BY DEF Enc!Encode, Enc!Goes, Enc!lifeVars, Enc!mppVars, Enc!TooShort,
         Enc!CopyFirst, Enc!CopyRest, Enc!FrameInit, Enc!PutFrame, Enc!PutFails,
         Enc!GetPacket, Enc!GetFails, Enc!TakePacket, Enc!FrameDeinit,
         EncProofs!Encode, EncProofs!Goes, EncProofs!lifeVars, EncProofs!mppVars,
         EncProofs!TooShort, EncProofs!CopyFirst, EncProofs!CopyRest,
         EncProofs!FrameInit, EncProofs!PutFrame, EncProofs!PutFails,
         EncProofs!GetPacket, EncProofs!GetFails, EncProofs!TakePacket,
         EncProofs!FrameDeinit
<1>4. ASSUME NEW c, NEW img PROVE Enc!Call(c, img) <=> EncProofs!Call(c, img)
  BY DEF Enc!Call, Enc!Goes, Enc!lifeVars, Enc!mppVars,
         EncProofs!Call, EncProofs!Goes, EncProofs!lifeVars, EncProofs!mppVars
<1>5. /\ Enc!OwnerDestroys <=> EncProofs!OwnerDestroys
      /\ Enc!Hardware <=> EncProofs!Hardware
      /\ Enc!Ended <=> EncProofs!Ended
      /\ Enc!vars = EncProofs!vars
      /\ (Enc!vars)' = (EncProofs!vars)'
  BY DEF Enc!OwnerDestroys, Enc!Destroy, Enc!Hardware, Enc!Ended, Enc!vars,
         Enc!lifeVars, Enc!callVars, Enc!mppVars, EncProofs!OwnerDestroys,
         EncProofs!Destroy, EncProofs!Hardware, EncProofs!Ended,
         EncProofs!vars, EncProofs!lifeVars, EncProofs!callVars, EncProofs!mppVars
<1>6. [Enc!Next]_(Enc!vars) <=> [EncProofs!Next]_(EncProofs!vars)
  BY <1>2, <1>3, <1>4, <1>5 DEF Enc!Next, EncProofs!Next
<1>7. Enc!TypeOK <=> EncProofs!TypeOK
  BY DEF Enc!TypeOK, Enc!Halves, EncProofs!TypeOK, EncProofs!Halves
<1> QED
  BY <1>1, <1>6, <1>7

LEMMA EncoderKept == UNCHANGED encVars => UNCHANGED Enc!vars
  BY DEF encVars, Enc!vars, Enc!lifeVars, Enc!mppVars, Enc!callVars

(* The encoder is destroyed with nobody inside, and with its library.      *)
LEMMA DestroyIsAllowed ==
  ASSUME MainInv, MainDestroys
  PROVE  Enc!OwnerDestroys
<1>1. mainAt = "destroy" /\ encAt = "ready" /\ answer["mpp"] = "ready"
  BY DEF MainDestroys, MainGoes, MainInv, EncoderUse, Working
<1>2. processAt # "encoding"
  BY <1>1, RunningMeansJoining DEF MainInv
<1>3. \A c \in {"process"} : pc[c] = "idle"
  BY <1>2 DEF MainInv, EncoderUse
<1> QED
  BY <1>1, <1>3 DEF MainDestroys, Enc!OwnerDestroys

(* Each step of a session is one that MppJpeg allows.                      *)
LEMMA SessionEncodes == MainInv /\ [Next]_vars => [Enc!Next]_(Enc!vars)
<1> SUFFICES ASSUME MainInv, [Next]_vars PROVE Enc!Next \/ UNCHANGED encVars
  BY EncoderKept
<1>1. CASE MainCreates
  BY <1>1 DEF MainCreates, Enc!Next
<1>2. CASE MainDestroys
  BY <1>2, DestroyIsAllowed DEF Enc!Next
<1>3. CASE MainUsage \/ MainArgs \/ MainOpens \/ MainCameraReady \/ MainLoadsMpp
  BY <1>3 DEF MainUsage, MainArgs, MainOpens, MainCameraReady, MainLoadsMpp
<1>4. CASE MainEncoderReady \/ MainStarts \/ MainFails \/ MainGivesUp \/ MainAborts
  BY <1>4 DEF MainEncoderReady, MainStarts, MainFails, MainGivesUp, MainAborts
<1>5. CASE MainSpawns \/ MainJoinsCapture \/ MainJoinsProcess \/ MainStops
  BY <1>5 DEF MainSpawns, MainJoinsCapture, MainJoinsProcess, MainStops
<1>6. CASE MainCloses \/ MainLeaves \/ MainAsksMpp
  BY <1>6 DEF MainCloses, MainLeaves, MainAsksMpp
<1>7. CASE Capture
  BY <1>7 DEF Capture, CaptureGoes, CaptureTakes, CapturePushes, CaptureEnds
<1>8. CASE ProcessEncodes \/ ProcessInEncoder
  BY <1>8 DEF ProcessEncodes, ProcessInEncoder, Enc!Next
<1>9. CASE ProcessPops \/ ProcessEnds \/ ProcessNv12 \/ ProcessLoadsRga
  BY <1>9 DEF ProcessPops, ProcessEnds, ProcessNv12, ProcessLoadsRga
<1>10. CASE ProcessConverts \/ ProcessReturns
  BY <1>10 DEF ProcessConverts, ProcessReturns
<1>11. CASE Hardware
  BY <1>11 DEF Hardware, Enc!Next
<1>12. CASE Ended \/ UNCHANGED vars
  BY <1>12 DEF Ended, vars
<1> QED
  BY <1>1, <1>2, <1>3, <1>4, <1>5, <1>6, <1>7, <1>8, <1>9, <1>10, <1>11, <1>12
  DEF Next, Main, Process

(* main and the process thread use the encoder as MppJpeg allows, so that  *)
(* what is proved of MppJpeg is true of every session.                     *)
THEOREM EncoderUsedRight == Spec => EncoderContract
<1>1. Init => Enc!Init
  BY DEF Init
<1> QED
  BY <1>1, SessionEncodes, MainInvariant, PTL DEF Spec, EncoderContract, Enc!Spec

LEMMA EncoderLedger == Spec => []EncProofs!Ledger
<1>1. EncProofs!Spec => []EncProofs!Ledger
  BY EncProofs!LedgerCorrect, SessionAssumption
  DEF EncProofs!EncoderAssumption, Enc!EncoderAssumption
<1>2. EncoderContract => EncProofs!Spec
  BY SameEncoder, PTL DEF EncoderContract, Enc!Spec, EncProofs!Spec
<1> QED
  BY <1>1, <1>2, EncoderUsedRight, PTL

(* If encode_get_packet waits for its result, every call of encode in a    *)
(* session returns the JPEG of its own image or nothing: the process       *)
(* thread is the sole caller.                                              *)
THEOREM SessionGetsOwnJpeg ==
  ASSUME GetMayGiveUp = FALSE
  PROVE  Spec => EncProofs!IsJpegEncoder
<1>1. EncProofs!SoleCaller
  BY DEF EncProofs!SoleCaller
<1>2. EncProofs!Spec => EncProofs!IsJpegEncoder
  BY <1>1, EncProofs!SoleCallerGetsOwnJpeg, SessionAssumption
  DEF EncProofs!EncoderAssumption, Enc!EncoderAssumption
<1>3. EncoderContract => EncProofs!Spec
  BY SameEncoder, PTL DEF EncoderContract, Enc!Spec, EncProofs!Spec
<1> QED
  BY <1>2, <1>3, EncoderUsedRight, PTL

--------------------------------------------------------------------------------
(* The program as a whole                                                  *)

(* Every variable of main and of its parts keeps its type.                 *)
THEOREM SessionTypes == Spec => []TypeOK
<1>1. MainInv => /\ slot \in [full : BOOLEAN, closed : BOOLEAN]
                 /\ taken \in Nat /\ handled \in 0 .. taken
                 /\ code \in {-1, 0, 1} /\ streaming \in BOOLEAN
                 /\ mainAt \in Places
                 /\ captureAt \in {"unborn", "loop", "push", "exit"}
                 /\ processAt \in {"unborn", "pop", "frame", "convert", "encode",
                                   "encoding", "exit"}
  BY DEF MainInv, Exits, ThreadLives, One
<1>2. EncProofs!Ledger => Enc!TypeOK
  BY SameEncoder DEF EncProofs!Ledger
<1>3. CamProofs!SetupInv => Cam!TypeOK
  BY SameCamera DEF CamProofs!SetupInv
<1>4. Spec => [](n_frames \in FrameCounts)
  <2>1. Init => n_frames \in FrameCounts
    BY DEF Init
  <2>2. n_frames \in FrameCounts /\ [Next]_vars => (n_frames \in FrameCounts)'
    <3>1. Main => UNCHANGED n_frames
      BY DEF Main, MainGoes, MainUsage, MainArgs, MainOpens, MainCameraReady,
             MainLoadsMpp, MainCreates, MainEncoderReady, MainStarts, MainFails,
             MainGivesUp, MainAborts, MainSpawns, MainJoinsCapture,
             MainJoinsProcess, MainStops, MainCloses, MainLeaves, MainAsksMpp,
             MainDestroys
    <3> QED
      BY <3>1, OnlyMain DEF Next, mainVars
  <2> QED
    BY <2>1, <2>2, PTL DEF Spec
<1>5. Spec => []LoaderTypeOK
  BY SessionIsLoader, LoaderTypeCorrect
<1>6. /\ MainInv /\ Cam!TypeOK /\ Enc!TypeOK /\ LoaderTypeOK
      /\ n_frames \in FrameCounts
      => TypeOK
  BY <1>1 DEF TypeOK, Places
<1> QED
  BY <1>2, <1>3, <1>4, <1>5, <1>6, MainInvariant, EncoderLedger, CameraInvariant, PTL

(* Whichever of its exits main takes, it leaves no mapping, no open        *)
(* device, no running stream and no handle of MPP.                         *)
THEOREM ExitCorrect == Spec => []ExitReleasesAll
<1>1. MainInv /\ EncProofs!Ledger /\ CamProofs!SetupInv => ExitReleasesAll
  <2> SUFFICES ASSUME MainInv, EncProofs!Ledger, CamProofs!SetupInv, mainAt = "done"
               PROVE  mappings = {} /\ ~fd /\ ~streaming /\ held = {}
    BY DEF ExitReleasesAll
  <2>1. ~streaming
    BY DEF MainInv, Exits
  <2>2. camAt \in {"open", "closed"} /\ ~fd
    BY DEF MainInv, CameraUse
  <2>3. mappings = {}
    BY <2>2 DEF CamProofs!SetupInv, CamProofs!Progress, CamProofs!Mapping
  <2>4. encAt \in {"load", "null", "destroyed"}
    BY DEF MainInv, EncoderUse
  <2>5. held = {}
    BY <2>4 DEF EncProofs!Ledger, EncProofs!HeldByStage
  <2> QED
    BY <2>1, <2>2, <2>3, <2>5
<1> QED
  BY <1>1, MainInvariant, EncoderLedger, CameraInvariant, PTL

(* No function pointer is called unless all of its library's are set.      *)
THEOREM CallsCorrect == Spec => []CallsAreBound
<1>1. MainInv /\ EncProofs!Ledger /\ LoaderInv => CallsAreBound
  <2> SUFFICES ASSUME MainInv, EncProofs!Ledger, LoaderInv PROVE CallsAreBound
    OBVIOUS
  <2>1. ASSUME NEW lib \in Libs, answer[lib] = "ready"
        PROVE  api[lib].ready /\ api[lib].table = Symbols[lib]
    BY <2>1 DEF LoaderInv, Known, AtRest, InFirstCall
  <2>2. held \ {"enc"} # {} => answer["mpp"] = "ready"
    BY DEF EncProofs!Ledger, EncProofs!HeldByStage, MainInv, EncoderUse
  <2> QED
    BY <2>1, <2>2, SessionAssumption DEF CallsAreBound
<1>2. Spec => []LoaderInv
  BY SessionIsLoader, LoaderInvariant
<1> QED
  BY <1>1, <1>2, MainInvariant, EncoderLedger, PTL

================================================================================
