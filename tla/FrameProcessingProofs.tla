------------------------- MODULE FrameProcessingProofs -------------------------
(***************************************************************************)
(* FrameProcessing for any paths, images, sizes, width of int and statuses *)
(* of librga, with frames that may be short: what process_frame saves, and *)
(* exactly when it is not the image that the camera took.                  *)
(***************************************************************************)
EXTENDS FrameProcessing, TLAPS

(* The steps leave the format and the size alone.                          *)
LEMMA Fixed == [Next]_vars => UNCHANGED <<v4l2_fmt, pixels>>
  BY DEF Next, vars, Begin, UnknownFormat, NoConversion, Convert, ConvertFails,
     Aborts, Encode, EncodeFails, OpenFile, OpenFails, Write, Goes, Returns

(* The sizes, of an odd number of pixels too.                              *)
LEMMA Lengths ==
  ASSUME TypeOK
  PROVE  /\ pixels \in Nat /\ pixels >= 1
         /\ BytesOf(v4l2_fmt) \in Nat /\ BytesOf(v4l2_fmt) >= 1
         /\ required_len \in Nat /\ in_size \in Nat
         /\ required_len <= in_size
         /\ v4l2_fmt = "NV12" => BytesOf(v4l2_fmt) = required_len
<1>1. pixels \in Nat /\ pixels >= 1
  BY ProcessingAssumption DEF TypeOK
<1>2. v4l2_fmt \in {"NV12", "NV16", "BGR24", "YUYV"}
  BY DEF TypeOK, RgaFormats
<1>3. /\ (pixels * 3) \div 2 \in Nat /\ (pixels * 3) \div 2 >= 1
      /\ (pixels * 3) \div 2 <= pixels * 3
  BY <1>1
<1>4. /\ pixels * 3 \in Nat /\ pixels * 3 >= 1
      /\ pixels * 2 \in Nat /\ pixels * 2 >= 1
  BY <1>1
<1>5. BytesOf(v4l2_fmt) = IF v4l2_fmt = "NV12" THEN (pixels * 3) \div 2
                          ELSE IF v4l2_fmt = "BGR24" THEN pixels * 3
                          ELSE pixels * 2
  BY <1>2 DEF BytesOf
<1> QED
  BY <1>1, <1>3, <1>4, <1>5 DEF required_len, in_size

(* Without an overflow nv12 has the size that RGA writes and encode needs. *)
LEMMA SmallLength ==
  ASSUME TypeOK, ~Overflows
  PROVE  Nv12Lens = {required_len}
<1>1. pixels * 3 \in Nat /\ IntMax \in Nat
  BY Lengths, ProcessingAssumption
<1>2. pixels * 3 <= IntMax
  BY <1>1 DEF Overflows
<1>3. AsInt(pixels * 3) = {pixels * 3}
  BY <1>2 DEF AsInt
<1>4. Cut(pixels * 3, 2) = (pixels * 3) \div 2
  BY <1>1 DEF Cut
<1> QED
  BY <1>3, <1>4 DEF Nv12Lens, required_len

LEMMA FrameLengths ==
  ASSUME TypeOK
  PROVE  /\ frame.path \in Paths /\ frame.raw \in Images
         /\ frame.raw_len \in RawLens
         /\ RawLens \subseteq Nat
         /\ ~ShortFrames => Complete
<1>1. frame.path \in Paths /\ frame.raw \in Images /\ frame.raw_len \in RawLens
  BY DEF TypeOK, Frame
<1>2. RawLens \subseteq Nat
  BY Lengths DEF RawLens
<1>3. ~ShortFrames => Complete
  BY <1>1, Lengths DEF RawLens, Complete
<1> QED
  BY <1>1, <1>2, <1>3

LEMMA InitTypes == Init => TypeOK
<1> SUFFICES ASSUME Init PROVE TypeOK
  OBVIOUS
<1>1. picture \in Content /\ handed \in Nat
  BY DEF Init, Content
<1> QED
  BY <1>1 DEF Init, TypeOK

LEMMA TypeStep == TypeOK /\ [Next]_vars => TypeOK'
<1> SUFFICES ASSUME TypeOK, [Next]_vars PROVE TypeOK'
  OBVIOUS
<1>0. UNCHANGED <<v4l2_fmt, pixels>>
  BY Fixed
<1>1. Frame' = Frame
  BY <1>0 DEF Frame, RawLens, BytesOf
<1>2. frame.path \in Paths /\ frame.raw \in Images /\ frame.raw_len \in Nat
  BY FrameLengths
<1>3. CASE Begin
  <2>1. frame' \in Frame
    BY <1>3 DEF Begin
  <2> QED
    BY <1>1, <1>3, <2>1 DEF Begin, TypeOK, Content
<1>4. CASE UnknownFormat \/ EncodeFails \/ OpenFails
  BY <1>1, <1>4 DEF UnknownFormat, EncodeFails, OpenFails, Returns, TypeOK
<1>5. CASE NoConversion \/ Encode
  BY <1>1, <1>2, <1>5 DEF NoConversion, Encode, Goes, TypeOK, Content
<1>6. CASE Convert \/ ConvertFails
  <2>1. picture' \in Content
    BY <1>2, <1>6 DEF Convert, ConvertFails, Improcess, Content
  <2>2. handed' \in Nat
    BY <1>6 DEF Convert, ConvertFails, Improcess
  <2> QED
    BY <1>1, <1>6, <2>1, <2>2
    DEF Convert, ConvertFails, Improcess, Goes, Returns, TypeOK
<1>7. CASE OpenFile
  BY <1>1, <1>2, <1>7 DEF OpenFile, Goes, TypeOK
<1>8. CASE Write
  BY <1>1, <1>2, <1>8 DEF Write, Returns, TypeOK
<1>9. CASE Aborts
  BY <1>1, <1>9 DEF Aborts, TypeOK
<1>10. CASE UNCHANGED vars
  BY <1>1, <1>10 DEF vars, TypeOK
<1> QED
  BY <1>3, <1>4, <1>5, <1>6, <1>7, <1>8, <1>9, <1>10 DEF Next

(* Every variable of process_frame keeps its type.                         *)
THEOREM ProcessingTypes == Spec => []TypeOK
  BY InitTypes, TypeStep, PTL DEF Spec

--------------------------------------------------------------------------------
(* A path has no file until process_frame has come to the write; a frame   *)
(* that is given up has not got there.                                     *)
NoFileYet ==
  at \in {"convert", "encode", "open"} \/ (at = "idle" /\ ~result) =>
    files[frame.path] = Absent

LEMMA NoFileInit == Init => NoFileYet
<1>1. Init => frame.path \in Paths
  BY InitTypes, FrameLengths
<1> QED
  BY <1>1 DEF Init, NoFileYet

LEMMA NoFileStep == TypeOK /\ NoFileYet /\ [Next]_vars => NoFileYet'
  BY DEF TypeOK, NoFileYet, Next, vars, Begin, UnknownFormat, NoConversion, Convert,
     ConvertFails, Improcess, Aborts, Encode, EncodeFails, OpenFile, OpenFails, Write,
     Goes, Returns

(* A frame that process_frame gives up leaves no file, whatever stage has  *)
(* failed.                                                                 *)
THEOREM FailureClean == Spec => []FailureLeavesNoFile
<1>1. NoFileYet => FailureLeavesNoFile
  BY DEF NoFileYet, FailureLeavesNoFile
<1> QED
  BY <1>1, ProcessingTypes, NoFileInit, NoFileStep, PTL DEF Spec

--------------------------------------------------------------------------------
(* How long the buffer is that encode is given, and when it was not made.  *)
HandedLength ==
  /\ at = "encode" =>
       IF v4l2_fmt = "NV12" THEN handed = frame.raw_len ELSE handed \in Nv12Lens
  /\ at = "aborted" =>
       v4l2_fmt # "NV12" /\ \E len \in Nv12Lens : len < required_len

LEMMA HandedStep == TypeOK /\ HandedLength /\ [Next]_vars => HandedLength'
<1> SUFFICES ASSUME TypeOK, HandedLength, [Next]_vars PROVE HandedLength'
  OBVIOUS
<1>1. UNCHANGED <<v4l2_fmt, pixels>>
  BY Fixed
<1>2. Nv12Lens' = Nv12Lens /\ required_len' = required_len
  BY <1>1 DEF Nv12Lens, required_len
<1> QED
  BY <1>1, <1>2
  DEF HandedLength, Next, vars, Begin, UnknownFormat, NoConversion, Convert,
      ConvertFails, Improcess, Aborts, Encode, EncodeFails, OpenFile, OpenFails,
      Write, Goes, Returns

(* Whatever the size of a frame and the width of int: encode refuses only  *)
(* a frame that came short, or one whose size overflows at main.cpp:356,   *)
(* and only the latter ends the program.                                   *)
THEOREM LengthsCorrect == Spec => []ShortOrHuge
<1>1. Init => HandedLength
  BY DEF Init, HandedLength
<1>2. TypeOK /\ HandedLength => ShortOrHuge
  <2> SUFFICES ASSUME TypeOK, HandedLength PROVE ShortOrHuge
    OBVIOUS
  <2>1. ASSUME NEW len \in Nv12Lens, len < required_len PROVE Overflows
    <3>1. SUFFICES ASSUME ~Overflows PROVE FALSE
      OBVIOUS
    <3>2. len = required_len /\ required_len \in Nat
      BY <2>1, <3>1, SmallLength, Lengths
    <3> QED
      BY <2>1, <3>2
  <2>2. at = "encode" /\ v4l2_fmt = "NV12" /\ handed < required_len => ~Complete
    BY Lengths, FrameLengths DEF HandedLength, Complete
  <2> QED
    BY <2>1, <2>2 DEF HandedLength, ShortOrHuge
<1> QED
  BY <1>1, <1>2, HandedStep, ProcessingTypes, PTL DEF Spec

--------------------------------------------------------------------------------
(* What the status can be, before and after the conversion.                *)
Passed(s) == Succeeded(s) \/ s = IM_STATUS_FAILED

StatusPassed ==
  /\ at = "convert" => status = IM_STATUS_SUCCESS
  /\ at \in {"encode", "open", "write"} => Passed(status)
  /\ at = "idle" /\ result => Passed(status)

LEMMA NotNegative ==
  ASSUME NEW s \in RgaStatuses, s >= 0
  PROVE  Passed(s)
<1>1. s \in {IM_STATUS_SUCCESS, IM_STATUS_NOERROR, IM_STATUS_FAILED} \/ s \in -6 .. -1
  BY ProcessingAssumption DEF IM_STATUS
<1> QED
  BY <1>1 DEF Passed, Succeeded

LEMMA StatusInit == Init => StatusPassed
  BY DEF Init, StatusPassed

LEMMA StatusStep == TypeOK /\ StatusPassed /\ [Next]_vars => StatusPassed'
<1> SUFFICES ASSUME TypeOK, StatusPassed, [Next]_vars PROVE StatusPassed'
  OBVIOUS
<1>1. CASE Begin
  BY <1>1 DEF Begin, StatusPassed
<1>2. CASE UnknownFormat \/ NoConversion \/ Aborts
  BY <1>2 DEF UnknownFormat, NoConversion, Aborts, Goes, Returns, StatusPassed,
     Passed, Succeeded
<1>3. CASE Convert
  <2>1. Passed(status')
    BY <1>3, NotNegative DEF Convert, Improcess
  <2> QED
    BY <1>3, <2>1 DEF Convert, Goes, StatusPassed
<1>4. CASE ConvertFails
  BY <1>4 DEF ConvertFails, Returns, StatusPassed
<1>5. CASE Encode \/ EncodeFails \/ OpenFile \/ OpenFails \/ Write
  BY <1>5
  DEF Encode, EncodeFails, OpenFile, OpenFails, Write, Goes, Returns, StatusPassed
<1>6. CASE UNCHANGED vars
  BY <1>6 DEF vars, StatusPassed
<1> QED
  BY <1>1, <1>2, <1>3, <1>4, <1>5, <1>6 DEF Next

(* Of all that im2d_type.h says librga can return, at most one failure is  *)
(* taken for a success: IM_STATUS_FAILED, which is 0.                      *)
THEOREM FailureReported == Spec => []OnlyFailedPasses
<1>1. StatusPassed => OnlyFailedPasses
  BY DEF StatusPassed, Passed, OnlyFailedPasses
<1> QED
  BY <1>1, ProcessingTypes, StatusInit, StatusStep, PTL DEF Spec

--------------------------------------------------------------------------------
(* What a buffer or a file can show in place of the image in raw.          *)
Instead ==
  IF v4l2_fmt = "NV12" THEN {}
  ELSE (IF status = IM_STATUS_FAILED THEN {Zeros} ELSE {})
         \cup (IF Complete THEN {} ELSE {Garbage})

(* What the encoder is given is the camera's image, or there is a reason.  *)
(* The encoder refuses the buffers that are too short.                     *)
PictureExplained ==
  /\ at = "encode" /\ handed >= required_len => picture \in {frame.raw} \cup Instead
  /\ at \in {"open", "write"} => picture \in {frame.raw} \cup Instead

LEMMA PictureInit == Init => PictureExplained
  BY DEF Init, PictureExplained

LEMMA PictureStep ==
  TypeOK /\ PictureExplained /\ StatusPassed /\ [Next]_vars => PictureExplained'
<1> SUFFICES ASSUME TypeOK, PictureExplained, StatusPassed, [Next]_vars
             PROVE  PictureExplained'
  OBVIOUS
<1>1. CASE Begin \/ UnknownFormat \/ ConvertFails \/ Aborts
  BY <1>1 DEF Begin, UnknownFormat, ConvertFails, Aborts, Returns, PictureExplained
<1>2. CASE NoConversion
  <2>1. /\ at' = "encode" /\ UNCHANGED <<v4l2_fmt, pixels, frame>> /\ v4l2_fmt = "NV12"
        /\ picture' = IF Complete THEN frame.raw ELSE Garbage
        /\ handed' = frame.raw_len
    BY <1>2 DEF NoConversion, Goes
  <2>2. required_len' = required_len
    BY <2>1 DEF required_len
  <2>3. handed' >= required_len => Complete
    BY <2>1, Lengths DEF Complete
  <2> QED
    BY <2>1, <2>2, <2>3 DEF PictureExplained
<1>3. CASE Convert
  <2>1. /\ at' = "encode" /\ UNCHANGED <<v4l2_fmt, pixels, frame>> /\ v4l2_fmt # "NV12"
        /\ status' \in RgaStatuses /\ status' >= 0
        /\ picture' = IF ~Succeeded(status') THEN Zeros
                      ELSE IF Complete /\ handed' >= required_len THEN frame.raw
                      ELSE Garbage
    BY <1>3 DEF Convert, Improcess, Goes, RgaFormats
  <2>2. required_len' = required_len /\ Complete' = Complete
    BY <2>1 DEF required_len, Complete, BytesOf
  <2>3. Succeeded(status') \/ status' = IM_STATUS_FAILED
    BY <2>1, NotNegative DEF Passed
  <2> QED
    BY <2>1, <2>2, <2>3 DEF PictureExplained, Instead
<1>4. CASE Encode \/ EncodeFails \/ OpenFile \/ OpenFails \/ Write \/ UNCHANGED vars
  <2>1. UNCHANGED <<v4l2_fmt, pixels, frame, status, picture, handed>>
    BY <1>4
    DEF Encode, EncodeFails, OpenFile, OpenFails, Write, Goes, Returns, vars
  <2>2. required_len' = required_len /\ Instead' = Instead
    BY <2>1 DEF required_len, Instead, Complete, BytesOf
  <2> QED
    BY <1>4, <2>1, <2>2
    DEF Encode, EncodeFails, OpenFile, OpenFails, Write, Goes, Returns, vars,
        PictureExplained
<1> QED
  BY <1>1, <1>2, <1>3, <1>4 DEF Next

(* frame_<n>.jpg shows an image of the camera, if anything.  The only ways *)
(* around it take a conversion, and one of the two known causes.           *)
FilesExplained ==
  \A p \in Paths :
    \/ files[p] \in Images \cup {Absent, Truncated}
    \/ v4l2_fmt # "NV12" /\ files[p] = Zeros /\ IM_STATUS_FAILED \in RgaStatuses
    \/ v4l2_fmt # "NV12" /\ files[p] = Garbage /\ ShortFrames

LEMMA FilesInit == Init => FilesExplained
  BY DEF Init, FilesExplained

LEMMA FilesStep ==
  TypeOK /\ PictureExplained /\ FilesExplained /\ [Next]_vars => FilesExplained'
<1> SUFFICES ASSUME TypeOK, PictureExplained, FilesExplained, [Next]_vars,
                    NEW p \in Paths
             PROVE  (\/ files[p] \in Images \cup {Absent, Truncated}
                     \/ v4l2_fmt # "NV12" /\ files[p] = Zeros
                          /\ IM_STATUS_FAILED \in RgaStatuses
                     \/ v4l2_fmt # "NV12" /\ files[p] = Garbage /\ ShortFrames)'
  BY DEF FilesExplained
<1>1. UNCHANGED v4l2_fmt
  BY Fixed
<1>2. files'[p] = files[p] \/ files'[p] = Truncated
      \/ (at = "write" /\ files'[p] = picture)
  BY DEF TypeOK, Next, vars, Begin, UnknownFormat, NoConversion, Convert,
     ConvertFails, Improcess, Aborts, Encode, EncodeFails, OpenFile, OpenFails,
     Write, Goes, Returns
<1>3. CASE at = "write" /\ files'[p] = picture
  <2>1. picture \in {frame.raw} \cup Instead
    BY <1>3 DEF PictureExplained
  <2>2. frame.raw \in Images /\ (~ShortFrames => Complete)
    BY FrameLengths
  <2>3. status = IM_STATUS_FAILED => IM_STATUS_FAILED \in RgaStatuses
    BY DEF TypeOK, IM_STATUS_FAILED, IM_STATUS_SUCCESS
  <2> QED
    BY <1>1, <1>3, <2>1, <2>2, <2>3 DEF Instead
<1> QED
  BY <1>1, <1>2, <1>3 DEF FilesExplained

(* What process_frame saves, for any frames and any statuses of librga.    *)
LEMMA SavesInvariant ==
  Spec => [](TypeOK /\ NoFileYet /\ StatusPassed /\ PictureExplained /\ FilesExplained)
  BY InitTypes, TypeStep, NoFileInit, NoFileStep, StatusInit, StatusStep,
     PictureInit, PictureStep, FilesInit, FilesStep, PTL DEF Spec

(* A file shows anything but an image of the camera only after a           *)
(* conversion: zeros, if librga can return IM_STATUS_FAILED, or memory     *)
(* behind a frame, if frames can be short.                                 *)
THEOREM FilesAreImages == Spec => []FilesExplained
  BY SavesInvariant, PTL

(* So with a camera that takes NV12 every file shows an image of it.       *)
THEOREM Nv12FilesAreImages == Spec => [](v4l2_fmt = "NV12" => FilesShowImages)
<1>1. FilesExplained => (v4l2_fmt = "NV12" => FilesShowImages)
  BY DEF FilesExplained, FilesShowImages
<1> QED
  BY <1>1, FilesAreImages, PTL

--------------------------------------------------------------------------------
(* process_frame implements the FrameSaver                                 *)

LEMMA SaverInit == Init => Saver!Init
<1> SUFFICES ASSUME Init PROVE Saver!Init
  OBVIOUS
<1>1. frame.path \in Paths /\ frame.raw \in Images
  BY InitTypes, FrameLengths
<1>2. Sound \in BOOLEAN
  BY DEF Sound, Complete
<1> QED
  BY <1>1, <1>2 DEF Init, Saver!Init

LEMMA SaverStep ==
  TypeOK /\ NoFileYet /\ StatusPassed /\ PictureExplained /\ [Next]_vars
    => [Saver!Next]_(Saver!vars)
<1> SUFFICES ASSUME TypeOK, NoFileYet, StatusPassed, PictureExplained, [Next]_vars
             PROVE  Saver!Next \/ UNCHANGED Saver!vars
  OBVIOUS
<1>0. UNCHANGED <<v4l2_fmt, pixels>> /\ Sound \in BOOLEAN /\ Sound' \in BOOLEAN
  BY Fixed DEF Sound, Complete
<1>1. CASE Begin
  <2>1. /\ at = "idle" /\ at' = "convert" /\ UNCHANGED <<result, files>>
        /\ frame' \in Frame /\ files[frame'.path] = Absent
    BY <1>1 DEF Begin
  <2>2. frame'.path \in Paths /\ frame'.raw \in Images
    BY <2>1 DEF Frame
  <2>3. Saver!Call
    BY <1>0, <2>1, <2>2 DEF Saver!Call
  <2> QED
    BY <2>3 DEF Saver!Next
<1>2. CASE UnknownFormat \/ ConvertFails \/ EncodeFails \/ OpenFails
  <2>1. /\ at \in {"convert", "encode", "open"} /\ at' = "idle" /\ result' = FALSE
        /\ UNCHANGED <<frame, files>>
    BY <1>2 DEF UnknownFormat, ConvertFails, EncodeFails, OpenFails, Improcess, Returns
  <2>2. status' = IM_STATUS_FAILED <=> status = IM_STATUS_FAILED
    <3>1. CASE UnknownFormat \/ EncodeFails \/ OpenFails
      BY <3>1 DEF UnknownFormat, EncodeFails, OpenFails
    <3>2. CASE ConvertFails
      BY <3>2 DEF ConvertFails, Returns, StatusPassed, IM_STATUS_FAILED, IM_STATUS_SUCCESS
    <3> QED
      BY <1>2, <3>1, <3>2
  <2>3. Sound' = Sound
    BY <1>0, <2>1, <2>2 DEF Sound, Complete, BytesOf
  <2>4. Saver!GiveUp
    BY <2>1, <2>3 DEF Saver!GiveUp, Saver!Return
  <2> QED
    BY <2>4 DEF Saver!Next
<1>3. CASE NoConversion \/ Convert \/ Aborts \/ Encode
  <2>1. /\ at \in {"convert", "encode"} /\ at' \in {"encode", "open", "aborted"}
        /\ UNCHANGED <<frame, result, files>>
    BY <1>3 DEF NoConversion, Convert, Aborts, Encode, Improcess, Goes
  <2>2. Sound \/ Sound' = Sound
    <3>1. CASE NoConversion \/ Aborts \/ Encode
      <4>1. UNCHANGED status
        BY <3>1 DEF NoConversion, Aborts, Encode
      <4> QED
        BY <1>0, <2>1, <4>1 DEF Sound, Complete, BytesOf
    <3>2. CASE Convert
      <4>1. status = IM_STATUS_SUCCESS
        BY <3>2 DEF Convert, Goes, StatusPassed
      <4>2. Complete' = Complete
        BY <1>0, <2>1 DEF Complete, BytesOf
      <4>3. ~Sound => ~Sound'
        BY <1>0, <4>1, <4>2 DEF Sound, IM_STATUS_FAILED, IM_STATUS_SUCCESS
      <4> QED
        BY <1>0, <4>3
    <3> QED
      BY <1>3, <3>1, <3>2
  <2>3. CASE Sound' = Sound
    BY <2>1, <2>3 DEF Saver!vars
  <2>4. CASE Sound /\ Sound' = FALSE
    <3>1. Saver!Spoil
      BY <2>1, <2>4 DEF Saver!Spoil
    <3> QED
      BY <3>1 DEF Saver!Next
  <2> QED
    BY <1>0, <2>2, <2>3, <2>4
<1>4. CASE OpenFile
  <2>1. /\ at = "open" /\ at' = "write" /\ UNCHANGED <<frame, status, result>>
        /\ files' = [files EXCEPT ![frame.path] = Truncated]
    BY <1>4 DEF OpenFile, Goes
  <2>2. files[frame.path] = Absent
    BY <2>1 DEF NoFileYet
  <2>3. files \in [Paths -> Content \cup {Absent, Truncated}]
    BY DEF TypeOK
  <2>4. [files' EXCEPT ![frame.path] = Absent] = files
    BY <2>1, <2>2, <2>3
  <2>5. Sound' = Sound
    BY <1>0, <2>1 DEF Sound, Complete, BytesOf
  <2> QED
    BY <2>1, <2>4, <2>5 DEF Saver!vars
<1>5. CASE Write
  <2>1. /\ at = "write" /\ at' = "idle" /\ result' = TRUE /\ UNCHANGED <<frame, status>>
    BY <1>5 DEF Write, Returns
  <2>2. PICK c \in {picture, Truncated} : files' = [files EXCEPT ![frame.path] = c]
    BY <1>5 DEF Write
  <2>3. c \in {frame.raw, Truncated} \cup (IF Sound THEN {} ELSE {Zeros, Garbage})
    BY <2>1 DEF PictureExplained, Instead, Sound
  <2>4. files \in [Paths -> Content \cup {Absent, Truncated}]
    BY DEF TypeOK
  <2>5. files' = [[files EXCEPT ![frame.path] = Absent] EXCEPT ![frame.path] = c]
    BY <2>2, <2>4
  <2>6. Sound' = Sound
    BY <1>0, <2>1 DEF Sound, Complete, BytesOf
  <2>7. Saver!Save
    BY <2>1, <2>3, <2>5, <2>6 DEF Saver!Save, Saver!Return
  <2> QED
    BY <2>7 DEF Saver!Next
<1>6. CASE UNCHANGED vars
  BY <1>6 DEF vars, Saver!vars, Sound, Complete, BytesOf
<1> QED
  BY <1>1, <1>2, <1>3, <1>4, <1>5, <1>6 DEF Next

(* process_frame is a FrameSaver whatever its frames are and librga        *)
(* returns: what it has saved is its own image under its own path, unless  *)
(* the frame came short and was converted or the status was                *)
(* IM_STATUS_FAILED, and a frame that it gives up leaves no file.          *)
THEOREM ProcessFrameSaves == Spec => IsFrameSaver
  BY SavesInvariant, SaverInit, SaverStep, PTL DEF Spec, IsFrameSaver, Saver!Spec
================================================================================
