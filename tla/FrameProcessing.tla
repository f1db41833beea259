---------------------------- MODULE FrameProcessing ----------------------------
(***************************************************************************)
(* process_frame of src/src/main.cpp with v4l2_to_rga_fmt, over            *)
(* rga_cvt_resize of src/src/hw/rga.cpp and rk_rga_cvt_resize of           *)
(* src/hw_shim.c: one frame after another becomes a file, or not.          *)
(*                                                                         *)
(* librga, the encoder (see JpegEncoder) and the file system are seen      *)
(* through their results.                                                  *)
(***************************************************************************)
EXTENDS Integers, FiniteSets

CONSTANTS
  Paths,        (* the files frame_<n>.jpg                                 *)
  Images,       (* what a camera buffer can show                           *)
  Sizes,        (* the numbers of pixels w * h a frame can have            *)
  IntMax,       (* std::numeric_limits<int>::max()                         *)
  Zeros,        (* what a new std::vector<uint8_t> shows                   *)
  Garbage,      (* what RGA reads behind the end of its source             *)
  Absent,       (* no such file                                            *)
  Truncated,    (* a file that does not hold the whole of a JPEG           *)
  RgaStatuses,  (* what rk_rga_cvt_resize can return                       *)
  ShortFrames   (* the camera may deliver less than the format requires    *)

(* IM_STATUS in the vendored im2d_type.h: two successes, six failures that *)
(* are negative, and one that is not.  -1 is also what rk_rga_cvt_resize   *)
(* returns if librga could not be loaded.                                  *)
IM_STATUS_SUCCESS == 1
IM_STATUS_NOERROR == 2
IM_STATUS_FAILED == 0
IM_STATUS == {IM_STATUS_SUCCESS, IM_STATUS_NOERROR, IM_STATUS_FAILED} \cup -6 .. -1

Succeeded(s) == s \in {IM_STATUS_SUCCESS, IM_STATUS_NOERROR}

ASSUME ProcessingAssumption ==
  /\ RgaStatuses \subseteq IM_STATUS
  /\ Sizes \subseteq Nat \ {0}
  /\ IntMax \in Nat
  /\ ShortFrames \in BOOLEAN
  /\ {Zeros, Garbage, Absent, Truncated} \cap Images = {}
  /\ Cardinality({Zeros, Garbage, Absent, Truncated}) = 4

VARIABLES
  v4l2_fmt,   (* the pixel format of the camera                            *)
  pixels,     (* w * h                                                     *)
  at,         (* where process_frame is, "idle" outside                    *)
  frame,      (* out_path, the image in raw, and raw_len                   *)
  status,     (* what rk_rga_cvt_resize returned; a success if not called  *)
  picture,    (* what the buffer handed to the next stage shows            *)
  handed,     (* how many bytes long that buffer is                        *)
  result,     (* what process_frame returned last                          *)
  files       (* what is stored under each path                            *)

vars == <<v4l2_fmt, pixels, at, frame, status, picture, handed, result, files>>

Content == Images \cup {Zeros, Garbage}

(* v4l2_to_rga_fmt: the formats RGA is asked to convert, and NV12.         *)
RgaFormats == {"NV12", "NV16", "BGR24"}

(* The bytes of an image, which is what RGA reads of its source.           *)
BytesOf(fmt) ==
  CASE fmt = "NV12" -> (pixels * 3) \div 2
    [] fmt = "BGR24" -> pixels * 3
    [] fmt \in {"NV16", "YUYV"} -> pixels * 2

(* raw_len is bytesused or, if that is 0, the length of the buffer, which  *)
(* may be more than an image takes.                                        *)
RawLens ==
  {BytesOf(v4l2_fmt), BytesOf(v4l2_fmt) + 1}
    \cup (IF ShortFrames THEN {BytesOf(v4l2_fmt) - 1} ELSE {})

Frame == [path : Paths, raw : Images, raw_len : RawLens]

Complete == frame.raw_len >= BytesOf(v4l2_fmt)

(* A value computed in int.  Overflow is undefined: the build wraps, or it *)
(* has the value in a wider register.                                      *)
AsInt(n) ==
  LET range == 2 * (IntMax + 1)
  IN IF n <= IntMax THEN {n}
     ELSE {n, IF n % range <= IntMax THEN n % range ELSE (n % range) - range}

(* Division in C cuts towards 0.                                           *)
Cut(n, d) == IF n >= 0 THEN n \div d ELSE -((-n) \div d)

(* A mistake to be caught: w * h * 12 / 8, by the bits of a pixel.         *)
Nv12LensByBits == {Cut(n, 8) : n \in AsInt(pixels * 12)}

(* w * h * 3 / 2, the size of nv12 in process_frame, computed in int.      *)
Nv12Lens == {Cut(n, 2) : n \in AsInt(pixels * 3)}

(* The least input of encode and the input buffer in the encoder, computed *)
(* in size_t, which holds three times the product of any two ints.         *)
required_len == (pixels * 3) \div 2

in_size == pixels * 3

Init ==
  /\ v4l2_fmt \in RgaFormats \cup {"YUYV"}
  /\ pixels \in Sizes
  /\ at = "idle"
  /\ frame \in Frame
  /\ status = IM_STATUS_SUCCESS
  /\ picture = Zeros
  /\ handed = 0
  /\ result = FALSE
  /\ files = [p \in Paths |-> Absent]

--------------------------------------------------------------------------------
(* process_frame is called for the next path; nv12 is a new vector.        *)
Begin ==
  /\ at = "idle"
  /\ at' = "convert"
  /\ frame' \in {f \in Frame : files[f.path] = Absent}
  /\ status' = IM_STATUS_SUCCESS
  /\ picture' = Zeros
  /\ handed' = 0
  /\ UNCHANGED <<v4l2_fmt, pixels, result, files>>

Goes(from, to) ==
  /\ at = from
  /\ at' = to
  /\ UNCHANGED <<v4l2_fmt, pixels, frame, result>>

Returns(from, r) ==
  /\ at = from
  /\ at' = "idle"
  /\ result' = r
  /\ UNCHANGED <<v4l2_fmt, pixels, frame>>

UnknownFormat ==
  /\ Returns("convert", FALSE)
  /\ v4l2_fmt \notin RgaFormats
  /\ UNCHANGED <<status, picture, handed, files>>

NoConversion ==
  /\ Goes("convert", "encode")
  /\ v4l2_fmt = "NV12"
  /\ picture' = IF Complete THEN frame.raw ELSE Garbage
  /\ handed' = frame.raw_len
  /\ UNCHANGED <<status, files>>

(* The conversion into nv12.  RGA is told neither how long its source is   *)
(* nor how long its destination.                                           *)
Improcess ==
  /\ v4l2_fmt \in RgaFormats \ {"NV12"}
  /\ handed' \in Nv12Lens \cap Nat
  /\ status' \in RgaStatuses
  /\ picture' = IF ~Succeeded(status') THEN Zeros
                ELSE IF Complete /\ handed' >= required_len THEN frame.raw
                ELSE Garbage
  /\ UNCHANGED files

(* Nothing catches what std::vector throws for a negative length, which is *)
(* a huge size_t; and to write behind a vector that is too short can end   *)
(* the program as well.  (What else such a write may change is left out.)  *)
Aborts ==
  /\ at = "convert" /\ at' = "aborted"
  /\ v4l2_fmt \in RgaFormats \ {"NV12"}
  /\ \E len \in Nv12Lens : len < required_len
  /\ UNCHANGED <<v4l2_fmt, pixels, frame, status, picture, handed, result, files>>

(* A mistake to be caught: the result of the conversion is not looked at.  *)
ConvertUnchecked ==
  /\ Goes("convert", "encode")
  /\ Improcess

(* rga_cvt_resize takes a status of 0 or more for success.                 *)
Convert ==
  /\ Goes("convert", "encode")
  /\ Improcess
  /\ status' >= 0

ConvertFails ==
  /\ Returns("convert", FALSE)
  /\ Improcess
  /\ status' < 0

(* encode refuses a buffer that is too short, and passes the first         *)
(* required_len bytes on, which rk_mpp_jpeg_encode compares with in_size.  *)
Encode ==
  /\ Goes("encode", "open")
  /\ handed >= required_len
  /\ required_len <= in_size
  /\ UNCHANGED <<status, picture, handed, files>>

(* A mistake to be caught: the file is opened before there is a JPEG.      *)
EncodeFailsAfterOpen ==
  /\ Returns("encode", FALSE)
  /\ files' = [files EXCEPT ![frame.path] = Truncated]
  /\ UNCHANGED <<status, picture, handed>>

EncodeFails ==
  /\ Returns("encode", FALSE)
  /\ UNCHANGED <<status, picture, handed, files>>

(* std::ofstream creates the file.                                         *)
OpenFile ==
  /\ Goes("open", "write")
  /\ files' = [files EXCEPT ![frame.path] = Truncated]
  /\ UNCHANGED <<status, picture, handed>>

OpenFails ==
  /\ Returns("open", FALSE)
  /\ UNCHANGED <<status, picture, handed, files>>

(* A mistake to be caught: the last return statement is missing, and the   *)
(* caller reads a value that is no bool.                                   *)
WriteNoReturn ==
  /\ Returns("write", picture)
  /\ files' = [files EXCEPT ![frame.path] = picture]
  /\ UNCHANGED <<status, picture, handed>>

(* ofs.write, whose success is not tested: the disk may be full.           *)
Write ==
  /\ Returns("write", TRUE)
  /\ \E c \in {picture, Truncated} : files' = [files EXCEPT ![frame.path] = c]
  /\ UNCHANGED <<status, picture, handed>>

Next ==
  \/ Begin \/ UnknownFormat \/ NoConversion \/ Convert \/ ConvertFails
  \/ Aborts \/ Encode \/ EncodeFails \/ OpenFile \/ OpenFails \/ Write

Spec == Init /\ [][Next]_vars

--------------------------------------------------------------------------------
(* Every variable has its type.                                            *)
TypeOK ==
  /\ v4l2_fmt \in RgaFormats \cup {"YUYV"}
  /\ at \in {"idle", "convert", "encode", "open", "write", "aborted"}
  /\ frame \in Frame
  /\ status \in RgaStatuses \cup {IM_STATUS_SUCCESS}
  /\ pixels \in Sizes
  /\ picture \in Content
  /\ handed \in Nat
  /\ result \in BOOLEAN
  /\ files \in [Paths -> Content \cup {Absent, Truncated}]

(* frame_<n>.jpg never shows anything but an image of the camera: not the  *)
(* zeros of a conversion that did not happen, nor memory behind a frame.   *)
FilesShowImages ==
  \A p \in Paths : files[p] \in Images \cup {Absent, Truncated}

(* A frame that process_frame gives up leaves no file, whatever stage has  *)
(* failed.                                                                 *)
FailureLeavesNoFile ==
  at = "idle" /\ ~result => files[frame.path] = Absent

(* process_frame is a FrameSaver: what it reports as saved is the image it *)
(* was given, under the path it was given, and a frame it gives up leaves  *)
(* no file, whatever stage has failed.  The exceptions are exactly two: a  *)
(* status of IM_STATUS_FAILED, and a short frame that is converted.  The   *)
(* file that is open while it is written counts when process_frame         *)
(* returns.                                                                *)
Sound == status # IM_STATUS_FAILED /\ (Complete \/ v4l2_fmt = "NV12")

Saver == INSTANCE FrameSaver
           WITH Wrong <- {Zeros, Garbage},
                busy <- at # "idle", path <- frame.path, image <- frame.raw,
                sound <- Sound,
                files <- IF at = "write"
                         THEN [files EXCEPT ![frame.path] = Absent]
                         ELSE files

IsFrameSaver == Saver!Spec

(* A frame is refused by encode for its length, which is computed in       *)
(* size_t, only if it came short from the camera or if the length of nv12, *)
(* computed in int, has overflowed; and only the latter ends the program.  *)
(* Up to the largest size that fits, odd or even, nv12 holds what RGA      *)
(* writes.                                                                 *)
Overflows == pixels * 3 > IntMax

ShortOrHuge ==
  /\ at = "encode" /\ handed < required_len =>
       IF v4l2_fmt = "NV12" THEN ~Complete ELSE Overflows
  /\ at = "aborted" => v4l2_fmt # "NV12" /\ Overflows

(* Of all the failures that librga can return, process_frame takes at most *)
(* IM_STATUS_FAILED for a success.                                         *)
OnlyFailedPasses ==
  at = "idle" /\ result => Succeeded(status) \/ status = IM_STATUS_FAILED

(* process_frame gives up a frame that RGA did not convert.                *)
RgaFailureIsReported ==
  at = "idle" /\ ~Succeeded(status) => ~result
================================================================================
