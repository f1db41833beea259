------------------------------ MODULE LatencyStats ------------------------------
(***************************************************************************)
(* What src/src/main.cpp measures of each frame, and the table print_stats *)
(* prints: the clock is superposed on the steps of FrameProcessing, and    *)
(* each return of process_frame adds an entry to stats, as the lambda of   *)
(* process_th does.                                                        *)
(*                                                                         *)
(* std::chrono::steady_clock never runs backwards, and is read as whole    *)
(* milliseconds.  Only differences of two readings are used, so that the   *)
(* variables hold the time since a reading and there is no clock.          *)
(***************************************************************************)
EXTENDS FrameProcessing, Sequences

CONSTANTS
  n_frames,   (* how many frames there are                                 *)
  MaxTotal,   (* bound: ms from the capture of a frame to its entry        *)
  Infinity    (* std::numeric_limits<double>::max(), above all durations   *)

ASSUME LatencyAssumption ==
  /\ n_frames \in Nat
  /\ MaxTotal \in Nat
  /\ Infinity \in Nat /\ MaxTotal < Infinity

VARIABLES
  dequeue_ms, (* fb.dequeue_ms                                             *)
  total,      (* ms since fb.captured_at                                   *)
  since,      (* ms since t0, t1 or t_write was taken last                 *)
  timing,     (* ft, a struct FrameTiming                                  *)
  stats       (* the vector of struct FrameStats                           *)

timeVars == <<dequeue_ms, total, since, timing>>
timedVars == <<vars, timeVars, stats>>

NoTiming == [rga_ms |-> 0, encode_ms |-> 0, write_ms |-> 0]

TimedInit ==
  /\ Init
  /\ dequeue_ms = 0
  /\ total = 0
  /\ since = 0
  /\ timing = NoTiming
  /\ stats = <<>>

--------------------------------------------------------------------------------
(* The capture thread took dequeue_ms of the time that has gone by since   *)
(* captured_at; then the frame was copied and waited in the slot.          *)
FrameArrives ==
  /\ Begin
  /\ Len(stats) < n_frames
  /\ total' \in 0 .. MaxTotal
  /\ dequeue_ms' \in 0 .. total'
  /\ since' = 0

(* A mistake to be caught: ft is declared before the loop.                 *)
TimedBeginKeepsTiming ==
  /\ FrameArrives
  /\ UNCHANGED <<timing, stats>>

TimedBegin ==
  /\ FrameArrives
  /\ timing' = NoTiming
  /\ UNCHANGED stats

(* A stage that ends: its time is what was since its mark, and left ms     *)
(* have gone by since the mark of the next stage.                          *)
EndStage(stage, ms, left) ==
  /\ timing' = [timing EXCEPT ![stage] = since + ms]
  /\ since' = left

NoStage(left) ==
  /\ since' = left
  /\ UNCHANGED timing

(* After process_frame has returned, t_end is read and stats gets an entry.*)
Entry ==
  [dequeue_ms |-> dequeue_ms,
   process_ms |-> timing'.rga_ms + timing'.encode_ms + timing'.write_ms,
   total_ms   |-> total',
   rga_ms     |-> timing'.rga_ms,
   encode_ms  |-> timing'.encode_ms,
   write_ms   |-> timing'.write_ms]

(* Each step takes some time before it reads the clock and some after.     *)
(* t1 ends the conversion and begins the encoding; t_write is read when    *)
(* the JPEG is there; an early return records nothing, except in encode.   *)
TimedStep ==
  \E ms, after \in 0 .. MaxTotal - total :
    /\ total + ms + after <= MaxTotal
    /\ total' = total + ms + after
    /\ UNCHANGED dequeue_ms
    /\ \/ /\ \/ NoConversion /\ NoStage(after)
             \/ Convert /\ EndStage("rga_ms", ms, after)
             \/ Encode /\ EndStage("encode_ms", ms, 0)
             \/ OpenFile /\ NoStage(since + ms + after)
          /\ UNCHANGED stats
       \/ Aborts /\ NoStage(0) /\ UNCHANGED stats
       \/ /\ \/ (UnknownFormat \/ ConvertFails \/ OpenFails) /\ NoStage(0)
             \/ EncodeFails /\ EndStage("encode_ms", ms, 0)
             \/ Write /\ EndStage("write_ms", ms, 0)
          /\ stats' = Append(stats, Entry)

TimedNext == TimedBegin \/ TimedStep

TimedSpec == TimedInit /\ [][TimedNext]_timedVars

--------------------------------------------------------------------------------
(* What gather does with one duration.                                     *)
Add(c, d) ==
  [avg |-> c.avg + d,
   min |-> IF d < c.min THEN d ELSE c.min,
   max |-> IF d > c.max THEN d ELSE c.max]

(* The loop of gather: ran[i] is the struct Col after i durations.         *)
AddAll(first, durations) ==
  LET ran[i \in 0 .. Len(durations)] ==
        IF i = 0 THEN first ELSE Add(ran[i - 1], durations[i])
  IN ran[Len(durations)]

Durations(col) == [i \in 1 .. Len(stats) |-> stats[i][col]]

(* A mistake to be caught: the minimum starts at 0, as the maximum does.   *)
GatherFromZero(col) ==
  AddAll([avg |-> 0, min |-> 0, max |-> 0], Durations(col))

NoDurations == [avg |-> 0, min |-> Infinity, max |-> 0]

(* gather in print_stats, before the sum is divided by stats.size().       *)
Gather(col) == AddAll(NoDurations, Durations(col))

(* struct Col, with the average cut to whole milliseconds.                 *)
Col(col) == [Gather(col) EXCEPT !.avg = @ \div Len(stats)]

Columns == {"dequeue_ms", "rga_ms", "encode_ms", "write_ms", "process_ms", "total_ms"}

--------------------------------------------------------------------------------
(* Every variable has its type, here and in FrameProcessing.               *)
TimedTypeOK ==
  /\ TypeOK
  /\ total \in 0 .. MaxTotal
  /\ dequeue_ms \in 0 .. total
  /\ since \in 0 .. total
  /\ timing \in [{"rga_ms", "encode_ms", "write_ms"} -> 0 .. total]
  /\ stats \in Seq([Columns -> 0 .. MaxTotal])

(* The stages of a frame do not overlap and belong to it: the time in      *)
(* dequeue and in the three stages of process_frame is at most the         *)
(* frame's latency, whichever of the stages fails.                         *)
StagesWithinTotal ==
  \A i \in DOMAIN stats :
    stats[i].dequeue_ms + stats[i].process_ms <= stats[i].total_ms

(* What print_stats prints of a column is about these frames: the least    *)
(* and the greatest are durations that occurred and enclose all others     *)
(* and the average.                                                        *)
SummaryOfFrames ==
  stats # <<>> => \A col \in Columns :
    LET c == Col(col)
        durations == {stats[i][col] : i \in DOMAIN stats}
    IN /\ {c.min, c.max} \subseteq durations
       /\ \A d \in durations \cup {c.avg} : c.min <= d /\ d <= c.max
================================================================================
