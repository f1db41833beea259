--------------------------- MODULE LatencyStatsProofs --------------------------
(***************************************************************************)
(* LatencyStats for any number of frames and any durations: what is        *)
(* measured of a frame, and what print_stats makes of the entries.  The    *)
(* latter is a loop, and so a proof by induction over its rounds.          *)
(***************************************************************************)
EXTENDS LatencyStats, FrameProcessingProofs, SequenceTheorems, WellFoundedInduction

(* The clock is superposed: with the times left out a step is one of       *)
(* process_frame.                                                          *)
LEMMA TimedStepIsStep == [TimedNext]_timedVars => [Next]_vars
  BY DEF TimedNext, timedVars, TimedBegin, FrameArrives, TimedStep, Next

(* So all that FrameProcessingProofs shows is true with the clock.         *)
THEOREM TimedIsProcessing == TimedSpec => Spec
<1>1. TimedInit => Init
  BY DEF TimedInit
<1> QED
  BY <1>1, TimedStepIsStep, PTL DEF TimedSpec, Spec

(* In particular process_frame is a FrameSaver,                            *)
THEOREM TimedProcessFrameSaves == TimedSpec => IsFrameSaver
  BY TimedIsProcessing, ProcessFrameSaves, PTL

(* encode refuses a frame for its length only if it is short or overflows, *)
THEOREM TimedLengthsCorrect == TimedSpec => []ShortOrHuge
  BY TimedIsProcessing, LengthsCorrect, PTL

(* And whatever fails before the file is opened, there is no file.         *)
THEOREM TimedFailureClean == TimedSpec => []FailureLeavesNoFile
  BY TimedIsProcessing, FailureClean, PTL

--------------------------------------------------------------------------------
Stages == {"rga_ms", "encode_ms", "write_ms"}

(* The time that is accounted for never exceeds the time there was.        *)
Accounted ==
  /\ total \in 0 .. MaxTotal /\ dequeue_ms \in Nat /\ since \in Nat
  /\ timing \in [Stages -> Nat]
  /\ dequeue_ms + timing["rga_ms"] + timing["encode_ms"] + timing["write_ms"] + since
       <= total

LEMMA NoTimingFacts ==
  /\ NoTiming \in [Stages -> Nat]
  /\ NoTiming["rga_ms"] = 0 /\ NoTiming["encode_ms"] = 0 /\ NoTiming["write_ms"] = 0
  BY DEF NoTiming, Stages

(* A frame of which nothing has been timed.                                *)
LEMMA FreshFrame ==
  ASSUME NEW t \in Nat, NEW d \in 0 .. t
  PROVE  /\ d \in Nat
         /\ d + NoTiming["rga_ms"] + NoTiming["encode_ms"] + NoTiming["write_ms"] + 0
              <= t
  BY NoTimingFacts

LEMMA AccountedInit == TimedInit => Accounted
<1> SUFFICES ASSUME TimedInit PROVE Accounted
  OBVIOUS
<1>1. total = 0 /\ dequeue_ms = 0 /\ since = 0 /\ timing = NoTiming /\ 0 \in 0 .. 0
  BY DEF TimedInit
<1>2. total \in 0 .. MaxTotal /\ total \in Nat
  BY <1>1, LatencyAssumption
<1> QED
  BY <1>1, <1>2, FreshFrame, NoTimingFacts DEF Accounted

(* What a step does to the times.                                          *)
LEMMA TimeMoves ==
  ASSUME Accounted, TimedStep
  PROVE  \E ms, after \in Nat :
           /\ total' = total + ms + after /\ total' \in 0 .. MaxTotal
           /\ dequeue_ms' = dequeue_ms
           /\ \/ timing' = timing /\ since' \in {0, after, since + ms + after}
              \/ \E stage \in Stages :
                   /\ timing' = [timing EXCEPT ![stage] = since + ms]
                   /\ since' \in {0, after}
<1>1. total \in Nat /\ MaxTotal \in Nat
  BY LatencyAssumption DEF Accounted
<1>2. 0 .. MaxTotal - total \subseteq Nat
  BY <1>1
<1>3. \A ms, after \in Nat :
        total + ms + after <= MaxTotal => total + ms + after \in 0 .. MaxTotal
  BY <1>1
<1> QED
  BY <1>2, <1>3 DEF TimedStep, NoStage, EndStage, Stages

LEMMA AccountedStep == Accounted /\ [TimedNext]_timedVars => Accounted'
<1> SUFFICES ASSUME Accounted, [TimedNext]_timedVars PROVE Accounted'
  OBVIOUS
<1>1. CASE TimedBegin
  <2>1. total' \in 0 .. MaxTotal /\ dequeue_ms' \in 0 .. total' /\ since' = 0
    BY <1>1 DEF TimedBegin, FrameArrives
  <2>2. timing' = NoTiming
    BY <1>1 DEF TimedBegin
  <2>3. total' \in Nat
    BY <2>1, LatencyAssumption
  <2> QED
    BY <2>1, <2>2, <2>3, FreshFrame, NoTimingFacts DEF Accounted
<1>2. CASE TimedStep
  <2>1. PICK ms \in Nat, after \in Nat :
           /\ total' = total + ms + after /\ total' \in 0 .. MaxTotal
           /\ dequeue_ms' = dequeue_ms
           /\ \/ timing' = timing /\ since' \in {0, after, since + ms + after}
              \/ \E stage \in Stages :
                   /\ timing' = [timing EXCEPT ![stage] = since + ms]
                   /\ since' \in {0, after}
    BY <1>2, TimeMoves
  <2>2. /\ total \in Nat /\ dequeue_ms \in Nat /\ since \in Nat
        /\ timing["rga_ms"] \in Nat /\ timing["encode_ms"] \in Nat
        /\ timing["write_ms"] \in Nat
    BY LatencyAssumption DEF Accounted, Stages
  <2>3. CASE timing' = timing /\ since' \in {0, after, since + ms + after}
    BY <2>1, <2>2, <2>3 DEF Accounted
  <2>4. ASSUME NEW stage \in Stages,
               timing' = [timing EXCEPT ![stage] = since + ms],
               since' \in {0, after}
        PROVE  Accounted'
    <3>1. timing' \in [Stages -> Nat]
      BY <2>2, <2>4 DEF Accounted
    <3>2. /\ timing'["rga_ms"] = IF stage = "rga_ms" THEN since + ms ELSE timing["rga_ms"]
          /\ timing'["encode_ms"] = IF stage = "encode_ms" THEN since + ms
                                    ELSE timing["encode_ms"]
          /\ timing'["write_ms"] = IF stage = "write_ms" THEN since + ms
                                   ELSE timing["write_ms"]
      BY <2>4 DEF Accounted, Stages
    <3>3. stage = "rga_ms" \/ stage = "encode_ms" \/ stage = "write_ms"
      BY <2>4 DEF Stages
    <3> QED
      BY <2>1, <2>2, <2>4, <3>1, <3>2, <3>3 DEF Accounted
  <2> QED
    BY <2>1, <2>3, <2>4
<1>3. CASE UNCHANGED timedVars
  BY <1>3 DEF timedVars, timeVars, Accounted
<1> QED
  BY <1>1, <1>2, <1>3 DEF TimedNext

--------------------------------------------------------------------------------
(* The entry of a frame, when it is made.                                  *)
LEMMA EntryFacts ==
  ASSUME Accounted, Accounted', dequeue_ms' = dequeue_ms
  PROVE  /\ Entry \in [Columns -> 0 .. MaxTotal]
         /\ Entry.dequeue_ms + Entry.process_ms <= Entry.total_ms
<1>1. /\ timing'["rga_ms"] \in Nat /\ timing'["encode_ms"] \in Nat
      /\ timing'["write_ms"] \in Nat /\ total' \in Nat /\ dequeue_ms \in Nat
      /\ since' \in Nat
      /\ dequeue_ms + timing'["rga_ms"] + timing'["encode_ms"] + timing'["write_ms"]
           <= total'
  BY LatencyAssumption DEF Accounted, Stages
<1>2. /\ Entry.dequeue_ms = dequeue_ms
      /\ Entry.process_ms = timing'.rga_ms + timing'.encode_ms + timing'.write_ms
      /\ Entry.total_ms = total'
  BY DEF Entry
<1>3. Entry.dequeue_ms + Entry.process_ms <= Entry.total_ms
  BY <1>1, <1>2
<1>4. /\ total' \in 0 .. MaxTotal /\ dequeue_ms \in 0 .. MaxTotal
      /\ timing'["rga_ms"] \in 0 .. MaxTotal /\ timing'["encode_ms"] \in 0 .. MaxTotal
      /\ timing'["write_ms"] \in 0 .. MaxTotal
      /\ timing'.rga_ms + timing'.encode_ms + timing'.write_ms \in 0 .. MaxTotal
  BY <1>1, LatencyAssumption DEF Accounted
<1>5. Entry \in [Columns -> 0 .. MaxTotal]
  BY <1>1, <1>4 DEF Entry, Columns
<1> QED
  BY <1>3, <1>5

Entries ==
  /\ stats \in Seq([Columns -> 0 .. MaxTotal])
  /\ StagesWithinTotal

LEMMA EntriesStep ==
  Accounted /\ Accounted' /\ Entries /\ [TimedNext]_timedVars => Entries'
<1> SUFFICES ASSUME Accounted, Accounted', Entries, [TimedNext]_timedVars
             PROVE  Entries'
  OBVIOUS
<1>1. UNCHANGED stats \/ (stats' = Append(stats, Entry) /\ dequeue_ms' = dequeue_ms)
  BY DEF TimedNext, TimedBegin, TimedStep, timedVars
<1>2. CASE UNCHANGED stats
  BY <1>2 DEF Entries, StagesWithinTotal
<1>3. CASE stats' = Append(stats, Entry) /\ dequeue_ms' = dequeue_ms
  <2> DEFINE S == [Columns -> 0 .. MaxTotal]
             e == Entry
  <2>1. e \in S /\ e.dequeue_ms + e.process_ms <= e.total_ms
    BY <1>3, EntryFacts
  <2>2. stats \in Seq(S)
    BY DEF Entries
  <2> HIDE DEF S, e
  <2>3. /\ Append(stats, e) \in Seq(S)
        /\ Len(Append(stats, e)) = Len(stats) + 1
        /\ \A i \in 1 .. Len(stats) : Append(stats, e)[i] = stats[i]
        /\ Append(stats, e)[Len(stats) + 1] = e
    BY <2>1, <2>2, AppendProperties
  <2>4. /\ DOMAIN stats = 1 .. Len(stats) /\ Len(stats) \in Nat
        /\ DOMAIN Append(stats, e) = 1 .. Len(stats) + 1
    BY <2>2, <2>3, LenProperties
  <2>5. stats' = Append(stats, e)
    BY <1>3 DEF e
  <2>6. ASSUME NEW i \in DOMAIN stats'
        PROVE  stats'[i].dequeue_ms + stats'[i].process_ms <= stats'[i].total_ms
    <3>1. CASE i = Len(stats) + 1
      BY <2>1, <2>3, <2>5, <3>1
    <3>2. CASE i # Len(stats) + 1
      <4>1. i \in DOMAIN stats /\ stats'[i] = stats[i]
        BY <2>3, <2>4, <2>5, <3>2
      <4> QED
        BY <4>1 DEF Entries, StagesWithinTotal
    <3> QED
      BY <3>1, <3>2
  <2> QED
    BY <2>3, <2>5, <2>6 DEF Entries, StagesWithinTotal, S
<1> QED
  BY <1>1, <1>2, <1>3

LEMMA EntriesInit == TimedInit => Entries
<1>1. <<>> \in Seq([Columns -> 0 .. MaxTotal]) /\ DOMAIN <<>> = {}
  BY EmptySeq
<1> QED
  BY <1>1 DEF TimedInit, Entries, StagesWithinTotal

--------------------------------------------------------------------------------
(* The invariant of the clock.                                             *)
THEOREM TimeInvariant == TimedSpec => [](Accounted /\ Entries)
<1>1. Accounted /\ Entries /\ [TimedNext]_timedVars => (Accounted /\ Entries)'
  BY AccountedStep, EntriesStep
<1> QED
  BY <1>1, AccountedInit, EntriesInit, PTL DEF TimedSpec

(* Every variable keeps its type, here and in FrameProcessing.             *)
THEOREM TimedTypes == TimedSpec => []TimedTypeOK
<1>1. Accounted /\ Entries /\ TypeOK => TimedTypeOK
  <2> SUFFICES ASSUME Accounted, Entries, TypeOK PROVE TimedTypeOK
    OBVIOUS
  <2>1. /\ total \in Nat /\ dequeue_ms \in Nat /\ since \in Nat
        /\ timing["rga_ms"] \in Nat /\ timing["encode_ms"] \in Nat
        /\ timing["write_ms"] \in Nat
        /\ dequeue_ms + timing["rga_ms"] + timing["encode_ms"] + timing["write_ms"]
             + since <= total
    BY DEF Accounted, Stages
  <2>2. dequeue_ms \in 0 .. total /\ since \in 0 .. total
    BY <2>1
  <2>3. \A stage \in Stages : timing[stage] \in 0 .. total
    BY <2>1 DEF Stages
  <2>4. timing \in [Stages -> 0 .. total]
    BY <2>3 DEF Accounted
  <2>5. total \in 0 .. MaxTotal
    BY DEF Accounted
  <2> QED
    BY <2>2, <2>4, <2>5 DEF TimedTypeOK, Entries, Stages
<1> QED
  BY <1>1, TimeInvariant, TimedIsProcessing, ProcessingTypes, PTL

(* The stages of a frame do not overlap and belong to it: the time in      *)
(* dequeue and in the three stages of process_frame is at most the frame's *)
(* latency, whichever of the stages fails.                                 *)
THEOREM StagesFit == TimedSpec => []StagesWithinTotal
<1>1. Entries => StagesWithinTotal
  BY DEF Entries
<1> QED
  BY <1>1, TimeInvariant, PTL

--------------------------------------------------------------------------------
(* A set of naturals that is not empty has a least element.                *)
LEMMA LeastNat ==
  ASSUME NEW T \in SUBSET Nat, T # {}
  PROVE  \E x \in T : \A y \in T : x <= y
<1>1. \E x \in T : \A y \in T : <<y, x>> \notin OpToRel(<, Nat)
  BY NatLessThanWellFounded, WFMin, Zenon
<1>2. PICK x \in T : \A y \in T : <<y, x>> \notin OpToRel(<, Nat)
  BY <1>1
<1>3. \A y \in T : ~ (y < x)
  BY <1>2, Zenon DEF OpToRel
<1> QED
  BY <1>3

(* Induction, with the set of those for which a statement holds.           *)
LEMMA InductionOverSet ==
  ASSUME NEW T, 0 \in T, \A n \in Nat : n \in T => n + 1 \in T
  PROVE  Nat \subseteq T
<1> SUFFICES ASSUME Nat \ T # {} PROVE FALSE
  OBVIOUS
<1>1. PICK x \in Nat \ T : \A y \in Nat \ T : x <= y
  BY LeastNat
<1>2. x # 0 /\ x \in Nat
  BY <1>1
<1>3. x - 1 \in Nat /\ ~ (x <= x - 1) /\ (x - 1) + 1 = x
  BY <1>2
<1>4. x - 1 \in T
  BY <1>1, <1>3
<1> QED
  BY <1>1, <1>3, <1>4

--------------------------------------------------------------------------------
Cols == [avg : Nat, min : Nat, max : Nat]

(* ran is what the loop of gather computes, up to the n-th duration.       *)
Runs(ran, first, durations, n) ==
  ran = [i \in 0 .. n |-> IF i = 0 THEN first ELSE Add(ran[i - 1], durations[i])]

(* The loop can be run for any number of durations,                        *)
LEMMA LoopRuns ==
  ASSUME NEW first, NEW durations, NEW n \in Nat
  PROVE  \E ran : Runs(ran, first, durations, n)
<1> DEFINE T == {k \in Nat : \E ran : Runs(ran, first, durations, k)}
<1>1. 0 \in T
  <2> DEFINE ran == [i \in 0 .. 0 |-> first]
  <2>1. Runs(ran, first, durations, 0)
    BY DEF Runs
  <2> QED
    BY <2>1
<1>2. ASSUME NEW k \in Nat, k \in T PROVE k + 1 \in T
  <2>1. PICK ran : Runs(ran, first, durations, k)
    BY <1>2
  <2> DEFINE more == [i \in 0 .. k + 1 |->
                        IF i = k + 1 THEN Add(ran[k], durations[k + 1]) ELSE ran[i]]
             step(f, i) == IF i = 0 THEN first ELSE Add(f[i - 1], durations[i])
  <2>2. \A i \in 0 .. k : ran[i] = IF i = 0 THEN first ELSE Add(ran[i - 1], durations[i])
    BY <2>1, Zenon DEF Runs
  <2>3. \A i \in 0 .. k : i \in 0 .. k + 1 /\ i # k + 1 /\ more[i] = ran[i]
    OBVIOUS
  <2>4. k + 1 \in 0 .. k + 1 /\ more[k + 1] = Add(ran[k], durations[k + 1])
        /\ k + 1 # 0 /\ (k + 1) - 1 = k /\ k \in 0 .. k
    OBVIOUS
  <2>5. \A i \in 0 .. k + 1 : i \in 0 .. k \/ i = k + 1
    OBVIOUS
  <2>6. \A i \in 0 .. k : i # 0 => i - 1 \in 0 .. k
    OBVIOUS
  <2>7. more = [i \in 0 .. k + 1 |-> more[i]]
    OBVIOUS
  <2> HIDE DEF more
  <2>8. \A i \in 0 .. k + 1 :
          more[i] = IF i = 0 THEN first ELSE Add(more[i - 1], durations[i])
    BY <2>2, <2>3, <2>4, <2>5, <2>6, Zenon
  <2>9. Runs(more, first, durations, k + 1)
    BY <2>7, <2>8, Zenon DEF Runs
  <2> QED
    BY <2>9
<1> HIDE DEF T
<1>3. Nat \subseteq T
  BY <1>1, <1>2, InductionOverSet
<1> QED
  BY <1>3 DEF T

(* so that AddAll is where a run of it ends.                               *)
LEMMA AddAllRuns ==
  ASSUME NEW first, NEW durations, Len(durations) \in Nat
  PROVE  \E ran : /\ Runs(ran, first, durations, Len(durations))
                  /\ AddAll(first, durations) = ran[Len(durations)]
<1> DEFINE n == Len(durations)
           loop == CHOOSE ran : Runs(ran, first, durations, n)
<1>1. Runs(loop, first, durations, n)
  BY LoopRuns, Zenon
<1>2. AddAll(first, durations) = loop[n]
  BY Zenon DEF AddAll, Runs
<1> QED
  BY <1>1, <1>2

--------------------------------------------------------------------------------
(* What a loop over n durations has found, when n > 0: their least and     *)
(* greatest, and a sum between n times the one and n times the other.      *)
Summary(c, durations, n) ==
  /\ c \in Cols
  /\ \E j \in 1 .. n : c.min = durations[j]
  /\ \E j \in 1 .. n : c.max = durations[j]
  /\ \A j \in 1 .. n : c.min <= durations[j] /\ durations[j] <= c.max
  /\ n * c.min <= c.avg /\ c.avg <= n * c.max

LEMMA AddFields ==
  ASSUME NEW c \in Cols, NEW d \in Nat
  PROVE  /\ Add(c, d) \in Cols
         /\ Add(c, d).avg = c.avg + d
         /\ Add(c, d).min = IF d < c.min THEN d ELSE c.min
         /\ Add(c, d).max = IF d > c.max THEN d ELSE c.max
  BY DEF Add, Cols

(* The products of a number are in the order of the other factors.         *)
LEMMA TimesGrows ==
  ASSUME NEW n \in Nat, NEW l \in Nat, NEW m \in Nat, l <= m
  PROVE  n * l <= n * m
<1>1. PICK e \in Nat : m = l + e
  <2>1. m - l \in Nat /\ m = l + (m - l)
    OBVIOUS
  <2> QED
    BY <2>1
<1>2. n * m = n * l + n * e
  BY <1>1
<1>3. n * e \in Nat /\ n * l \in Nat
  OBVIOUS
<1> QED
  BY <1>2, <1>3

(* The bounds of a sum, when a duration and perhaps a new least or         *)
(* greatest are added.                                                     *)
LEMMA SumAbove ==
  ASSUME NEW n \in Nat, NEW a \in Nat, NEW d \in Nat, NEW m \in Nat, NEW l \in Nat,
         n * m <= a, l <= m, l <= d
  PROVE  (n + 1) * l <= a + d
<1>1. n * l <= n * m
  BY TimesGrows
<1>2. (n + 1) * l = n * l + l
  OBVIOUS
<1> QED
  BY <1>1, <1>2

LEMMA SumBelow ==
  ASSUME NEW n \in Nat, NEW a \in Nat, NEW d \in Nat, NEW m \in Nat, NEW g \in Nat,
         a <= n * m, m <= g, d <= g
  PROVE  a + d <= (n + 1) * g
<1>1. n * m <= n * g
  BY TimesGrows
<1>2. (n + 1) * g = n * g + g
  OBVIOUS
<1> QED
  BY <1>1, <1>2

(* The first duration is below Infinity and not below 0.                   *)
LEMMA FirstSummary ==
  ASSUME NEW durations, durations[1] \in 0 .. MaxTotal
  PROVE  Summary(Add(NoDurations, durations[1]), durations, 1)
<1> DEFINE d == durations[1]
           c == Add(NoDurations, d)
<1>1. MaxTotal \in Nat /\ Infinity \in Nat /\ MaxTotal < Infinity
  BY LatencyAssumption
<1>2. d \in Nat /\ d < Infinity
  BY <1>1
<1>3. /\ NoDurations \in Cols /\ NoDurations.avg = 0
      /\ NoDurations.min = Infinity /\ NoDurations.max = 0
  BY <1>1 DEF NoDurations, Cols
<1> HIDE DEF d
<1>4. /\ c \in Cols
      /\ c.avg = NoDurations.avg + d
      /\ c.min = IF d < NoDurations.min THEN d ELSE NoDurations.min
      /\ c.max = IF d > NoDurations.max THEN d ELSE NoDurations.max
  BY <1>2, <1>3, AddFields
<1> HIDE DEF c
<1>5. c.avg = d /\ c.min = d /\ c.max = d
  BY <1>2, <1>3, <1>4
<1>6. 1 * d = d /\ 1 .. 1 = {1}
  BY <1>2
<1>7. Summary(c, durations, 1)
  BY <1>2, <1>4, <1>5, <1>6 DEF Summary, d
<1> QED
  BY <1>7 DEF c, d

LEMMA NextSummary ==
  ASSUME NEW durations, NEW n \in Nat, n > 0, durations[n + 1] \in Nat,
         \A j \in 1 .. n : durations[j] \in Nat,
         NEW c, Summary(c, durations, n)
  PROVE  Summary(Add(c, durations[n + 1]), durations, n + 1)
<1> DEFINE d == durations[n + 1]
           e == Add(c, d)
<1>1. d \in Nat
  OBVIOUS
<1>2. c \in Cols /\ c.avg \in Nat /\ c.min \in Nat /\ c.max \in Nat
  BY DEF Summary, Cols
<1> HIDE DEF d
<1>3. /\ e \in Cols /\ e.avg = c.avg + d
      /\ e.min = IF d < c.min THEN d ELSE c.min
      /\ e.max = IF d > c.max THEN d ELSE c.max
  BY <1>1, <1>2, AddFields
<1> HIDE DEF e
<1>4. /\ e.min \in Nat /\ e.max \in Nat
      /\ e.min <= d /\ e.min <= c.min /\ d <= e.max /\ c.max <= e.max
  BY <1>1, <1>2, <1>3
<1>5. (n + 1) * e.min <= e.avg /\ e.avg <= (n + 1) * e.max
  BY <1>1, <1>2, <1>3, <1>4, SumAbove, SumBelow DEF Summary
<1>6. 1 .. n + 1 = (1 .. n) \cup {n + 1}
  OBVIOUS
<1>7. \E j \in 1 .. n + 1 : e.min = durations[j]
  BY <1>3, <1>6 DEF Summary, d
<1>8. \E j \in 1 .. n + 1 : e.max = durations[j]
  BY <1>3, <1>6 DEF Summary, d
<1>9. ASSUME NEW j \in 1 .. n + 1
      PROVE  e.min <= durations[j] /\ durations[j] <= e.max
  <2>1. CASE j = n + 1
    BY <1>4, <2>1 DEF d
  <2>2. CASE j \in 1 .. n
    <3>1. durations[j] \in Nat /\ c.min <= durations[j] /\ durations[j] <= c.max
      BY <2>2 DEF Summary
    <3> QED
      BY <1>2, <1>4, <3>1
  <2> QED
    BY <1>6, <2>1, <2>2
<1>10. Summary(e, durations, n + 1)
  BY <1>3, <1>5, <1>7, <1>8, <1>9 DEF Summary
<1> QED
  BY <1>10 DEF e, d

(* What the loop of gather finds in any number of durations but none.      *)
LEMMA LoopSummary ==
  ASSUME NEW durations \in Seq(0 .. MaxTotal), durations # <<>>
  PROVE  Summary(AddAll(NoDurations, durations), durations, Len(durations))
<1> DEFINE n == Len(durations)
<1>1. n \in Nat /\ n # 0 /\ \A j \in 1 .. n : durations[j] \in 0 .. MaxTotal
  BY EmptySeq, LenProperties, ElementOfSeq
<1>2. \A j \in 1 .. n : durations[j] \in Nat
  BY <1>1, LatencyAssumption
<1>3. PICK ran : /\ Runs(ran, NoDurations, durations, n)
                 /\ AddAll(NoDurations, durations) = ran[n]
  BY <1>1, AddAllRuns
<1> DEFINE T == {k \in Nat : k + 1 \in 1 .. n => Summary(ran[k + 1], durations, k + 1)}
<1> HIDE DEF n
<1>4. \A i \in 0 .. n :
        ran[i] = IF i = 0 THEN NoDurations ELSE Add(ran[i - 1], durations[i])
  BY <1>3, Zenon DEF Runs
<1>5. 0 \in T
  <2>1. 0 \in 0 .. n /\ 1 \in 0 .. n /\ 1 \in 1 .. n /\ 1 - 1 = 0 /\ 0 + 1 = 1 /\ 1 # 0
    BY <1>1
  <2>2. ran[0] = NoDurations /\ ran[1] = Add(ran[0], durations[1])
    BY <1>4, <2>1
  <2>3. Summary(ran[1], durations, 1)
    BY <1>1, <2>1, <2>2, FirstSummary
  <2> QED
    BY <2>1, <2>3
<1>6. ASSUME NEW k \in Nat, k \in T PROVE k + 1 \in T
  <2> SUFFICES ASSUME (k + 1) + 1 \in 1 .. n
               PROVE  Summary(ran[(k + 1) + 1], durations, (k + 1) + 1)
    OBVIOUS
  <2> DEFINE m == k + 1
  <2>1. /\ m \in 1 .. n /\ m \in Nat /\ m > 0 /\ m + 1 \in 1 .. n /\ m + 1 \in 0 .. n
        /\ m + 1 # 0 /\ (m + 1) - 1 = m /\ \A j \in 1 .. m : j \in 1 .. n
    BY <1>1
  <2>2. Summary(ran[m], durations, m)
    BY <1>6, <2>1
  <2> HIDE DEF m
  <2>3. ran[m + 1] = Add(ran[m], durations[m + 1])
    BY <1>4, <2>1
  <2>4. Summary(ran[m + 1], durations, m + 1)
    BY <1>2, <2>1, <2>2, <2>3, NextSummary
  <2> QED
    BY <2>4 DEF m
<1> HIDE DEF T
<1>7. Nat \subseteq T
  BY <1>5, <1>6, InductionOverSet
<1>8. n - 1 \in Nat /\ (n - 1) + 1 = n /\ n \in 1 .. n
  BY <1>1
<1>9. Summary(ran[n], durations, n)
  BY <1>7, <1>8 DEF T
<1> QED
  BY <1>3, <1>9 DEF n

(* The whole part of an average is where the average is.                   *)
LEMMA AverageBetween ==
  ASSUME NEW n \in Nat, n > 0, NEW a \in Nat, NEW l \in Nat, NEW g \in Nat,
         n * l <= a, a <= n * g
  PROVE  l <= a \div n /\ a \div n <= g
<1> DEFINE q == a \div n
<1>1. q \in Nat /\ n * q <= a /\ a < n * q + n
  OBVIOUS
<1> HIDE DEF q
<1>2. l <= q
  <2> SUFFICES ASSUME q + 1 <= l PROVE FALSE
    BY <1>1
  <2>1. n * (q + 1) <= n * l
    BY <1>1, TimesGrows
  <2>2. n * (q + 1) = n * q + n /\ n * q \in Nat /\ n * l \in Nat
    BY <1>1
  <2> QED
    BY <1>1, <2>1, <2>2
<1>3. q <= g
  <2> SUFFICES ASSUME g + 1 <= q PROVE FALSE
    BY <1>1
  <2>1. n * (g + 1) <= n * q
    BY <1>1, TimesGrows
  <2>2. n * (g + 1) = n * g + n /\ n * g \in Nat /\ n * q \in Nat
    BY <1>1
  <2> QED
    BY <1>1, <2>1, <2>2
<1> QED
  BY <1>2, <1>3 DEF q

(* What print_stats prints of a column, when there are entries.            *)
LEMMA EntriesSummary ==
  ASSUME stats \in Seq([Columns -> 0 .. MaxTotal]), stats # <<>>, NEW col \in Columns
  PROVE  LET c == Col(col)
             durations == {stats[i][col] : i \in DOMAIN stats}
         IN /\ {c.min, c.max} \subseteq durations
            /\ \A d \in durations \cup {c.avg} : c.min <= d /\ d <= c.max
<1> DEFINE n == Len(stats)
           ds == Durations(col)
           g == AddAll(NoDurations, ds)
           durations == {stats[i][col] : i \in DOMAIN stats}
<1>1. n \in Nat /\ n > 0 /\ DOMAIN stats = 1 .. n
  BY EmptySeq, LenProperties
<1>2. \A i \in 1 .. n : stats[i][col] \in 0 .. MaxTotal
  BY <1>1, ElementOfSeq
<1>3. /\ ds \in Seq(0 .. MaxTotal) /\ Len(ds) = n /\ ds # <<>>
      /\ \A i \in 1 .. n : ds[i] = stats[i][col]
  BY <1>1, <1>2, IsASeq, LenProperties, EmptySeq DEF Durations
<1> HIDE DEF ds, n
<1>4. Summary(g, ds, n)
  BY <1>3, LoopSummary
<1> HIDE DEF g
<1>5. g \in Cols /\ g.avg \in Nat /\ g.min \in Nat /\ g.max \in Nat
  BY <1>4 DEF Summary, Cols
<1>6. /\ Col(col).avg = g.avg \div n
      /\ Col(col).min = g.min /\ Col(col).max = g.max
  BY <1>5 DEF Col, Gather, Cols, g, ds, n
<1>7. durations = {ds[i] : i \in 1 .. n}
  BY <1>1, <1>3
<1>8. {g.min, g.max} \subseteq durations
  BY <1>4, <1>7 DEF Summary
<1>9. \A d \in durations : g.min <= d /\ d <= g.max
  BY <1>4, <1>7 DEF Summary
<1>10. g.min <= g.avg \div n /\ g.avg \div n <= g.max
  BY <1>1, <1>4, <1>5, AverageBetween DEF Summary
<1> QED
  BY <1>6, <1>8, <1>9, <1>10

(* What print_stats prints of a column is about these frames: the least    *)
(* and the greatest are durations that occurred and enclose all others     *)
(* and the average.                                                        *)
THEOREM SummaryIsOfFrames == TimedSpec => []SummaryOfFrames
<1>1. Entries => SummaryOfFrames
  BY EntriesSummary DEF Entries, SummaryOfFrames
<1> QED
  BY <1>1, TimeInvariant, PTL
================================================================================
