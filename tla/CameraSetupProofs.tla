--------------------------- MODULE CameraSetupProofs ---------------------------
(***************************************************************************)
(* CameraSetup for any formats, any list of preferences and any number of  *)
(* buffers: the inductive invariant and what follows from it.              *)
(***************************************************************************)
EXTENDS CameraSetup, SequenceTheorems, TLAPS

Pointers == {"null", "mapped", "MAP_FAILED"}

(* Where the set-up is, against what it has got so far.                    *)
Progress ==
  /\ at \in {"cap", "format", "reqbufs", "map", "ready"} => fd
  /\ at = "closed" => ~fd
  /\ at \in {"open", "cap", "format", "reqbufs", "closed"} => ptrs = <<>>
  /\ at \in {"reqbufs", "map", "ready"} => pixfmt \in supported

(* The pointers that were mapped are the mappings there are; the loop over *)
(* bufs has mapped a prefix of them.                                       *)
Mapping ==
  /\ Len(ptrs) <= MaxBufs
  /\ mappings = {i \in DOMAIN ptrs : ptrs[i] = "mapped"}
  /\ at = "map" => \E n \in DOMAIN ptrs :
       \A j \in DOMAIN ptrs : ptrs[j] = IF j < n THEN "mapped" ELSE "null"
  /\ at = "ready" => \A j \in DOMAIN ptrs : ptrs[j] = "mapped"

SetupInv == TypeOK /\ Progress /\ Mapping

--------------------------------------------------------------------------------
LEMMA NoPointers ==
  /\ <<>> \in Seq(Pointers)
  /\ Len(<<>>) = 0
  /\ DOMAIN <<>> = {}
  BY EmptySeq

LEMMA InitSetupInv == Init => SetupInv
<1> SUFFICES ASSUME Init PROVE SetupInv
  OBVIOUS
<1>1. Len(fmt_prefs) \in Nat
  BY SetupAssumption, LenProperties
<1>2. TypeOK
  <2>1. 0 \in 0 .. Len(fmt_prefs)
    BY <1>1
  <2>2. ptrs \in Seq({"null", "mapped", "MAP_FAILED"})
    BY NoPointers DEF Init, Pointers
  <2> QED
    BY <2>1, <2>2 DEF Init, TypeOK
<1>3. Progress
  BY DEF Init, Progress
<1>4. Mapping
  BY NoPointers, SetupAssumption DEF Init, Mapping
<1> QED
  BY <1>2, <1>3, <1>4 DEF SetupInv

(* A pointer list of the length the driver granted, with the first n       *)
(* buffers mapped, or changed in one place.                                *)
LEMMA SetPointer ==
  ASSUME NEW p \in Seq(Pointers), NEW i \in DOMAIN p, NEW v \in Pointers
  PROVE  /\ [p EXCEPT ![i] = v] \in Seq(Pointers)
         /\ Len([p EXCEPT ![i] = v]) = Len(p)
         /\ DOMAIN [p EXCEPT ![i] = v] = DOMAIN p
         /\ \A j \in DOMAIN p : [p EXCEPT ![i] = v][j] = IF j = i THEN v ELSE p[j]
  BY ExceptSeq, LenProperties

(* The loop stands at the first pointer that is null.                      *)
LEMMA LoopPosition ==
  ASSUME SetupInv, at = "map", NEW i \in DOMAIN ptrs, IsNext(i)
  PROVE  \A j \in DOMAIN ptrs : ptrs[j] = IF j < i THEN "mapped" ELSE "null"
<1>1. PICK n \in DOMAIN ptrs :
        \A j \in DOMAIN ptrs : ptrs[j] = IF j < n THEN "mapped" ELSE "null"
  BY DEF SetupInv, Mapping
<1>2. DOMAIN ptrs = 1 .. Len(ptrs) /\ Len(ptrs) \in Nat
  BY LenProperties DEF SetupInv, TypeOK
<1>3. n = i
  BY <1>1, <1>2 DEF IsNext
<1> QED
  BY <1>1, <1>3

LEMMA SetupStep == SetupInv /\ [Next]_vars => SetupInv'
<1> SUFFICES ASSUME SetupInv, [Next]_vars PROVE SetupInv'
  OBVIOUS
<1>0. /\ TypeOK /\ Progress /\ Mapping
      /\ Len(fmt_prefs) \in Nat /\ MaxBufs \in Nat
      /\ fmt_prefs \in Seq(Formats)
      /\ ptrs \in Seq(Pointers) /\ Len(ptrs) \in Nat
      /\ DOMAIN ptrs = 1 .. Len(ptrs)
  BY SetupAssumption, LenProperties DEF SetupInv, TypeOK, Pointers
<1>1. CASE OpenDevice \/ QueryCap \/ FormatRefused \/ FormatsExhausted
  <2>1. TypeOK'
    <3>1. tried' \in 0 .. Len(fmt_prefs)
      BY <1>0, <1>1
      DEF OpenDevice, QueryCap, FormatRefused, FormatsExhausted, TypeOK
    <3> QED
      BY <1>0, <1>1, <3>1
      DEF OpenDevice, QueryCap, FormatRefused, FormatsExhausted, driverVars, TypeOK
  <2>2. Progress'
    BY <1>0, <1>1
    DEF OpenDevice, QueryCap, FormatRefused, FormatsExhausted, driverVars, Progress
  <2>3. UNCHANGED <<ptrs, mappings>> /\ at' \notin {"map", "ready"}
    BY <1>1 DEF OpenDevice, QueryCap, FormatRefused, FormatsExhausted
  <2>4. Mapping'
    BY <1>0, <2>3 DEF Mapping
  <2> QED
    BY <2>1, <2>2, <2>4 DEF SetupInv
<1>2. CASE SetFormat
  <2>1. pixfmt' \in supported /\ at = "format" /\ at' = "reqbufs"
    BY <1>2 DEF SetFormat
  <2>2. pixfmt' \in Formats
    BY <1>0, <2>1 DEF TypeOK
  <2> QED
    BY <1>0, <1>2, <2>1, <2>2
    DEF SetFormat, driverVars, SetupInv, TypeOK, Progress, Mapping
<1>3. CASE RequestBufs
  <2>1. CASE at' = "fail" /\ UNCHANGED ptrs
    BY <1>0, <1>3, <2>1
    DEF RequestBufs, driverVars, SetupInv, TypeOK, Progress, Mapping
  <2>2. ASSUME at' = "ready", NEW count \in Nat, count = 0,
               ptrs' = [i \in 1 .. count |-> "null"]
        PROVE  SetupInv'
    <3>1. ptrs' = <<>>
      BY <2>2
    <3>2. at = "reqbufs" /\ mappings = {}
      BY <1>0, <1>3 DEF RequestBufs, Progress, Mapping
    <3>3. Mapping'
      BY <1>0, <1>3, <2>2, <3>1, <3>2, NoPointers DEF RequestBufs, Mapping
    <3>4. Progress'
      BY <1>0, <1>3, <2>2 DEF RequestBufs, driverVars, Progress
    <3>5. TypeOK'
      BY <1>0, <1>3, <2>2, <3>1, NoPointers DEF RequestBufs, driverVars, TypeOK, Pointers
    <3> QED
      BY <3>3, <3>4, <3>5 DEF SetupInv
  <2>3. ASSUME NEW count \in 1 .. MaxBufs, at' = "map",
               ptrs' = [i \in 1 .. count |-> "null"]
        PROVE  SetupInv'
    <3>1. count \in Nat /\ count >= 1 /\ count <= MaxBufs
      BY <1>0
    <3>2. ptrs' \in Seq(Pointers) /\ DOMAIN ptrs' = 1 .. count
      <4>1. \A i \in 1 .. count : "null" \in Pointers
        BY DEF Pointers
      <4> QED
        BY <2>3, <3>1, <4>1, IsASeq
    <3>3. Len(ptrs') = count
      BY <3>1, <3>2, LenProperties
    <3>4. mappings = {}
      BY <1>0, <1>3 DEF RequestBufs, Progress, Mapping
    <3>5. Mapping'
      <4>1. \A j \in DOMAIN ptrs' : ptrs'[j] = IF j < 1 THEN "mapped" ELSE "null"
        BY <2>3, <3>1, <3>2
      <4>2. 1 \in DOMAIN ptrs'
        BY <3>1, <3>2
      <4>3. mappings' = {i \in DOMAIN ptrs' : ptrs'[i] = "mapped"}
        BY <1>3, <2>3, <3>2, <3>4 DEF RequestBufs
      <4> QED
        BY <2>3, <3>1, <3>3, <4>1, <4>2, <4>3 DEF Mapping
    <3>6. Progress'
      BY <1>0, <1>3, <2>3 DEF RequestBufs, driverVars, Progress
    <3>7. TypeOK'
      BY <1>0, <1>3, <2>3, <3>2 DEF RequestBufs, driverVars, TypeOK, Pointers
    <3> QED
      BY <3>5, <3>6, <3>7 DEF SetupInv
  <2>4. ASSUME NEW count \in 0 .. MaxBufs
        PROVE  count \in Nat /\ (count = 0 \/ count \in 1 .. MaxBufs)
    BY <1>0
  <2> QED
    BY <1>3, <2>1, <2>2, <2>3, <2>4 DEF RequestBufs
<1>4. CASE MapBuf
  <2>1. PICK i \in DOMAIN ptrs :
          /\ IsNext(i)
          /\ ptrs' = [ptrs EXCEPT ![i] = "mapped"]
          /\ mappings' = mappings \cup {i}
          /\ at' = IF i = Len(ptrs) THEN "ready" ELSE "map"
    BY <1>4 DEF MapBuf
  <2>2. \A j \in DOMAIN ptrs : ptrs[j] = IF j < i THEN "mapped" ELSE "null"
    BY <1>4, <2>1, LoopPosition DEF MapBuf
  <2>3. /\ ptrs' \in Seq(Pointers) /\ Len(ptrs') = Len(ptrs)
        /\ DOMAIN ptrs' = DOMAIN ptrs
        /\ \A j \in DOMAIN ptrs : ptrs'[j] = IF j = i THEN "mapped" ELSE ptrs[j]
    BY <1>0, <2>1, SetPointer DEF Pointers
  <2>4. \A j \in DOMAIN ptrs : ptrs'[j] = IF j < i + 1 THEN "mapped" ELSE "null"
    BY <1>0, <2>2, <2>3
  <2>5. mappings' = {j \in DOMAIN ptrs' : ptrs'[j] = "mapped"}
    BY <1>0, <2>1, <2>3 DEF Mapping
  <2>6. CASE i = Len(ptrs)
    <3>1. \A j \in DOMAIN ptrs : ptrs'[j] = "mapped"
      BY <1>0, <2>4, <2>6
    <3> QED
      BY <1>0, <1>4, <2>1, <2>3, <2>5, <2>6, <3>1
      DEF MapBuf, driverVars, SetupInv, TypeOK, Progress, Mapping, Pointers
  <2>7. CASE i # Len(ptrs)
    <3>1. i + 1 \in DOMAIN ptrs
      BY <1>0, <2>7
    <3>2. Mapping'
      BY <1>0, <2>1, <2>3, <2>4, <2>5, <2>7, <3>1 DEF Mapping
    <3>3. Progress'
      BY <1>0, <1>4, <2>1, <2>7 DEF MapBuf, driverVars, Progress
    <3>4. TypeOK'
      BY <1>0, <1>4, <2>1, <2>3, <2>7
      DEF MapBuf, driverVars, TypeOK, Mapping, Pointers
    <3> QED
      BY <3>2, <3>3, <3>4 DEF SetupInv
  <2> QED
    BY <2>6, <2>7
<1>5. CASE MapFails
  <2>1. PICK i \in DOMAIN ptrs, p \in {"null", "MAP_FAILED"} :
          IsNext(i) /\ ptrs' = [ptrs EXCEPT ![i] = p]
    BY <1>5 DEF MapFails
  <2>2. ptrs[i] = "null"
    BY <1>0, <2>1 DEF IsNext
  <2>3. /\ ptrs' \in Seq(Pointers) /\ Len(ptrs') = Len(ptrs)
        /\ DOMAIN ptrs' = DOMAIN ptrs
        /\ \A j \in DOMAIN ptrs : ptrs'[j] = IF j = i THEN p ELSE ptrs[j]
    BY <1>0, <2>1, SetPointer DEF Pointers
  <2>4. mappings' = {j \in DOMAIN ptrs' : ptrs'[j] = "mapped"}
    BY <1>0, <1>5, <2>2, <2>3 DEF MapFails, Mapping
  <2> QED
    BY <1>0, <1>5, <2>3, <2>4
    DEF MapFails, driverVars, SetupInv, TypeOK, Progress, Mapping, Pointers
<1>6. CASE CameraClose
  <2>1. mappings' = {}
    BY <1>0, <1>6 DEF CameraClose, Mapping
  <2>2. TypeOK'
    BY <1>0, <1>6, <2>1, NoPointers
    DEF CameraClose, driverVars, TypeOK, Pointers
  <2>3. Progress'
    BY <1>6 DEF CameraClose, Progress
  <2>4. Mapping'
    BY <1>0, <1>6, <2>1, NoPointers DEF CameraClose, Mapping
  <2> QED
    BY <2>2, <2>3, <2>4 DEF SetupInv
<1>7. CASE UNCHANGED vars
  BY <1>0, <1>7 DEF vars, driverVars, SetupInv, TypeOK, Progress, Mapping
<1> QED
  BY <1>1, <1>2, <1>3, <1>4, <1>5, <1>6, <1>7 DEF Next, OpenAndAlloc, Ended

--------------------------------------------------------------------------------
(* The inductive invariant holds in every reachable state.                 *)
THEOREM SetupInvariant == Spec => []SetupInv
  BY InitSetupInv, SetupStep, PTL DEF Spec

(* Every variable of the set-up keeps its type.                            *)
THEOREM SetupTypes == Spec => []TypeOK
<1>1. SetupInv => TypeOK
  BY DEF SetupInv
<1> QED
  BY <1>1, SetupInvariant, PTL

(* Whichever call of camera_open or camera_alloc_bufs failed, camera_close *)
(* leaves no mapping and no open device behind.                            *)
THEOREM CloseUndoesAll == Spec => []NothingLeaks
<1>1. SetupInv => NothingLeaks
  BY DEF SetupInv, Progress, Mapping, NothingLeaks
<1> QED
  BY <1>1, SetupInvariant, PTL

(* A camera that was set up has a format the driver knows and a mapped     *)
(* pointer for every index that DQBUF can return.                          *)
THEOREM SetupSucceeds == Spec => []ReadyIsUsable
<1>1. SetupInv => ReadyIsUsable
  BY DEF SetupInv, Progress, Mapping, ReadyIsUsable
<1> QED
  BY <1>1, SetupInvariant, PTL
================================================================================
