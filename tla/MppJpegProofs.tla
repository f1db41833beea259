----------------------------- MODULE MppJpegProofs -----------------------------
(***************************************************************************)
(* MppJpeg for any callers and images: no path leaks a handle, and a sole  *)
(* caller gets the JPEG of its own image or nothing.                       *)
(***************************************************************************)
EXTENDS MppJpeg, TLAPS

(* Which handles create has acquired, by the call it has come to.          *)
HeldByStage ==
  /\ at \in {"load", "calloc", "null", "destroyed"} => held = {}
  /\ at # "control" => "cfg" \notin held
  /\ at \in {"create", "init", "cfg", "control", "group", "buffer", "pointer", "ready"}
       => "enc" \in held
  /\ at \in {"init", "cfg", "control", "group", "buffer", "pointer", "ready"}
       => "ctx" \in held
  /\ at \in {"buffer", "pointer", "ready"} => "grp" \in held
  /\ at \in {"pointer", "ready"} => "buf" \in held

(* What a caller owns, by the place it has come to in encode.              *)
OwnedByPlace ==
  \A c \in Callers :
    /\ pc[c] # "idle" => at = "ready"
    /\ pc[c] \in {"idle", "check", "copy", "frame"} => c \notin frames
    /\ pc[c] # "take" <=> pkt[c] = <<>>

(* The inductive invariant of the ledger.                                  *)
Ledger == TypeOK /\ HeldByStage /\ OwnedByPlace

LEMMA InitLedger == Init => Ledger
<1> SUFFICES ASSUME Init PROVE Ledger
  OBVIOUS
<1> USE DEF Init
<1>1. TypeOK
  <2>1. /\ Len(results) = 0
        /\ results \in Seq(Halves \cup {Nothing})
        /\ pending + Len(results) <= Depth
    BY EncoderAssumption
  <2>2. in_ptr \in Halves
    BY DEF Halves
  <2>3. /\ pkt \in [Callers -> {<<>>} \cup {<<p>> : p \in Halves}]
        /\ out \in [Callers -> Halves \cup {Nothing}]
    OBVIOUS
  <2> QED
    BY <2>1, <2>2, <2>3 DEF TypeOK
<1>2. HeldByStage
  BY DEF HeldByStage
<1>3. OwnedByPlace
  BY DEF OwnedByPlace
<1> QED
  BY <1>1, <1>2, <1>3 DEF Ledger

--------------------------------------------------------------------------------
(* A step of create, or of destroy, keeps the ledger.                      *)
LEMMA AcquireStep ==
  ASSUME Ledger,
         NEW from, NEW r \in {"enc", "ctx", "cfg", "grp", "buf"}, NEW to, NEW failed,
         Acquire(from, r, to, failed)
  PROVE  held' \subseteq {"enc", "ctx", "cfg", "grp", "buf"}
  BY DEF Ledger, TypeOK, Acquire

(* While the encoder is being made, nobody is in encode.                   *)
LEMMA NobodyInside ==
  ASSUME OwnedByPlace, at # "ready"
  PROVE  \A c \in Callers : pc[c] = "idle"
  BY DEF OwnedByPlace

LEMMA CreateStep ==
  ASSUME Ledger, Create \/ OwnerDestroys
  PROVE  Ledger'
<1> USE DEF Ledger
<1>1. UNCHANGED <<callVars, mppVars>>
  BY DEF Create, OwnerDestroys, Destroy, EnsureApi, Calloc, MppCreate,
         MppInit, CfgInit, Configure,
         GroupGet, BufferGet, BufferPtr, CreateFails, Acquire, Check
<1>2. \A c \in Callers : pc[c] = "idle"
  BY NobodyInside
  DEF Create, OwnerDestroys, Destroy, EnsureApi, Calloc, MppCreate,
      MppInit, CfgInit, Configure,
      GroupGet, BufferGet, BufferPtr, CreateFails, Acquire, Check
<1>3. OwnedByPlace'
  BY <1>1, <1>2 DEF OwnedByPlace, callVars
<1>4. HeldByStage'
  BY DEF HeldByStage, TypeOK, Create, OwnerDestroys, Destroy, EnsureApi, Calloc, MppCreate,
         MppInit, CfgInit, Configure, GroupGet, BufferGet, BufferPtr, CreateFails,
         Acquire, Check
<1>5. /\ held' \subseteq {"enc", "ctx", "cfg", "grp", "buf"}
      /\ configured' \in BOOLEAN
      /\ at' \in {"load", "calloc", "create", "init", "cfg", "control", "group",
                  "buffer", "pointer", "ready", "fail", "null", "destroyed"}
  BY DEF TypeOK, Create, OwnerDestroys, Destroy, EnsureApi, Calloc, MppCreate,
         MppInit, CfgInit, Configure, GroupGet, BufferGet, BufferPtr, CreateFails,
         Acquire, Check
<1>6. TypeOK'
  BY <1>1, <1>5 DEF TypeOK, callVars, mppVars, Halves
<1> QED
  BY <1>3, <1>4, <1>6

(* What Append and the removal of the head do to the results.              *)
LEMMA ResultsGrow ==
  ASSUME NEW S, NEW s \in Seq(S), NEW x \in S
  PROVE  Append(s, x) \in Seq(S) /\ Len(Append(s, x)) = Len(s) + 1
  OBVIOUS

LEMMA ResultsShrink ==
  ASSUME NEW S, NEW s \in Seq(S), s # <<>>
  PROVE  /\ Head(s) \in S
         /\ Tail(s) \in Seq(S)
         /\ Len(Tail(s)) = Len(s) - 1
         /\ Len(s) \in Nat \ {0}
  OBVIOUS

LEMMA ShrinkBound ==
  ASSUME NEW S, NEW s \in Seq(S), s # <<>>, NEW n \in Nat, n + Len(s) <= Depth
  PROVE  n + Len(Tail(s)) <= Depth
<1>1. Len(s) \in Nat /\ Len(Tail(s)) = Len(s) - 1
  BY ResultsShrink
<1> QED
  BY <1>1, EncoderAssumption

(* The hardware exchanges a pending frame for a result.                    *)
LEMMA HardwareStep ==
  ASSUME Ledger, Hardware
  PROVE  Ledger'
<1> USE DEF Ledger
<1>1. PICK r \in {in_ptr, Nothing} : results' = Append(results, r)
  BY DEF Hardware
<1>2. r \in Halves \cup {Nothing}
  BY DEF TypeOK
<1>3. /\ results' \in Seq(Halves \cup {Nothing})
      /\ Len(results') = Len(results) + 1
  BY <1>1, <1>2, ResultsGrow DEF TypeOK
<1>4. pending' \in Nat /\ pending' + Len(results') <= Depth
  BY <1>3, EncoderAssumption DEF Hardware, TypeOK
<1>5. TypeOK'
  BY <1>3, <1>4 DEF Hardware, TypeOK, lifeVars, callVars, Halves
<1>6. HeldByStage' /\ OwnedByPlace'
  BY DEF Hardware, HeldByStage, OwnedByPlace, lifeVars, callVars
<1> QED
  BY <1>5, <1>6

--------------------------------------------------------------------------------
(* A step of a caller keeps the ledger.                                    *)
LEMMA EncodeStep ==
  ASSUME Ledger, NEW c \in Callers,
         Encode(c) \/ \E img \in Images : Call(c, img)
  PROVE  Ledger'
<1> USE DEF Ledger
<1>1. ASSUME NEW img \in Images, Call(c, img) PROVE Ledger'
  BY <1>1 DEF Call, Goes, TypeOK, HeldByStage, OwnedByPlace, lifeVars, mppVars
<1>2. CASE TooShort(c)
  BY <1>2 DEF TooShort, Goes, TypeOK, HeldByStage, OwnedByPlace, lifeVars, mppVars
<1>3. CASE CopyFirst(c)
  <2>1. in_ptr' \in Halves
    BY <1>3 DEF CopyFirst, TypeOK, Halves
  <2> QED
    BY <1>3, <2>1 DEF CopyFirst, Goes, TypeOK, HeldByStage, OwnedByPlace, lifeVars
<1>4. CASE CopyRest(c)
  <2>1. in_ptr' \in Halves
    BY <1>4 DEF CopyRest, TypeOK, Halves
  <2> QED
    BY <1>4, <2>1 DEF CopyRest, Goes, TypeOK, HeldByStage, OwnedByPlace, lifeVars
<1>5. CASE FrameInit(c)
  BY <1>5 DEF FrameInit, Goes, TypeOK, HeldByStage, OwnedByPlace, lifeVars, mppVars
<1>6. CASE PutFrame(c)
  <2>1. pending' \in Nat /\ pending' + Len(results') <= Depth
    BY <1>6, EncoderAssumption DEF PutFrame, TypeOK
  <2> QED
    BY <1>6, <2>1 DEF PutFrame, Goes, TypeOK, HeldByStage, OwnedByPlace, lifeVars
<1>7. CASE PutFails(c)
  BY <1>7 DEF PutFails, Goes, TypeOK, HeldByStage, OwnedByPlace, lifeVars, mppVars
<1>8. CASE GetPacket(c)
  <2>1. /\ results' \in Seq(Halves \cup {Nothing})
        /\ pending' + Len(results') <= Depth
    <3>1. results \in Seq(Halves \cup {Nothing}) /\ pending \in Nat
          /\ pending + Len(results) <= Depth
      BY DEF TypeOK
    <3>2. results # <<>> /\ results' = Tail(results) /\ pending' = pending
      BY <1>8 DEF GetPacket
    <3> QED
      BY <3>1, <3>2, ResultsShrink, ShrinkBound
  <2>2. Head(results) \in Halves
    <3>1. results \in Seq(Halves \cup {Nothing})
      BY DEF TypeOK
    <3> QED
      BY <1>8, <3>1, ResultsShrink DEF GetPacket
  <2>3. pkt' \in [Callers -> {<<>>} \cup {<<p>> : p \in Halves}]
    BY <1>8, <2>2 DEF GetPacket, TypeOK
  <2> QED
    BY <1>8, <2>1, <2>3 DEF GetPacket, Goes, TypeOK, HeldByStage, OwnedByPlace, lifeVars
<1>9. CASE GetFails(c)
  <2>1. /\ results' \in Seq(Halves \cup {Nothing})
        /\ pending' + Len(results') <= Depth
    <3>1. results \in Seq(Halves \cup {Nothing}) /\ pending \in Nat
          /\ pending + Len(results) <= Depth
      BY DEF TypeOK
    <3>2. /\ pending' = pending
          /\ \/ results # <<>> /\ results' = Tail(results)
             \/ results' = results
      BY <1>9 DEF GetFails
    <3> QED
      BY <3>1, <3>2, ResultsShrink, ShrinkBound
  <2> QED
    BY <1>9, <2>1 DEF GetFails, Goes, TypeOK, HeldByStage, OwnedByPlace, lifeVars
<1>10. CASE TakePacket(c)
  <2>1. out' \in [Callers -> Halves \cup {Nothing}]
    <3>1. PICK r \in {Nothing, pkt[c][1]} : out' = [out EXCEPT ![c] = r]
      BY <1>10 DEF TakePacket
    <3>2. pkt[c] # <<>>
      BY <1>10 DEF TakePacket, Goes, OwnedByPlace
    <3>3. pkt[c][1] \in Halves
      BY <3>2 DEF TypeOK
    <3> QED
      BY <3>1, <3>3 DEF TypeOK
  <2> QED
    BY <1>10, <2>1 DEF TakePacket, Goes, TypeOK, HeldByStage, OwnedByPlace, lifeVars, mppVars
<1>11. CASE FrameDeinit(c)
  BY <1>11 DEF FrameDeinit, Goes, TypeOK, HeldByStage, OwnedByPlace, lifeVars, mppVars
<1> QED
  BY <1>1, <1>2, <1>3, <1>4, <1>5, <1>6, <1>7, <1>8, <1>9, <1>10, <1>11 DEF Encode

(* Every step keeps the ledger.                                            *)
LEMMA LedgerStep == Ledger /\ [Next]_vars => Ledger'
<1> SUFFICES ASSUME Ledger, [Next]_vars PROVE Ledger'
  OBVIOUS
<1>1. CASE Create \/ OwnerDestroys
  BY <1>1, CreateStep
<1>2. CASE Hardware
  BY <1>2, HardwareStep
<1>3. CASE UNCHANGED vars
  BY <1>3 DEF vars, lifeVars, mppVars, callVars, Ledger, TypeOK, HeldByStage,
              OwnedByPlace, Halves
<1>4. ASSUME NEW c \in Callers, Encode(c) \/ \E img \in Images : Call(c, img)
      PROVE  Ledger'
  BY <1>4, EncodeStep
<1> QED
  BY <1>1, <1>2, <1>3, <1>4 DEF Next, Ended

THEOREM LedgerCorrect == Spec => []Ledger
  BY InitLedger, LedgerStep, PTL DEF Spec

(* The variables keep their types, and MPP never holds more frames than it *)
(* accepts, for any number of callers.                                     *)
THEOREM TypeCorrect == Spec => []TypeOK
<1>1. Ledger => TypeOK
  BY DEF Ledger
<1> QED
  BY <1>1, LedgerCorrect, PTL

(* Whichever call of create fails, and however encode ends, every handle,  *)
(* frame and packet is given back.                                         *)
THEOREM NothingLeaksCorrect == Spec => []NothingLeaks
<1>1. Ledger => NothingLeaks
  BY DEF Ledger, HeldByStage, OwnedByPlace, NothingLeaks
<1> QED
  BY <1>1, LedgerCorrect, PTL

(* No caller is in encode before create has ended or after destroy.        *)
THEOREM HandlesLiveCorrect == Spec => []HandlesLive
<1>1. Ledger => HandlesLive
  BY DEF Ledger, HeldByStage, OwnedByPlace, HandlesLive
<1> QED
  BY <1>1, LedgerCorrect, PTL

--------------------------------------------------------------------------------
(* One caller, and an encode_get_packet that waits for its result: what    *)
(* is in the input buffer, in MPP and in the caller's hands belongs to the *)
(* call in progress.                                                       *)
SoleCaller == \A c, d \in Callers : c = d

OwnOnly ==
  /\ (\A c \in Callers : pc[c] # "get") => pending = 0 /\ results = <<>>
  /\ \A c \in Callers :
       /\ pc[c] = "get" =>
            \/ pending = 1 /\ results = <<>>
            \/ /\ pending = 0
               /\ \E r \in {<<input[c], input[c]>>, Nothing} : results = <<r>>
       /\ pc[c] = "copy" => in_ptr[1] = input[c]
       /\ pc[c] \in {"frame", "put", "get"} => in_ptr = <<input[c], input[c]>>
       /\ pc[c] = "take" => pkt[c] = <<<<input[c], input[c]>>>>
       /\ pc[c] \notin {"idle", "deinit"} => out[c] = Nothing
       /\ pc[c] = "deinit" => out[c] \in {<<input[c], input[c]>>, Nothing}

(* Sequences of at most one result.                                        *)
LEMMA OneResult ==
  ASSUME NEW x
  PROVE  /\ Append(<<>>, x) = <<x>>
         /\ Head(<<x>>) = x
         /\ Tail(<<x>>) = <<>>
         /\ <<x>> # <<>>
         /\ <<x>>[1] = x
  OBVIOUS

(* Steps that keep MPP and the places of the callers keep OwnOnly.         *)
LEMMA OwnOnlyStep ==
  ASSUME SoleCaller, GetMayGiveUp = FALSE, Ledger, OwnOnly, [Next]_vars
  PROVE  OwnOnly'
<1> USE DEF Ledger
<1>1. CASE Create \/ OwnerDestroys \/ UNCHANGED vars
  <2>1. UNCHANGED <<callVars, mppVars>>
    BY <1>1
    DEF Create, OwnerDestroys, Destroy, EnsureApi, Calloc, MppCreate,
        MppInit, CfgInit, Configure,
        GroupGet, BufferGet, BufferPtr, CreateFails, Acquire, Check, vars
  <2> QED
    BY <2>1 DEF OwnOnly, callVars, mppVars
<1>2. CASE Hardware
  <2>1. PICK r \in {in_ptr, Nothing} : results' = Append(results, r)
    BY <1>2 DEF Hardware
  <2>2. PICK c \in Callers : pc[c] = "get"
    BY <1>2 DEF Hardware, OwnOnly
  <2>3. pending = 1 /\ results = <<>> /\ in_ptr = <<input[c], input[c]>>
    BY <1>2, <2>2 DEF Hardware, OwnOnly
  <2>4. pending' = 0 /\ results' = <<r>>
    BY <1>2, <2>1, <2>3, OneResult DEF Hardware
  <2>5. UNCHANGED <<pc, input, pkt, out, in_ptr>>
    BY <1>2 DEF Hardware, callVars
  <2>6. \A d \in Callers : d = c
    BY DEF SoleCaller
  <2> QED
    BY <2>1, <2>2, <2>3, <2>4, <2>5, <2>6 DEF OwnOnly
<1>3. ASSUME NEW c \in Callers, NEW img \in Images, Call(c, img)
      PROVE  OwnOnly'
  BY <1>3 DEF Call, Goes, TypeOK, OwnOnly, SoleCaller, mppVars
<1>4. ASSUME NEW c \in Callers, Encode(c)
      PROVE  OwnOnly'
  <2>0. \A d \in Callers : d = c
    BY DEF SoleCaller
  <2> USE <2>0 DEF Goes, TypeOK, OwnOnly, Halves
  <2>1. CASE TooShort(c)
    BY <2>1 DEF TooShort, mppVars
  <2>2. CASE CopyFirst(c)
    BY <2>2 DEF CopyFirst
  <2>3. CASE CopyRest(c)
    <3>1. in_ptr' = <<input[c], input[c]>>
      BY <2>3 DEF CopyRest
    <3> QED
      BY <2>3, <3>1 DEF CopyRest
  <2>4. CASE FrameInit(c)
    BY <2>4 DEF FrameInit, mppVars
  <2>5. CASE PutFrame(c)
    BY <2>5 DEF PutFrame
  <2>6. CASE PutFails(c)
    BY <2>6 DEF PutFails, mppVars
  <2>7. CASE GetPacket(c)
    BY <2>7, OneResult DEF GetPacket
  <2>8. CASE GetFails(c)
    BY <2>8, OneResult, GetMayGiveUp = FALSE DEF GetFails
  <2>9. CASE TakePacket(c)
    BY <2>9, OneResult DEF TakePacket, mppVars
  <2>10. CASE FrameDeinit(c)
    BY <2>10 DEF FrameDeinit, mppVars
  <2> QED
    BY <1>4, <2>1, <2>2, <2>3, <2>4, <2>5, <2>6, <2>7, <2>8, <2>9, <2>10 DEF Encode
<1> QED
  BY <1>1, <1>2, <1>3, <1>4 DEF Next, Ended

LEMMA OwnOnlyCorrect ==
  ASSUME SoleCaller, GetMayGiveUp = FALSE
  PROVE  Spec => [](Ledger /\ OwnOnly)
<1>1. Init => OwnOnly
  BY DEF Init, OwnOnly
<1>2. Ledger /\ OwnOnly /\ [Next]_vars => OwnOnly'
  BY OwnOnlyStep
<1> QED
  BY <1>1, <1>2, InitLedger, LedgerStep, PTL DEF Spec

(* Between two calls MPP holds nothing of the earlier one, if there is one *)
(* caller and encode_get_packet waits for its result.                      *)
THEOREM QuietCorrect ==
  ASSUME SoleCaller, GetMayGiveUp = FALSE
  PROVE  Spec => []QuietBetweenCalls
<1>1. OwnOnly => QuietBetweenCalls
  BY DEF OwnOnly, QuietBetweenCalls
<1> QED
  BY <1>1, OwnOnlyCorrect, PTL

(* Under the same conditions a frame is not overwritten before MPP has     *)
(* encoded it.                                                             *)
THEOREM StableCorrect ==
  ASSUME SoleCaller, GetMayGiveUp = FALSE
  PROVE  Spec => []InputStable
<1>1. OwnOnly => InputStable
  <2> SUFFICES ASSUME OwnOnly, pending > 0, NEW d \in Callers
               PROVE  pc[d] # "copy"
    BY DEF InputStable
  <2>1. PICK c \in Callers : pc[c] = "get"
    BY DEF OwnOnly
  <2>2. d = c
    BY DEF SoleCaller
  <2> QED
    BY <2>1, <2>2
<1> QED
  BY <1>1, OwnOnlyCorrect, PTL

--------------------------------------------------------------------------------
(* The refinement: a call of encode is visible when it begins and when it  *)
(* returns.                                                                *)
LEMMA RefineInit == Init => Encoder!Init
  BY DEF Init, Encoder!Init

LEMMA RefineStep ==
  Ledger /\ OwnOnly /\ [Next]_vars => [Encoder!Next]_(Encoder!vars)
<1> SUFFICES ASSUME Ledger, OwnOnly, [Next]_vars
             PROVE  [Encoder!Next]_(Encoder!vars)
  OBVIOUS
<1> USE DEF Ledger, TypeOK
<1>1. ASSUME UNCHANGED <<pc, input, out>> PROVE UNCHANGED Encoder!vars
  BY <1>1 DEF Encoder!vars
<1>2. CASE Create \/ OwnerDestroys \/ Hardware \/ UNCHANGED vars
  <2>1. UNCHANGED <<pc, input, out>>
    BY <1>2
    DEF Create, OwnerDestroys, Destroy, EnsureApi, Calloc, MppCreate,
        MppInit, CfgInit, Configure,
        GroupGet, BufferGet, BufferPtr, CreateFails, Acquire, Check, Hardware, vars,
        callVars
  <2> QED
    BY <1>1, <2>1
<1>3. ASSUME NEW c \in Callers, NEW img \in Images, Call(c, img)
      PROVE  Encoder!Next
  <2>1. Encoder!Call(c, img)
    BY <1>3 DEF Call, Goes, Encoder!Call
  <2> QED
    BY <2>1 DEF Encoder!Next
<1>4. ASSUME NEW c \in Callers, Encode(c)
      PROVE  [Encoder!Next]_(Encoder!vars)
  <2>1. CASE TooShort(c) \/ FrameDeinit(c)
    <3>1. out[c] \in {Nothing, <<input[c], input[c]>>}
      BY <2>1 DEF TooShort, FrameDeinit, Goes, OwnOnly
    <3>2. Encoder!Return(c)
      BY <2>1, <3>1 DEF TooShort, FrameDeinit, Goes, Encoder!Return, Encoder!Jpeg
    <3> QED
      BY <3>2 DEF Encoder!Next
  <2>2. CASE ~(TooShort(c) \/ FrameDeinit(c))
    <3>1. /\ UNCHANGED input
          /\ \A d \in Callers : pc'[d] = "idle" <=> pc[d] = "idle"
          /\ \A d \in Callers : pc[d] = "idle" => out'[d] = out[d]
      BY <1>4, <2>2
      DEF Encode, CopyFirst, CopyRest, FrameInit, PutFrame, PutFails, GetPacket,
          GetFails, TakePacket, Goes, mppVars
    <3> QED
      BY <3>1 DEF Encoder!vars
  <2> QED
    BY <2>1, <2>2
<1> QED
  BY <1>2, <1>3, <1>4 DEF Next, Ended

(* With a sole caller, as in this program, and an encode_get_packet that   *)
(* waits for its result, encode returns the JPEG of the image it was given *)
(* or nothing, for any images.                                             *)
THEOREM SoleCallerGetsOwnJpeg ==
  ASSUME SoleCaller, GetMayGiveUp = FALSE
  PROVE  Spec => IsJpegEncoder
  BY RefineInit, RefineStep, OwnOnlyCorrect, PTL
  DEF Spec, IsJpegEncoder, Encoder!Spec
================================================================================
