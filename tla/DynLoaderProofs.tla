---------------------------- MODULE DynLoaderProofs ----------------------------
(***************************************************************************)
(* DynLoader for any libraries, symbols and numbers of candidates, and     *)
(* whoever calls ensure.                                                   *)
(***************************************************************************)
EXTENDS DynLoader, TLAPS

AllSymbols == UNION {Symbols[lib] : lib \in Libs}

Apis == [attempted : BOOLEAN, ready : BOOLEAN, handle : Nat, table : SUBSET AllSymbols]

(* The variables are functions over the libraries, of records and sets.    *)
Shape ==
  /\ api \in [Libs -> Apis]
  /\ loading \in [Libs -> {"no", "dlopen", "dlsym", "check"}]
  /\ tried \in [Libs -> 0 .. Candidates]
  /\ open \in [Libs -> SUBSET (1 .. Candidates)]
  /\ answer \in [Libs -> {"none", "ready", "absent"}]

(* What is known of a library while nobody is in ensure: the answer given  *)
(* is what the two flags will answer, and what is open is accounted for.   *)
AtRest(lib) ==
  /\ answer[lib] = "ready" <=> api[lib].ready
  /\ answer[lib] = "none" <=> ~api[lib].attempted
  /\ api[lib].ready => /\ open[lib] = {api[lib].handle}
                       /\ api[lib].table = Symbols[lib]
  /\ ~api[lib].ready => open[lib] = {} /\ api[lib].table = {}

(* What is known during the first call, the only one that loads: there has *)
(* been no answer, and the library is open exactly since dlopen.           *)
InFirstCall(lib) ==
  /\ answer[lib] = "none"
  /\ api[lib].attempted /\ ~api[lib].ready
  /\ loading[lib] = "dlopen" => open[lib] = {} /\ api[lib].table = {}
  /\ loading[lib] # "dlopen" => open[lib] = {tried[lib]} /\ tried[lib] \in 1 .. Candidates

Known(lib) == IF loading[lib] = "no" THEN AtRest(lib) ELSE InFirstCall(lib)

(* The tables stay within the symbols of their library, the handles within *)
(* the candidates.                                                         *)
Bounded(lib) ==
  /\ api[lib].table \subseteq Symbols[lib]
  /\ api[lib].handle \in 0 .. Candidates

LoaderInv == Shape /\ \A lib \in Libs : Known(lib) /\ Bounded(lib)

--------------------------------------------------------------------------------
LEMMA SymbolsAreSymbols ==
  ASSUME NEW lib \in Libs PROVE Symbols[lib] \subseteq AllSymbols
  BY DEF AllSymbols

LEMMA InitLoaderInv == LoaderInit => LoaderInv
  BY LoaderAssumption
  DEF LoaderInit, LoaderInv, Shape, Apis, Known, AtRest, InFirstCall, Bounded, Zero

(* A step keeps the shape of the variables.                                *)
LEMMA ShapeStep ==
  ASSUME Shape, NEW lib \in Libs, Bounded(lib), Ensure(lib)
  PROVE  Shape'
<1> USE LoaderAssumption, SymbolsAreSymbols DEF Shape, Return
<1>1. CASE AlreadyReady(lib) BY <1>1 DEF AlreadyReady
<1>2. CASE AlreadyAttempted(lib) BY <1>2 DEF AlreadyAttempted
<1>3. CASE FirstCall(lib)
  <2>1. [api[lib] EXCEPT !.attempted = TRUE] \in Apis
    BY DEF Apis
  <2>2. api' = [api EXCEPT ![lib] = [api[lib] EXCEPT !.attempted = TRUE]]
    BY <1>3 DEF FirstCall
  <2>3. api' \in [Libs -> Apis]
    BY <2>1, <2>2
  <2> QED
    BY <1>3, <2>3 DEF FirstCall
<1>4. CASE OpenNext(lib) BY <1>4 DEF OpenNext
<1>5. CASE NoCandidate(lib) BY <1>5 DEF NoCandidate
<1>6. CASE LoadSymbols(lib) BY <1>6 DEF LoadSymbols, Apis
<1>7. CASE SymbolsComplete(lib)
  <2>1. [api[lib] EXCEPT !.handle = tried[lib], !.ready = TRUE] \in Apis
    <3>1. api[lib] \in Apis /\ tried[lib] \in Nat
      OBVIOUS
    <3>2. ASSUME NEW r \in Apis, NEW h \in Nat
          PROVE  [r EXCEPT !.handle = h, !.ready = TRUE] \in Apis
      BY DEF Apis
    <3> QED
      BY <3>1, <3>2
  <2>2. api' = [api EXCEPT ![lib] = [api[lib] EXCEPT !.handle = tried[lib],
                                                     !.ready = TRUE]]
    BY <1>7 DEF SymbolsComplete
  <2>3. api' \in [Libs -> Apis]
    BY <2>1, <2>2
  <2> QED
    BY <1>7, <2>3 DEF SymbolsComplete
<1>8. CASE SymbolsMissing(lib) BY <1>8 DEF SymbolsMissing, Zero, Apis
<1> QED
  BY <1>1, <1>2, <1>3, <1>4, <1>5, <1>6, <1>7, <1>8 DEF Ensure

(* A step for one library changes nothing of another.                      *)
LEMMA OthersUntouched ==
  ASSUME Shape, NEW lib \in Libs, Ensure(lib), NEW l \in Libs \ {lib}
  PROVE  /\ api'[l] = api[l] /\ loading'[l] = loading[l] /\ tried'[l] = tried[l]
         /\ open'[l] = open[l] /\ answer'[l] = answer[l]
  BY DEF Shape, Ensure, Return, AlreadyReady, AlreadyAttempted, FirstCall, OpenNext,
         NoCandidate, LoadSymbols, SymbolsComplete, SymbolsMissing

(* What a step does to the library it is for.                              *)
LEMMA KnownStep ==
  ASSUME Shape, NEW lib \in Libs, Known(lib), Bounded(lib), Ensure(lib)
  PROVE  Known(lib)' /\ Bounded(lib)'
<1> USE LoaderAssumption DEF Shape, Apis, Known, AtRest, InFirstCall, Bounded, Return
<1>1. CASE AlreadyReady(lib) BY <1>1 DEF AlreadyReady
<1>2. CASE AlreadyAttempted(lib) BY <1>2 DEF AlreadyAttempted
<1>3. CASE FirstCall(lib) BY <1>3 DEF FirstCall
<1>4. CASE OpenNext(lib) BY <1>4 DEF OpenNext
<1>5. CASE NoCandidate(lib) BY <1>5 DEF NoCandidate
<1>6. CASE LoadSymbols(lib) BY <1>6 DEF LoadSymbols
<1>7. CASE SymbolsComplete(lib) BY <1>7 DEF SymbolsComplete
<1>8. CASE SymbolsMissing(lib) BY <1>8 DEF SymbolsMissing, Zero
<1> QED
  BY <1>1, <1>2, <1>3, <1>4, <1>5, <1>6, <1>7, <1>8 DEF Ensure

(* The invariant is kept by every step of any call.                        *)
LEMMA LoaderInvStep == LoaderInv /\ [LoaderNext]_loaderVars => LoaderInv'
<1> SUFFICES ASSUME LoaderInv, [LoaderNext]_loaderVars PROVE LoaderInv'
  OBVIOUS
<1>1. ASSUME NEW lib \in Libs, Ensure(lib) PROVE LoaderInv'
  <2>1. Shape'
    BY <1>1, ShapeStep DEF LoaderInv
  <2>2. ASSUME NEW l \in Libs PROVE Known(l)' /\ Bounded(l)'
    <3>1. CASE l = lib
      BY <1>1, <3>1, KnownStep DEF LoaderInv
    <3>2. CASE l # lib
      <4>1. /\ api'[l] = api[l] /\ loading'[l] = loading[l] /\ tried'[l] = tried[l]
            /\ open'[l] = open[l] /\ answer'[l] = answer[l]
        BY <1>1, <3>2, OthersUntouched DEF LoaderInv
      <4> QED
        BY <4>1 DEF LoaderInv, Known, AtRest, InFirstCall, Bounded
    <3> QED
      BY <3>1, <3>2
  <2> QED
    BY <2>1, <2>2 DEF LoaderInv
<1>2. CASE UNCHANGED loaderVars
  BY <1>2 DEF loaderVars, LoaderInv, Shape, Known, AtRest, InFirstCall, Bounded
<1> QED
  BY <1>1, <1>2 DEF LoaderNext

(* A library that has had an answer is at rest and keeps the flags that    *)
(* gave it, so that every later call gives the same.                       *)
LEMMA AnswerStep ==
  ASSUME LoaderInv, [LoaderNext]_loaderVars, NEW lib \in Libs, answer[lib] # "none"
  PROVE  answer'[lib] = answer[lib]
<1>1. ASSUME NEW l \in Libs, Ensure(l) PROVE answer'[lib] = answer[lib]
  <2>1. CASE l # lib
    BY <1>1, <2>1, OthersUntouched DEF LoaderInv
  <2>2. CASE l = lib
    <3> USE <2>2 DEF LoaderInv, Shape
    <3>1. loading[lib] = "no" /\ AtRest(lib)
      BY DEF Known, InFirstCall
    <3>2. AlreadyReady(lib) \/ AlreadyAttempted(lib)
      BY <1>1, <3>1 DEF Ensure, AtRest, FirstCall, OpenNext, NoCandidate,
                        LoadSymbols, SymbolsComplete, SymbolsMissing
    <3> QED
      BY <3>1, <3>2 DEF AtRest, AlreadyReady, AlreadyAttempted, Return
  <2> QED
    BY <2>1, <2>2
<1>2. CASE UNCHANGED loaderVars
  BY <1>2 DEF loaderVars
<1> QED
  BY <1>1, <1>2 DEF LoaderNext

--------------------------------------------------------------------------------
(* The inductive invariant of the loader: what the flags, the table, the   *)
(* open library and the answer know of each other at every place.          *)
THEOREM LoaderInvariant == LoaderSpec => []LoaderInv
  BY InitLoaderInv, LoaderInvStep, PTL DEF LoaderSpec

(* The variables keep their types; no candidate behind the last is tried.  *)
THEOREM LoaderTypeCorrect == LoaderSpec => []LoaderTypeOK
<1>1. LoaderInv => LoaderTypeOK
  BY DEF LoaderInv, Shape, Apis, Bounded, LoaderTypeOK
<1> QED
  BY <1>1, LoaderInvariant, PTL

(* No library stays open that is not ready, and one that is ready has all  *)
(* of its functions.                                                       *)
THEOREM LibrariesCorrect == LoaderSpec => []LibrariesAccounted
<1>1. LoaderInv => LibrariesAccounted
  BY DEF LoaderInv, Known, AtRest, LibrariesAccounted
<1> QED
  BY <1>1, LoaderInvariant, PTL

(* ensure gives one answer for the whole run.                              *)
THEOREM AnswerCorrect == LoaderSpec => AnswerIsFinal
<1>1. LoaderInv /\ [LoaderNext]_loaderVars
        => [\A lib \in Libs : answer[lib] # "none" => answer'[lib] = answer[lib]]_answer
  BY AnswerStep
<1> QED
  BY <1>1, LoaderInvariant, PTL DEF LoaderSpec, AnswerIsFinal
================================================================================
