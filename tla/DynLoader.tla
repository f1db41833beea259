------------------------------- MODULE DynLoader -------------------------------
(***************************************************************************)
(* ensure_rga_api and ensure_mpp_api of src/hw_shim.c, which are the same  *)
(* code over g_rga and g_mpp: the library is loaded at the first call and  *)
(* never again, whether that has worked or not.                            *)
(*                                                                         *)
(* The code has no lock.  Calls for one library that overlapped would be a *)
(* data race; that the callers of this program do not is for the module    *)
(* that composes to show.                                                  *)
(***************************************************************************)
EXTENDS Naturals

CONSTANTS
  Libs,        (* the libraries                                            *)
  Symbols,     (* per library: the functions looked up in it               *)
  Candidates   (* how many file names dlopen is tried with                 *)

ASSUME LoaderAssumption ==
  /\ DOMAIN Symbols = Libs
  /\ Candidates \in Nat

VARIABLES
  api,      (* per library: struct RgaDynApi, struct MppDynApi             *)
  loading,  (* per library: where ensure is, "no" outside                  *)
  tried,    (* per library: how many candidates dlopen has been given      *)
  open,     (* per library: the candidates dlopen opened, until dlclose    *)
  answer    (* per library: what ensure returned last                      *)

loaderVars == <<api, loading, tried, open, answer>>

(* The global variables before main, and after memset.                     *)
Zero == [attempted |-> FALSE, ready |-> FALSE, handle |-> 0, table |-> {}]

LoaderInit ==
  /\ api = [lib \in Libs |-> Zero]
  /\ loading = [lib \in Libs |-> "no"]
  /\ tried = [lib \in Libs |-> 0]
  /\ open = [lib \in Libs |-> {}]
  /\ answer = [lib \in Libs |-> "none"]

--------------------------------------------------------------------------------
Return(lib, r) ==
  /\ loading' = [loading EXCEPT ![lib] = "no"]
  /\ answer' = [answer EXCEPT ![lib] = r]

(* The two tests at the beginning of ensure.                               *)
AlreadyReady(lib) ==
  /\ loading[lib] = "no"
  /\ api[lib].ready
  /\ Return(lib, "ready")
  /\ UNCHANGED <<api, tried, open>>

AlreadyAttempted(lib) ==
  /\ loading[lib] = "no"
  /\ ~api[lib].ready /\ api[lib].attempted
  /\ Return(lib, "absent")
  /\ UNCHANGED <<api, tried, open>>

FirstCall(lib) ==
  /\ loading[lib] = "no"
  /\ ~api[lib].ready /\ ~api[lib].attempted
  /\ api' = [api EXCEPT ![lib].attempted = TRUE]
  /\ loading' = [loading EXCEPT ![lib] = "dlopen"]
  /\ tried' = [tried EXCEPT ![lib] = 0]
  /\ UNCHANGED <<open, answer>>

(* A mistake to be caught: the candidates are not ended by a NULL.         *)
OpenNextRunsOn(lib) ==
  /\ loading[lib] = "dlopen"
  /\ tried[lib] <= Candidates
  /\ tried' = [tried EXCEPT ![lib] = @ + 1]
  /\ UNCHANGED <<api, loading, open, answer>>

(* open_first_library: dlopen of the next candidate, which may not exist.  *)
OpenNext(lib) ==
  /\ loading[lib] = "dlopen"
  /\ tried[lib] < Candidates
  /\ tried' = [tried EXCEPT ![lib] = @ + 1]
  /\ \/ /\ open' = [open EXCEPT ![lib] = @ \cup {tried[lib] + 1}]
        /\ loading' = [loading EXCEPT ![lib] = "dlsym"]
     \/ UNCHANGED <<open, loading>>
  /\ UNCHANGED <<api, answer>>

NoCandidate(lib) ==
  /\ loading[lib] = "dlopen"
  /\ tried[lib] = Candidates
  /\ Return(lib, "absent")
  /\ UNCHANGED <<api, tried, open>>

(* load_symbol for each of them; a library of another version lacks some.  *)
LoadSymbols(lib) ==
  /\ loading[lib] = "dlsym"
  /\ \E found \in SUBSET Symbols[lib] : api' = [api EXCEPT ![lib].table = found]
  /\ loading' = [loading EXCEPT ![lib] = "check"]
  /\ UNCHANGED <<tried, open, answer>>

(* A mistake to be caught: one function is enough.                         *)
AnySymbolWillDo(lib) ==
  /\ loading[lib] = "check"
  /\ api[lib].table # {}
  /\ api' = [api EXCEPT ![lib].handle = tried[lib], ![lib].ready = TRUE]
  /\ Return(lib, "ready")
  /\ UNCHANGED <<tried, open>>

SymbolsComplete(lib) ==
  /\ loading[lib] = "check"
  /\ api[lib].table = Symbols[lib]
  /\ api' = [api EXCEPT ![lib].handle = tried[lib], ![lib].ready = TRUE]
  /\ Return(lib, "ready")
  /\ UNCHANGED <<tried, open>>

(* Two mistakes to be caught: the memset also forgets the attempt, and the *)
(* library stays open.                                                     *)
AttemptForgotten(lib) ==
  /\ loading[lib] = "check"
  /\ api[lib].table # Symbols[lib]
  /\ open' = [open EXCEPT ![lib] = @ \ {tried[lib]}]
  /\ api' = [api EXCEPT ![lib] = Zero]
  /\ Return(lib, "absent")
  /\ UNCHANGED tried

LibraryLeftOpen(lib) ==
  /\ loading[lib] = "check"
  /\ api[lib].table # Symbols[lib]
  /\ api' = [api EXCEPT ![lib] = [Zero EXCEPT !.attempted = TRUE]]
  /\ Return(lib, "absent")
  /\ UNCHANGED <<tried, open>>

(* One function is missing: dlclose, and the table is emptied.             *)
SymbolsMissing(lib) ==
  /\ loading[lib] = "check"
  /\ api[lib].table # Symbols[lib]
  /\ open' = [open EXCEPT ![lib] = @ \ {tried[lib]}]
  /\ api' = [api EXCEPT ![lib] = [Zero EXCEPT !.attempted = TRUE]]
  /\ Return(lib, "absent")
  /\ UNCHANGED tried

(* A step of a call of ensure; the call has returned when loading is "no". *)
Ensure(lib) ==
  \/ AlreadyReady(lib) \/ AlreadyAttempted(lib) \/ FirstCall(lib)
  \/ OpenNext(lib) \/ NoCandidate(lib)
  \/ LoadSymbols(lib) \/ SymbolsComplete(lib) \/ SymbolsMissing(lib)

LoaderNext == \E lib \in Libs : Ensure(lib)

LoaderSpec == LoaderInit /\ [][LoaderNext]_loaderVars

--------------------------------------------------------------------------------
(* Every variable has its type; no candidate behind the last is tried.     *)
LoaderTypeOK ==
  /\ \A lib \in Libs :
       /\ api[lib].attempted \in BOOLEAN
       /\ api[lib].ready \in BOOLEAN
       /\ api[lib].handle \in 0 .. Candidates
       /\ api[lib].table \subseteq Symbols[lib]
       /\ tried[lib] \in 0 .. Candidates
       /\ open[lib] \subseteq 1 .. Candidates
  /\ loading \in [Libs -> {"no", "dlopen", "dlsym", "check"}]
  /\ answer \in [Libs -> {"none", "ready", "absent"}]

(* ensure gives one answer for the whole run.  rk_mpp_jpeg_destroy relies  *)
(* on it: it asks again, and would leak the encoder if the library that    *)
(* made it were no longer there.                                           *)
AnswerIsFinal ==
  [][\A lib \in Libs : answer[lib] # "none" => answer'[lib] = answer[lib]]_answer

(* Outside of ensure, a library is open exactly if it is ready, once, and  *)
(* by the handle that is kept; then every function pointer is set.         *)
LibrariesAccounted ==
  \A lib \in Libs : loading[lib] = "no" =>
    IF api[lib].ready
      THEN open[lib] = {api[lib].handle} /\ api[lib].table = Symbols[lib]
      ELSE open[lib] = {} /\ api[lib].table = {}
================================================================================
