------------------------------ MODULE BoundedSlot ------------------------------
(***************************************************************************)
(* struct BoundedSlot of src/src/main.cpp: a slot for one FrameBuffer,     *)
(* guarded by one std::mutex and one std::condition_variable.              *)
(*                                                                         *)
(* The three methods are modelled at the grain of their synchronisation:   *)
(* taking the mutex, testing the wait predicate, going to sleep (which     *)
(* releases the mutex atomically), changing the state, notify_all, and the *)
(* release of the mutex by the destructor of lk.  A sleeping thread may    *)
(* wake up without a notification.                                         *)
(*                                                                         *)
(* The module allows its most general client: a thread that is in no       *)
(* method may call any of them.                                            *)
(***************************************************************************)
EXTENDS Naturals, Sequences

CONSTANTS
  Threads,    (* the threads that share the slot                           *)
  Frames,     (* the values a FrameBuffer can have                         *)
  NoFrame,    (* std::nullopt, or a FrameBuffer that was moved from        *)
  Nobody      (* the owner of a mutex that is free                         *)

ASSUME SlotAssumption ==
  /\ NoFrame \notin Frames
  /\ Nobody \notin Threads

VARIABLES
  mtx,        (* the owner of the mutex                                    *)
  item,       (* the std::optional<FrameBuffer>                            *)
  closed,     (* the flag set by close()                                   *)
  pc,         (* per thread: where it is in a method, "idle" outside       *)
  op,         (* per thread: the method it called last                     *)
  fb,         (* per thread: the FrameBuffer it passes by reference        *)
  ret         (* per thread: what its last call returns                    *)

vars == <<mtx, item, closed, pc, op, fb, ret>>

Init ==
  /\ mtx = Nobody
  /\ item = NoFrame
  /\ closed = FALSE
  /\ pc = [t \in Threads |-> "idle"]
  /\ op = [t \in Threads |-> "close"]
  /\ fb = [t \in Threads |-> NoFrame]
  /\ ret = [t \in Threads |-> TRUE]

--------------------------------------------------------------------------------
(* Calling a method: the caller passes fb0 and next has to take the mutex. *)
Call(t, o, fb0) ==
  /\ pc[t] = "idle"
  /\ pc' = [pc EXCEPT ![t] = "lock"]
  /\ op' = [op EXCEPT ![t] = o]
  /\ fb' = [fb EXCEPT ![t] = fb0]
  /\ UNCHANGED <<mtx, item, closed, ret>>

CallPush(t, f) == Call(t, "push", f)
CallPop(t)     == Call(t, "pop", fb[t])
CallClose(t)   == Call(t, "close", fb[t])

(* A mistake to be caught: a method that does not take the mutex.          *)
LockNotTaken(t) ==
  /\ pc[t] = "lock"
  /\ mtx' = t
  /\ pc' = [pc EXCEPT ![t] = "test"]
  /\ UNCHANGED <<item, closed, op, fb, ret>>

(* std::unique_lock lk(mtx), and the re-acquisition inside cv.wait.        *)
Lock(t) ==
  /\ pc[t] = "lock"
  /\ mtx = Nobody
  /\ mtx' = t
  /\ pc' = [pc EXCEPT ![t] = "test"]
  /\ UNCHANGED <<item, closed, op, fb, ret>>

(* A mistake to be caught: pop waits for a frame only and ignores closed.  *)
ReadyPopIgnoresClosed(t) ==
  \/ op[t] = "close"
  \/ op[t] = "push" /\ (item = NoFrame \/ closed)
  \/ op[t] = "pop" /\ item # NoFrame

(* A mistake to be caught: push does not wait for the slot to be empty.    *)
ReadyPushOverwrites(t) ==
  \/ op[t] \in {"close", "push"}
  \/ op[t] = "pop" /\ (item # NoFrame \/ closed)

(* The predicates push and pop hand to cv.wait; close does not wait.       *)
Ready(t) ==
  \/ op[t] = "close"
  \/ op[t] = "push" /\ (item = NoFrame \/ closed)
  \/ op[t] = "pop" /\ (item # NoFrame \/ closed)

(* The predicate is false: cv.wait releases the mutex and sleeps.          *)
Block(t) ==
  /\ pc[t] = "test"
  /\ ~Ready(t)
  /\ mtx' = Nobody
  /\ pc' = [pc EXCEPT ![t] = "blocked"]
  /\ UNCHANGED <<item, closed, op, fb, ret>>

(* A wake-up nobody asked for, which std::condition_variable allows.       *)
SpuriousWake(t) ==
  /\ pc[t] = "blocked"
  /\ pc' = [pc EXCEPT ![t] = "lock"]
  /\ UNCHANGED <<mtx, item, closed, op, fb, ret>>

(* The method o has passed its wait, and goes on to the step named next.   *)
Proceed(t, o, next, r) ==
  /\ pc[t] = "test"
  /\ op[t] = o
  /\ Ready(t)
  /\ pc' = [pc EXCEPT ![t] = next]
  /\ ret' = [ret EXCEPT ![t] = r]
  /\ UNCHANGED <<mtx, op>>

PushRefused(t) ==
  /\ Proceed(t, "push", "unlock", FALSE)
  /\ closed
  /\ UNCHANGED <<item, closed, fb>>

(* A mistake to be caught: push forgets to test closed after its wait.     *)
PushStoreEvenIfClosed(t) ==
  /\ Proceed(t, "push", "notify", TRUE)
  /\ item' = fb[t]
  /\ fb' = [fb EXCEPT ![t] = NoFrame]
  /\ UNCHANGED closed

(* A mistake to be caught: push ends without a return statement, and the   *)
(* caller reads a value that is no bool.                                   *)
PushStoreNoReturn(t) ==
  /\ pc[t] = "test" /\ op[t] = "push" /\ Ready(t)
  /\ pc' = [pc EXCEPT ![t] = "notify"]
  /\ ret' = [ret EXCEPT ![t] = NoFrame]
  /\ ~closed
  /\ item' = fb[t]
  /\ fb' = [fb EXCEPT ![t] = NoFrame]
  /\ UNCHANGED <<mtx, op, closed>>

PushStore(t) ==
  /\ Proceed(t, "push", "notify", TRUE)
  /\ ~closed
  /\ item' = fb[t]
  /\ fb' = [fb EXCEPT ![t] = NoFrame]
  /\ UNCHANGED closed

(* A mistake to be caught: pop tests closed before it tests the item.      *)
PopEmptyWhenClosed(t) ==
  /\ Proceed(t, "pop", "unlock", FALSE)
  /\ item = NoFrame \/ closed
  /\ UNCHANGED <<item, closed, fb>>

PopEmpty(t) ==
  /\ Proceed(t, "pop", "unlock", FALSE)
  /\ item = NoFrame
  /\ UNCHANGED <<item, closed, fb>>

(* A mistake to be caught: the moved-from optional is never reset.         *)
PopTakeNoReset(t) ==
  /\ Proceed(t, "pop", "notify", TRUE)
  /\ item # NoFrame
  /\ fb' = [fb EXCEPT ![t] = item]
  /\ UNCHANGED <<item, closed>>

PopTake(t) ==
  /\ Proceed(t, "pop", "notify", TRUE)
  /\ item # NoFrame
  /\ fb' = [fb EXCEPT ![t] = item]
  /\ item' = NoFrame
  /\ UNCHANGED closed

CloseSet(t) ==
  /\ Proceed(t, "close", "notify", TRUE)
  /\ closed' = TRUE
  /\ UNCHANGED <<item, fb>>

(* A mistake to be caught: notify_one, which wakes one sleeper at most.    *)
NotifyOne(t) ==
  /\ pc[t] = "notify"
  /\ \/ /\ \A u \in Threads : pc[u] # "blocked"
        /\ pc' = [pc EXCEPT ![t] = "unlock"]
     \/ \E u \in Threads : /\ pc[u] = "blocked"
                           /\ pc' = [pc EXCEPT ![t] = "unlock", ![u] = "lock"]
  /\ UNCHANGED <<mtx, item, closed, op, fb, ret>>

(* cv.notify_all() with the mutex held: every sleeper has to take it again. *)
NotifyAll(t) ==
  /\ pc[t] = "notify"
  /\ pc' = [u \in Threads |-> IF u = t THEN "unlock"
                              ELSE IF pc[u] = "blocked" THEN "lock"
                              ELSE pc[u]]
  /\ UNCHANGED <<mtx, item, closed, op, fb, ret>>

(* lk goes out of scope and the method returns.                            *)
Unlock(t) ==
  /\ pc[t] = "unlock"
  /\ mtx' = Nobody
  /\ pc' = [pc EXCEPT ![t] = "idle"]
  /\ UNCHANGED <<item, closed, op, fb, ret>>

(* What thread t does inside a method by itself.                           *)
Step(t) ==
  \/ Lock(t)
  \/ Block(t)
  \/ PushRefused(t)
  \/ PushStore(t)
  \/ PopEmpty(t)
  \/ PopTake(t)
  \/ CloseSet(t)
  \/ NotifyAll(t)
  \/ Unlock(t)

Next ==
  \E t \in Threads :
    \/ \E f \in Frames : CallPush(t, f)
    \/ CallPop(t)
    \/ CallClose(t)
    \/ Step(t)
    \/ SpuriousWake(t)

Spec == Init /\ [][Next]_vars

--------------------------------------------------------------------------------
(* Every variable has its type: the locals of the calls and the members of *)
(* the struct.                                                             *)
TypeOK ==
  /\ mtx \in Threads \cup {Nobody}
  /\ item \in Frames \cup {NoFrame}
  /\ closed \in BOOLEAN
  /\ pc \in [Threads -> {"idle", "lock", "test", "blocked", "notify", "unlock"}]
  /\ op \in [Threads -> {"push", "pop", "close"}]
  /\ fb \in [Threads -> Frames \cup {NoFrame}]
  /\ ret \in [Threads -> BOOLEAN]

InCriticalSection(t) == pc[t] \in {"test", "notify", "unlock"}

(* item and closed are only touched by the owner of the mutex, and a       *)
(* thread that sleeps in cv.wait, or is outside the methods, owns nothing. *)
MutualExclusion ==
  \A t \in Threads : InCriticalSection(t) <=> mtx = t

(* No wake-up is lost: a thread asleep in cv.wait whose predicate has      *)
(* become true is about to be woken, because the thread that made it true  *)
(* still holds the mutex and stands right before its notify_all.           *)
NoLostWakeup ==
  \A t \in Threads :
    pc[t] = "blocked" /\ Ready(t) =>
      \E u \in Threads : mtx = u /\ pc[u] = "notify"

(* Once a pop has reported the end, it is the end: pop does so only when   *)
(* the slot is closed and empty, and from then on nothing enters it, so    *)
(* that process_th may exit.                                               *)
Drained == closed /\ item = NoFrame

EndIsFinal ==
  [][/\ Drained => Drained'
     /\ \A t \in Threads :
          op[t] = "pop" /\ pc[t] = "test" /\ pc'[t] = "unlock" => Drained'
    ]_vars

(* A push in progress still owns the frame it was given, until it has      *)
(* stored it: std::move happens once, under the mutex.                     *)
PusherHoldsFrame ==
  \A t \in Threads :
    op[t] = "push" /\ pc[t] \in {"lock", "test", "blocked"} => fb[t] \in Frames

(* The conjunction that every step preserves.                              *)
IndInv ==
  /\ TypeOK
  /\ MutualExclusion
  /\ NoLostWakeup
  /\ PusherHoldsFrame

--------------------------------------------------------------------------------
(* The slot implements the atomic channel of capacity 1: a call takes      *)
(* effect when its critical section changes or inspects the state.         *)
Phase(t) ==
  IF pc[t] = "idle" THEN "idle"
  ELSE IF pc[t] \in {"notify", "unlock"} THEN "done"
  ELSE "pending"

Channel == INSTANCE SyncChannel WITH
  queue    <- IF item = NoFrame THEN <<>> ELSE <<item>>,
  phase    <- [t \in Threads |-> Phase(t)],
  Capacity <- 1

(* push, pop and close behave as the operations of a closable channel of   *)
(* capacity 1, whatever the interleaving: nothing is lost, duplicated or   *)
(* overwritten, nothing enters after close, and pop reports the end only   *)
(* when the slot is closed and drained.                                    *)
IsSyncChannel == Channel!Spec
================================================================================
