--------------------------- MODULE BoundedSlotProofs ---------------------------
(***************************************************************************)
(* BoundedSlot for any number of threads and any set of frames: the        *)
(* inductive invariant, what follows from it, and the refinement of the    *)
(* atomic channel.                                                         *)
(***************************************************************************)
EXTENDS BoundedSlot, TLAPS

(* The initial state satisfies the invariant.                              *)
LEMMA InitIndInv == Init => IndInv
  BY SlotAssumption
  DEF Init, IndInv, TypeOK, MutualExclusion, NoLostWakeup, PusherHoldsFrame,
      InCriticalSection

(* A step keeps the types.  NotifyAll is apart: it rebuilds pc as a whole. *)
LEMMA TypeStep == TypeOK /\ [Next]_vars => TypeOK'
<1> SUFFICES ASSUME TypeOK, [Next]_vars PROVE TypeOK'
  OBVIOUS
<1> USE DEF TypeOK
<1>1. ASSUME NEW t \in Threads, NEW f \in Frames, CallPush(t, f) PROVE TypeOK'
  BY <1>1 DEF CallPush, Call
<1>2. ASSUME NEW t \in Threads, CallPop(t) PROVE TypeOK'
  BY <1>2 DEF CallPop, Call
<1>3. ASSUME NEW t \in Threads, CallClose(t) PROVE TypeOK'
  BY <1>3 DEF CallClose, Call
<1>4. ASSUME NEW t \in Threads, SpuriousWake(t) PROVE TypeOK'
  BY <1>4 DEF SpuriousWake
<1>5. ASSUME NEW t \in Threads, Step(t) PROVE TypeOK'
  <2>1. CASE Lock(t) BY <2>1 DEF Lock
  <2>2. CASE Block(t) BY <2>2 DEF Block
  <2>3. CASE PushRefused(t) BY <2>3 DEF PushRefused, Proceed
  <2>4. CASE PushStore(t) BY <2>4 DEF PushStore, Proceed
  <2>5. CASE PopEmpty(t) BY <2>5 DEF PopEmpty, Proceed
  <2>6. CASE PopTake(t) BY <2>6 DEF PopTake, Proceed
  <2>7. CASE CloseSet(t) BY <2>7 DEF CloseSet, Proceed
  <2>8. CASE NotifyAll(t) BY <2>8 DEF NotifyAll
  <2>9. CASE Unlock(t) BY <2>9 DEF Unlock
  <2> QED
    BY <1>5, <2>1, <2>2, <2>3, <2>4, <2>5, <2>6, <2>7, <2>8, <2>9 DEF Step
<1>6. CASE UNCHANGED vars
  BY <1>6 DEF vars
<1> QED
  BY <1>1, <1>2, <1>3, <1>4, <1>5, <1>6 DEF Next

(* The owner of the mutex is the thread in a critical section.             *)
LEMMA MutexStep == TypeOK /\ MutualExclusion /\ [Next]_vars => MutualExclusion'
<1> SUFFICES ASSUME TypeOK, MutualExclusion, [Next]_vars PROVE MutualExclusion'
  OBVIOUS
<1> USE SlotAssumption DEF TypeOK, MutualExclusion, InCriticalSection
<1>1. ASSUME NEW t \in Threads, NEW f \in Frames, CallPush(t, f)
      PROVE  MutualExclusion'
  BY <1>1 DEF CallPush, Call
<1>2. ASSUME NEW t \in Threads, CallPop(t) PROVE MutualExclusion'
  BY <1>2 DEF CallPop, Call
<1>3. ASSUME NEW t \in Threads, CallClose(t) PROVE MutualExclusion'
  BY <1>3 DEF CallClose, Call
<1>4. ASSUME NEW t \in Threads, SpuriousWake(t) PROVE MutualExclusion'
  BY <1>4 DEF SpuriousWake
<1>5. ASSUME NEW t \in Threads, Step(t) PROVE MutualExclusion'
  <2>1. CASE Lock(t) BY <2>1 DEF Lock
  <2>2. CASE Block(t) BY <2>2 DEF Block
  <2>3. CASE PushRefused(t) BY <2>3 DEF PushRefused, Proceed
  <2>4. CASE PushStore(t) BY <2>4 DEF PushStore, Proceed
  <2>5. CASE PopEmpty(t) BY <2>5 DEF PopEmpty, Proceed
  <2>6. CASE PopTake(t) BY <2>6 DEF PopTake, Proceed
  <2>7. CASE CloseSet(t) BY <2>7 DEF CloseSet, Proceed
  <2>8. CASE NotifyAll(t) BY <2>8 DEF NotifyAll
  <2>9. CASE Unlock(t) BY <2>9 DEF Unlock
  <2> QED
    BY <1>5, <2>1, <2>2, <2>3, <2>4, <2>5, <2>6, <2>7, <2>8, <2>9 DEF Step
<1>6. CASE UNCHANGED vars
  BY <1>6 DEF vars
<1> QED
  BY <1>1, <1>2, <1>3, <1>4, <1>5, <1>6 DEF Next

(* While the owner of the mutex is not about to notify, every sleeper has  *)
(* a false predicate: the case that a step which changes neither item nor  *)
(* closed has to exclude.                                                  *)
LEMMA QuietOwner ==
  ASSUME NoLostWakeup, NEW t \in Threads, mtx = t, pc[t] # "notify"
  PROVE  \A u \in Threads : pc[u] = "blocked" => ~Ready(u)
  BY DEF NoLostWakeup

(* A step that makes a predicate true leaves its thread before notify_all, *)
(* and the thread leaves that point only by waking every sleeper.          *)
LEMMA WakeupStep ==
  TypeOK /\ MutualExclusion /\ NoLostWakeup /\ [Next]_vars => NoLostWakeup'
<1> SUFFICES ASSUME TypeOK, MutualExclusion, NoLostWakeup, [Next]_vars
             PROVE  NoLostWakeup'
  OBVIOUS
<1> USE DEF TypeOK, NoLostWakeup, Ready
<1>1. ASSUME NEW t \in Threads, NEW f \in Frames, CallPush(t, f)
      PROVE  NoLostWakeup'
  BY <1>1 DEF CallPush, Call
<1>2. ASSUME NEW t \in Threads, CallPop(t) PROVE NoLostWakeup'
  BY <1>2 DEF CallPop, Call
<1>3. ASSUME NEW t \in Threads, CallClose(t) PROVE NoLostWakeup'
  BY <1>3 DEF CallClose, Call
<1>4. ASSUME NEW t \in Threads, SpuriousWake(t) PROVE NoLostWakeup'
  BY <1>4 DEF SpuriousWake
<1>5. ASSUME NEW t \in Threads, Step(t) PROVE NoLostWakeup'
  <2>0. InCriticalSection(t) => mtx = t
    BY DEF MutualExclusion
  <2>1. CASE Lock(t)
    BY <2>1, SlotAssumption DEF Lock
  <2>2. CASE Block(t)
    BY <2>0, <2>2, QuietOwner DEF Block, InCriticalSection
  <2>3. CASE PushRefused(t)
    BY <2>0, <2>3, QuietOwner DEF PushRefused, Proceed, InCriticalSection
  <2>4. CASE PushStore(t)
    BY <2>0, <2>4 DEF PushStore, Proceed, InCriticalSection
  <2>5. CASE PopEmpty(t)
    BY <2>0, <2>5, QuietOwner DEF PopEmpty, Proceed, InCriticalSection
  <2>6. CASE PopTake(t)
    BY <2>0, <2>6 DEF PopTake, Proceed, InCriticalSection
  <2>7. CASE CloseSet(t)
    BY <2>0, <2>7 DEF CloseSet, Proceed, InCriticalSection
  <2>8. CASE NotifyAll(t)
    BY <2>8 DEF NotifyAll
  <2>9. CASE Unlock(t)
    BY <2>0, <2>9, QuietOwner DEF Unlock, InCriticalSection
  <2> QED
    BY <1>5, <2>1, <2>2, <2>3, <2>4, <2>5, <2>6, <2>7, <2>8, <2>9 DEF Step
<1>6. CASE UNCHANGED vars
  BY <1>6 DEF vars
<1> QED
  BY <1>1, <1>2, <1>3, <1>4, <1>5, <1>6 DEF Next

(* Only PushStore moves the frame out of a push.                           *)
LEMMA PusherStep == TypeOK /\ PusherHoldsFrame /\ [Next]_vars => PusherHoldsFrame'
<1> SUFFICES ASSUME TypeOK, PusherHoldsFrame, [Next]_vars PROVE PusherHoldsFrame'
  OBVIOUS
<1> USE DEF TypeOK, PusherHoldsFrame
<1>1. ASSUME NEW t \in Threads, NEW f \in Frames, CallPush(t, f)
      PROVE  PusherHoldsFrame'
  BY <1>1 DEF CallPush, Call
<1>2. ASSUME NEW t \in Threads, CallPop(t) PROVE PusherHoldsFrame'
  BY <1>2 DEF CallPop, Call
<1>3. ASSUME NEW t \in Threads, CallClose(t) PROVE PusherHoldsFrame'
  BY <1>3 DEF CallClose, Call
<1>4. ASSUME NEW t \in Threads, SpuriousWake(t) PROVE PusherHoldsFrame'
  BY <1>4 DEF SpuriousWake
<1>5. ASSUME NEW t \in Threads, Step(t) PROVE PusherHoldsFrame'
  <2>1. CASE Lock(t) BY <2>1 DEF Lock
  <2>2. CASE Block(t) BY <2>2 DEF Block
  <2>3. CASE PushRefused(t) BY <2>3 DEF PushRefused, Proceed
  <2>4. CASE PushStore(t) BY <2>4 DEF PushStore, Proceed
  <2>5. CASE PopEmpty(t) BY <2>5 DEF PopEmpty, Proceed
  <2>6. CASE PopTake(t) BY <2>6 DEF PopTake, Proceed
  <2>7. CASE CloseSet(t) BY <2>7 DEF CloseSet, Proceed
  <2>8. CASE NotifyAll(t) BY <2>8 DEF NotifyAll
  <2>9. CASE Unlock(t) BY <2>9 DEF Unlock
  <2> QED
    BY <1>5, <2>1, <2>2, <2>3, <2>4, <2>5, <2>6, <2>7, <2>8, <2>9 DEF Step
<1>6. CASE UNCHANGED vars
  BY <1>6 DEF vars
<1> QED
  BY <1>1, <1>2, <1>3, <1>4, <1>5, <1>6 DEF Next

--------------------------------------------------------------------------------
(* Every variable keeps its type, for any threads and frames.              *)
THEOREM TypeCorrect == Spec => []TypeOK
<1>1. Init => TypeOK
  BY InitIndInv DEF IndInv
<1> QED
  BY <1>1, TypeStep, PTL DEF Spec

(* The inductive invariant holds in every reachable state.                 *)
THEOREM SlotInvariant == Spec => []IndInv
<1>1. IndInv /\ [Next]_vars => IndInv'
  BY TypeStep, MutexStep, WakeupStep, PusherStep DEF IndInv
<1> QED
  BY <1>1, InitIndInv, PTL DEF Spec

(* At most one thread is between taking the mutex of the slot and giving   *)
(* it back, and it is the owner: item and closed have no data race.        *)
THEOREM MutexCorrect == Spec => []MutualExclusion
<1>1. IndInv => MutualExclusion
  BY DEF IndInv
<1> QED
  BY <1>1, SlotInvariant, PTL

(* No thread stays asleep in cv.wait with its predicate true unless the    *)
(* owner of the mutex is about to call notify_all.                         *)
THEOREM WakeupCorrect == Spec => []NoLostWakeup
<1>1. IndInv => NoLostWakeup
  BY DEF IndInv
<1> QED
  BY <1>1, SlotInvariant, PTL

(* Once the slot is closed and empty it stays so, and pop reports the end  *)
(* only then: the process thread misses no frame when it exits.            *)
THEOREM EndCorrect == Spec => EndIsFinal
<1>1. ASSUME TypeOK, [Next]_vars, Drained PROVE Drained'
  <2>1. ASSUME NEW t \in Threads, Step(t) PROVE Drained'
    BY <1>1, <2>1
    DEF Drained, Step, Lock, Block, PushRefused, PushStore, PopEmpty, PopTake,
        CloseSet, NotifyAll, Unlock, Proceed
  <2> QED
    BY <1>1, <2>1
    DEF Drained, Next, CallPush, CallPop, CallClose, Call, SpuriousWake, vars
<1>2. ASSUME TypeOK, [Next]_vars, NEW t \in Threads,
             op[t] = "pop", pc[t] = "test", pc'[t] = "unlock"
      PROVE  Drained'
  <2>1. PICK u \in Threads : Step(u)
    BY <1>2 DEF Next, CallPush, CallPop, CallClose, Call, SpuriousWake, TypeOK, vars
  <2>2. PopEmpty(t)
    BY <1>2, <2>1
    DEF Step, Lock, Block, PushRefused, PushStore, PopEmpty, PopTake, CloseSet,
        NotifyAll, Unlock, Proceed, TypeOK
  <2> QED
    BY <2>2 DEF PopEmpty, Proceed, Ready, Drained
<1>3. TypeOK /\ [Next]_vars =>
        [/\ Drained => Drained'
         /\ \A t \in Threads :
              op[t] = "pop" /\ pc[t] = "test" /\ pc'[t] = "unlock" => Drained'
        ]_vars
  BY <1>1, <1>2
<1> QED
  BY <1>3, TypeCorrect, PTL DEF Spec, EndIsFinal

--------------------------------------------------------------------------------
(* The refinement: a step of the slot is a step of the channel when it     *)
(* calls, takes effect or returns, and is invisible otherwise.             *)
LEMMA RefineInit == Init => Channel!Init
  BY DEF Init, Channel!Init, Phase

(* Calling a method invokes the operation of the channel.                  *)
LEMMA RefineCall ==
  ASSUME TypeOK, NEW t \in Threads, NEW o \in {"push", "pop", "close"},
         NEW f \in Frames \cup {NoFrame}, Call(t, o, f)
  PROVE  Channel!Invoke(t, o, f)
  BY DEF TypeOK, Call, Channel!Invoke, Phase

(* What the four steps that end a wait have in common.                     *)
LEMMA RefineProceed ==
  ASSUME TypeOK, NEW t \in Threads, NEW o \in {"push", "pop", "close"},
         NEW n \in {"notify", "unlock"}, NEW r \in BOOLEAN, Proceed(t, o, n, r)
  PROVE  Channel!Effect(t, o, r)
  BY DEF TypeOK, Proceed, Channel!Effect, Phase

(* Steps that only move a thread inside its call, or move the mutex.       *)
LEMMA RefineQuiet ==
  ASSUME TypeOK, UNCHANGED <<item, closed, op, fb, ret>>,
         \A u \in Threads : Phase(u)' = Phase(u)
  PROVE  UNCHANGED Channel!vars
  BY DEF Channel!vars

(* A sequence of at most one element, the shape of the channel's queue.    *)
LEMMA SingletonQueue ==
  ASSUME NEW x
  PROVE  /\ Append(<<>>, x) = <<x>>
         /\ Head(<<x>>) = x
         /\ Tail(<<x>>) = <<>>
         /\ <<x>> # <<>>
         /\ Len(<<>>) < 1
  OBVIOUS

(* Every step of the slot is a step of the channel or leaves it unchanged. *)
LEMMA RefineStep == IndInv /\ [Next]_vars => [Channel!Next]_(Channel!vars)
<1> SUFFICES ASSUME IndInv, [Next]_vars PROVE [Channel!Next]_(Channel!vars)
  OBVIOUS
<1> USE DEF IndInv
<1>1. ASSUME NEW t \in Threads, NEW f \in Frames, CallPush(t, f)
      PROVE  Channel!Next
  BY <1>1, RefineCall DEF CallPush, Channel!Next
<1>2. ASSUME NEW t \in Threads, CallPop(t) PROVE Channel!Next
  <2>1. fb[t] \in Frames \cup {NoFrame}
    BY DEF TypeOK
  <2> QED
    BY <1>2, <2>1, RefineCall DEF CallPop, Channel!Next
<1>3. ASSUME NEW t \in Threads, CallClose(t) PROVE Channel!Next
  <2>1. fb[t] \in Frames \cup {NoFrame}
    BY DEF TypeOK
  <2> QED
    BY <1>3, <2>1, RefineCall DEF CallClose, Channel!Next
<1>4. ASSUME NEW t \in Threads, SpuriousWake(t) PROVE UNCHANGED Channel!vars
  <2>1. \A u \in Threads : Phase(u)' = Phase(u)
    BY <1>4 DEF SpuriousWake, Phase, TypeOK
  <2> QED
    BY <1>4, <2>1, RefineQuiet DEF SpuriousWake
<1>5. ASSUME NEW t \in Threads, Step(t) PROVE [Channel!Next]_(Channel!vars)
  <2>1. CASE Lock(t)
    <3>1. \A u \in Threads : Phase(u)' = Phase(u)
      BY <2>1 DEF Lock, Phase, TypeOK
    <3> QED
      BY <2>1, <3>1, RefineQuiet DEF Lock
  <2>2. CASE Block(t)
    <3>1. \A u \in Threads : Phase(u)' = Phase(u)
      BY <2>2 DEF Block, Phase, TypeOK
    <3> QED
      BY <2>2, <3>1, RefineQuiet DEF Block
  <2>3. CASE PushRefused(t)
    <3>1. Channel!Effect(t, "push", FALSE)
      BY <2>3, RefineProceed DEF PushRefused
    <3>2. Channel!SendRefused(t)
      BY <2>3, <3>1 DEF PushRefused, Channel!SendRefused
    <3> QED
      BY <3>2 DEF Channel!Next
  <2>4. CASE PushStore(t)
    <3>1. Channel!Effect(t, "push", TRUE)
      BY <2>4, RefineProceed DEF PushStore
    <3>2. item = NoFrame /\ fb[t] \in Frames /\ fb[t] # NoFrame
      BY <2>4, SlotAssumption DEF PushStore, Proceed, Ready, PusherHoldsFrame
    <3>3. Channel!Send(t)
      BY <2>4, <3>1, <3>2, SingletonQueue DEF PushStore, Channel!Send
    <3> QED
      BY <3>3 DEF Channel!Next
  <2>5. CASE PopEmpty(t)
    <3>1. Channel!Effect(t, "pop", FALSE)
      BY <2>5, RefineProceed DEF PopEmpty
    <3>2. Channel!ReceiveEnd(t)
      BY <2>5, <3>1 DEF PopEmpty, Proceed, Ready, Channel!ReceiveEnd
    <3> QED
      BY <3>2 DEF Channel!Next
  <2>6. CASE PopTake(t)
    <3>1. Channel!Effect(t, "pop", TRUE)
      BY <2>6, RefineProceed DEF PopTake
    <3>2. Channel!Receive(t)
      BY <2>6, <3>1, SingletonQueue DEF PopTake, Channel!Receive
    <3> QED
      BY <3>2 DEF Channel!Next
  <2>7. CASE CloseSet(t)
    <3>1. Channel!Effect(t, "close", TRUE)
      BY <2>7, RefineProceed DEF CloseSet
    <3>2. Channel!Shut(t)
      BY <2>7, <3>1 DEF CloseSet, Channel!Shut
    <3> QED
      BY <3>2 DEF Channel!Next
  <2>8. CASE NotifyAll(t)
    <3>1. \A u \in Threads : Phase(u)' = Phase(u)
      BY <2>8 DEF NotifyAll, Phase, TypeOK
    <3> QED
      BY <2>8, <3>1, RefineQuiet DEF NotifyAll
  <2>9. CASE Unlock(t)
    <3>1. Channel!Return(t)
      BY <2>9 DEF Unlock, Channel!Return, Phase, TypeOK
    <3> QED
      BY <3>1 DEF Channel!Next
  <2> QED
    BY <1>5, <2>1, <2>2, <2>3, <2>4, <2>5, <2>6, <2>7, <2>8, <2>9 DEF Step
<1>6. CASE UNCHANGED vars
  <2>1. \A u \in Threads : Phase(u)' = Phase(u)
    BY <1>6 DEF vars, Phase
  <2> QED
    BY <1>6, <2>1, RefineQuiet DEF vars
<1> QED
  BY <1>1, <1>2, <1>3, <1>4, <1>5, <1>6 DEF Next

(* BoundedSlot, with its mutex, condition variable and spurious wake-ups,  *)
(* behaves as an atomic closable channel of capacity 1 for any threads and *)
(* frames.                                                                 *)
THEOREM SlotImplementsChannel == Spec => IsSyncChannel
  BY RefineInit, RefineStep, SlotInvariant, PTL
  DEF Spec, IsSyncChannel, Channel!Spec
================================================================================
