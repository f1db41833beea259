------------------------------ MODULE SyncChannel ------------------------------
(***************************************************************************)
(* What BoundedSlot (src/src/main.cpp) promises to the threads that call   *)
(* it: an atomic, closable, bounded FIFO channel.  The comment above the   *)
(* struct calls it the equivalent of a Rust sync_channel(1).               *)
(*                                                                         *)
(* There is no mutex, condition variable or waiting here.  A call is       *)
(* invoked, takes effect at one instant, and returns.  A call that cannot  *)
(* take effect yet just stays pending.                                     *)
(***************************************************************************)
EXTENDS Naturals, Sequences

CONSTANTS
  Threads,    (* the threads that may call the channel                     *)
  Frames,     (* the frames that can travel through it                     *)
  NoFrame,    (* a FrameBuffer variable that holds no frame                *)
  Capacity    (* how many frames the channel can hold                      *)

VARIABLES
  queue,      (* the frames sent and not yet received, oldest first        *)
  closed,     (* TRUE once some close() took effect                        *)
  phase,      (* per thread: "idle", "pending" or "done"                   *)
  op,         (* per thread: the call it made last                         *)
  fb,         (* per thread: the argument of push, the result of pop       *)
  ret         (* per thread: what its last call returns                    *)

vars == <<queue, closed, phase, op, fb, ret>>

Init ==
  /\ queue = <<>>
  /\ closed = FALSE
  /\ phase = [t \in Threads |-> "idle"]
  /\ op = [t \in Threads |-> "close"]
  /\ fb = [t \in Threads |-> NoFrame]
  /\ ret = [t \in Threads |-> TRUE]

(* A thread starts a call; fb0 is its FrameBuffer variable at that moment. *)
Invoke(t, o, fb0) ==
  /\ phase[t] = "idle"
  /\ phase' = [phase EXCEPT ![t] = "pending"]
  /\ op' = [op EXCEPT ![t] = o]
  /\ fb' = [fb EXCEPT ![t] = fb0]
  /\ UNCHANGED <<queue, closed, ret>>

(* The call o of thread t takes effect and will return the value r.        *)
Effect(t, o, r) ==
  /\ phase[t] = "pending"
  /\ op[t] = o
  /\ phase' = [phase EXCEPT ![t] = "done"]
  /\ ret' = [ret EXCEPT ![t] = r]
  /\ UNCHANGED op

Send(t) ==
  /\ Effect(t, "push", TRUE)
  /\ ~closed
  /\ Len(queue) < Capacity
  /\ queue' = Append(queue, fb[t])
  /\ fb' = [fb EXCEPT ![t] = NoFrame]
  /\ UNCHANGED closed

(* A closed channel refuses the frame and leaves it with the caller.       *)
SendRefused(t) ==
  /\ Effect(t, "push", FALSE)
  /\ closed
  /\ UNCHANGED <<queue, closed, fb>>

Receive(t) ==
  /\ Effect(t, "pop", TRUE)
  /\ queue # <<>>
  /\ fb' = [fb EXCEPT ![t] = Head(queue)]
  /\ queue' = Tail(queue)
  /\ UNCHANGED closed

(* The end of the stream: closed, and everything sent has been received.   *)
ReceiveEnd(t) ==
  /\ Effect(t, "pop", FALSE)
  /\ closed
  /\ queue = <<>>
  /\ UNCHANGED <<queue, closed, fb>>

Shut(t) ==
  /\ Effect(t, "close", TRUE)
  /\ closed' = TRUE
  /\ UNCHANGED <<queue, fb>>

Return(t) ==
  /\ phase[t] = "done"
  /\ phase' = [phase EXCEPT ![t] = "idle"]
  /\ UNCHANGED <<queue, closed, op, fb, ret>>

Next ==
  \E t \in Threads :
    \/ \E f \in Frames : Invoke(t, "push", f)
    \/ Invoke(t, "pop", fb[t])
    \/ Invoke(t, "close", fb[t])
    \/ Send(t)
    \/ SendRefused(t)
    \/ Receive(t)
    \/ ReceiveEnd(t)
    \/ Shut(t)
    \/ Return(t)

Spec == Init /\ [][Next]_vars
================================================================================
