----------------------------- MODULE PacketQueue -----------------------------
(***************************************************************************)
(* What the USB transmit path promises: the answers it accepts reach the   *)
(* host whole and in the order they were sent.  An answer is refused, and  *)
(* counted, only when the queue is full (the packet that has just left may *)
(* still count); one that was accepted is lost only when the host          *)
(* configures the device anew.                                             *)
(***************************************************************************)
EXTENDS Naturals, Sequences

CONSTANTS
  Packet,     \* the answers
  NoPacket,   \* the host has received nothing yet
  Capacity    \* how many answers the queue holds

VARIABLES
  queue,      \* the answers accepted and not yet gone
  out,        \* the answer the host received last
  refusals    \* how many were refused, modulo 2

queueVars == <<queue, out, refusals>>

Init == queue = <<>> /\ out = NoPacket /\ refusals = 0

Accept ==
  /\ Len(queue) < Capacity
  /\ \E p \in Packet : queue' = Append(queue, p)
  /\ UNCHANGED <<out, refusals>>

Refuse ==
  /\ Len(queue) >= Capacity - 1
  /\ refusals' = 1 - refusals
  /\ UNCHANGED <<queue, out>>

Deliver ==
  /\ queue # <<>>
  /\ out' = Head(queue)
  /\ queue' = Tail(queue)
  /\ UNCHANGED refusals

Lose ==
  /\ queue # <<>>
  /\ queue' = Tail(queue)
  /\ UNCHANGED <<out, refusals>>

Leave == Deliver \/ Lose
Next == Accept \/ Refuse \/ Leave

\* While there are answers, they go on leaving.
Spec == Init /\ [][Next]_queueVars /\ WF_queueVars(Leave)

==============================================================================
