------------------------------ MODULE ByteQueue ------------------------------
(***************************************************************************)
(* What the receive path promises of its byte buffer, whatever its layout: *)
(* a bounded first-in first-out queue between the interrupt that puts      *)
(* bytes in and the main loop that takes them out in batches.  A byte that *)
(* comes when the queue is full is dropped; no other byte is lost, changed *)
(* or reordered.                                                           *)
(***************************************************************************)
EXTENDS Naturals, Sequences

CONSTANTS
  Byte,       \* what the line can carry
  Capacity    \* how many bytes the queue holds

VARIABLES
  queue,   \* the bytes received and not yet taken
  batch    \* the bytes taken and not yet given to the frame decoder

queueVars == <<queue, batch>>

Init == queue = <<>> /\ batch = <<>>

Accept ==
  /\ Len(queue) < Capacity
  /\ \E byte \in Byte : queue' = Append(queue, byte)
  /\ UNCHANGED batch

Take ==
  /\ queue # <<>>
  /\ batch' = Append(batch, Head(queue))
  /\ queue' = Tail(queue)

Hand ==
  /\ batch # <<>>
  /\ batch' = Tail(batch)
  /\ UNCHANGED queue

Next == Accept \/ Take \/ Hand

Spec == Init /\ [][Next]_queueVars

==============================================================================
