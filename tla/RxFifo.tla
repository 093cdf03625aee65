------------------------------- MODULE RxFifo -------------------------------
(***************************************************************************)
(* The receive FIFO of the targets' main.c: a ring of bytes, filled by the *)
(* transport's interrupt and drained by the main loop, with no lock.  The  *)
(* interrupt moves only the head and the main loop only the tail; one slot *)
(* stays free so that a full ring differs from an empty one.  The main     *)
(* loop copies a byte and advances the tail in two steps, and interrupts   *)
(* come in between.                                                        *)
(***************************************************************************)
EXTENDS Naturals, Sequences

CONSTANTS
  Byte,         \* what the line can carry
  FifoSize,     \* BOOT_RX_FIFO_SIZE
  DrainChunk    \* BOOT_RX_DRAIN_CHUNK

ASSUME RxFifoAssumption ==
  /\ Byte # {}
  /\ FifoSize \in Nat /\ FifoSize >= 2
  /\ DrainChunk \in Nat /\ DrainChunk >= 1

VARIABLES
  fifo,     \* g_rx_fifo
  head,     \* g_rx_head: where the interrupt writes
  tail,     \* g_rx_tail: where the main loop reads
  chunk,    \* the main loop's chunk: bytes copied and not yet decoded
  copied    \* the byte at the tail is in chunk, the tail not yet advanced

fifoVars == <<fifo, head, tail, chunk, copied>>

Index == 0 .. FifoSize - 1
\* Mutation: the index wraps one slot too late.
NextIndexLate(i) == IF i = FifoSize THEN 0 ELSE i + 1

NextIndex(i) == IF i = FifoSize - 1 THEN 0 ELSE i + 1

\* Mutation: a slot more is left free.
FifoFullEarly == NextIndex(head) = tail \/ NextIndex(NextIndex(head)) = tail

FifoFull == NextIndex(head) = tail
FifoEmpty == tail = head

(* Every variable has its type: the indexes stay inside the ring. *)
FifoTypeOK ==
  /\ fifo \in [Index -> Byte]
  /\ head \in Index /\ tail \in Index
  /\ chunk \in Seq(Byte)
  /\ copied \in BOOLEAN

\* The ring is zeroed; which byte that is does not matter.
FifoInit ==
  /\ fifo = [i \in Index |-> CHOOSE byte \in Byte : TRUE]
  /\ head = 0 /\ tail = 0
  /\ chunk = <<>> /\ copied = FALSE

(* boot_fifo_push_isr; nothing preempts the interrupt. *)
PushByte(byte) ==
  /\ ~FifoFull
  /\ fifo' = [fifo EXCEPT ![head] = byte]
  /\ head' = NextIndex(head)
  /\ UNCHANGED <<tail, chunk, copied>>

DropByte == FifoFull /\ UNCHANGED fifoVars

\* Mutation: the interrupt does not check for a full ring.
PushIsrUnchecked(byte) ==
  /\ fifo' = [fifo EXCEPT ![head] = byte]
  /\ head' = NextIndex(head)
  /\ UNCHANGED <<tail, chunk, copied>>

PushIsr(byte) == PushByte(byte) \/ DropByte

(* The drain loop of boot_stm32f072_poll. *)
CopyByte ==
  /\ ~copied /\ ~FifoEmpty /\ Len(chunk) < DrainChunk
  /\ chunk' = Append(chunk, fifo[tail])
  /\ copied' = TRUE
  /\ UNCHANGED <<fifo, head, tail>>

AdvanceTail ==
  /\ copied
  /\ tail' = NextIndex(tail)
  /\ copied' = FALSE
  /\ UNCHANGED <<fifo, head, chunk>>

DrainEnds == ~copied /\ (FifoEmpty \/ Len(chunk) = DrainChunk)

\* bootloader_receive_bytes hands the next byte of the chunk to the decoder.
HandByte ==
  /\ ~copied /\ chunk # <<>>
  /\ chunk' = Tail(chunk)
  /\ UNCHANGED <<fifo, head, tail, copied>>

FifoNext == (\E byte \in Byte : PushIsr(byte)) \/ CopyByte \/ AdvanceTail \/ HandByte

FifoSpec == FifoInit /\ [][FifoNext]_fifoVars

-----------------------------------------------------------------------------
(* The queue the ring stands for: the slots from the tail to the head.  A
   byte leaves it when the tail moves past it. *)
Held == IF head >= tail THEN head - tail ELSE head + FifoSize - tail
SlotOf(k) == IF tail + k < FifoSize THEN tail + k ELSE tail + k - FifoSize
Contents == [k \in 1 .. Held |-> fifo[SlotOf(k - 1)]]
Taken == IF copied THEN SubSeq(chunk, 1, Len(chunk) - 1) ELSE chunk

Queue == INSTANCE ByteQueue WITH Capacity <- FifoSize - 1, queue <- Contents, batch <- Taken

(* The ring is a first-in first-out queue of FifoSize - 1 bytes: whatever the
   order in which interrupts fall between the main loop's steps, bytes come
   out in the order they came in, and one is dropped only when the ring is
   full (boot_fifo_push_isr and boot_stm32f072_poll share head and tail
   without a lock). *)
FifoIsQueue == Queue!Spec

==============================================================================
