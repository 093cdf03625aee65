---------------------------- MODULE RxFifoProofs ----------------------------
(***************************************************************************)
(* The receive FIFO is a queue, for every size of the ring, every chunk    *)
(* size and every set of bytes: proofs about RxFifo.                       *)
(***************************************************************************)
EXTENDS RxFifo, SequenceLemmas, TLAPS

\* While the main loop stands between its two steps, the last byte of its
\* chunk is the one at the tail: the interrupt cannot have overwritten it.
CopyHeld ==
  copied => /\ head # tail
            /\ chunk # <<>>
            /\ chunk[Len(chunk)] = fifo[tail]

FifoInv == FifoTypeOK /\ CopyHeld

-----------------------------------------------------------------------------
(* Indices *)

\* The next index is an index, and a different one.
LEMMA NextIndexType ==
  ASSUME NEW i \in Index
  PROVE  NextIndex(i) \in Index /\ NextIndex(i) # i
BY RxFifoAssumption DEF Index, NextIndex

\* The ring holds at most FifoSize - 1 bytes, and its k-th slot is a slot.
LEMMA HeldType ==
  ASSUME FifoTypeOK
  PROVE  /\ Held \in 0 .. FifoSize - 1
         /\ \A k \in 0 .. FifoSize - 1 : SlotOf(k) \in Index
         /\ Held = 0 <=> head = tail
BY RxFifoAssumption DEF FifoTypeOK, Index, Held, SlotOf

\* The slots from the tail on are all different, and the first free one is
\* the head.
LEMMA SlotsDistinct ==
  ASSUME FifoTypeOK
  PROVE  /\ SlotOf(Held) = head
         /\ SlotOf(0) = tail
         /\ \A k \in 0 .. FifoSize - 1 : k < Held => SlotOf(k) # head
BY RxFifoAssumption DEF FifoTypeOK, Index, Held, SlotOf

\* What the ring stands for is a sequence of bytes.
LEMMA ContentsType ==
  ASSUME FifoTypeOK
  PROVE  /\ Contents \in Seq(Byte)
         /\ Len(Contents) = Held
         /\ DOMAIN Contents = 1 .. Held
<1>1. Held \in Nat
  BY HeldType, RxFifoAssumption
<1>2. ASSUME NEW k \in 1 .. Held
      PROVE  fifo[SlotOf(k - 1)] \in Byte
  <2>1. k - 1 \in 0 .. FifoSize - 1
    BY HeldType, RxFifoAssumption
  <2> QED
    BY <2>1, HeldType DEF FifoTypeOK
<1>3. Contents \in [1 .. Held -> Byte]
  BY <1>2 DEF Contents
<1> QED
  BY <1>1, <1>3

-----------------------------------------------------------------------------
(* The two steps that move an index *)

\* The interrupt's push appends to the queue, which had room.
LEMMA PushAppends ==
  ASSUME FifoTypeOK, NEW byte \in Byte, PushByte(byte), FifoTypeOK'
  PROVE  /\ Len(Contents) < FifoSize - 1
         /\ Contents' = Append(Contents, byte)
<1>1. /\ Held < FifoSize - 1
      /\ Held' = Held + 1
  BY RxFifoAssumption DEF FifoTypeOK, PushByte, FifoFull, NextIndex, Held, Index
<1>2. \A k \in 0 .. FifoSize - 1 : SlotOf(k)' = SlotOf(k)
  BY DEF PushByte, SlotOf
<1>3. Held \in Nat
  BY HeldType, RxFifoAssumption
<1>4. ASSUME NEW k \in 1 .. Held + 1
      PROVE  fifo'[SlotOf(k - 1)'] = IF k = Held + 1 THEN byte ELSE fifo[SlotOf(k - 1)]
  <2>1. k - 1 \in 0 .. FifoSize - 1
    BY <1>1, <1>3, RxFifoAssumption
  <2>2. SlotOf(k - 1)' = SlotOf(k - 1) /\ SlotOf(k - 1) \in Index
    BY <1>2, <2>1, HeldType
  <2>3. CASE k = Held + 1
    <3>1. SlotOf(k - 1) = head
      BY <2>3, <1>3, SlotsDistinct
    <3> QED
      BY <2>2, <2>3, <3>1 DEF PushByte, FifoTypeOK
  <2>4. CASE k # Held + 1
    <3>1. k - 1 < Held
      BY <2>4, <1>3
    <3>2. SlotOf(k - 1) # head
      BY <3>1, <2>1, SlotsDistinct
    <3> QED
      BY <2>2, <2>4, <3>2 DEF PushByte, FifoTypeOK
  <2> QED
    BY <2>3, <2>4
<1>5. Contents' = [k \in 1 .. Held + 1 |-> IF k = Held + 1 THEN byte ELSE fifo[SlotOf(k - 1)]]
  BY <1>1, <1>4 DEF Contents
<1>6. Append(Contents, byte) =
        [k \in 1 .. Held + 1 |-> IF k = Held + 1 THEN byte ELSE fifo[SlotOf(k - 1)]]
  <2>1. Append(Contents, byte) =
          [k \in 1 .. Len(Contents) + 1 |-> IF k = Len(Contents) + 1 THEN byte ELSE Contents[k]]
    BY ContentsType, AppendElements
  <2>2. ASSUME NEW k \in 1 .. Held + 1, k # Held + 1
        PROVE  Contents[k] = fifo[SlotOf(k - 1)]
    <3>1. k \in 1 .. Held
      BY <2>2, <1>3
    <3> QED
      BY <3>1 DEF Contents
  <2> QED
    BY <2>1, <2>2, ContentsType
<1> QED
  BY <1>1, <1>5, <1>6, ContentsType

\* Moving the tail takes the head of the queue out of it.
LEMMA AdvanceTakes ==
  ASSUME FifoInv, AdvanceTail, FifoTypeOK'
  PROVE  /\ Contents # <<>>
         /\ Head(Contents) = fifo[tail]
         /\ Contents' = Tail(Contents)
<1> USE DEF FifoInv
<1>1. /\ Held > 0
      /\ Held' = Held - 1
  BY RxFifoAssumption DEF FifoTypeOK, CopyHeld, AdvanceTail, NextIndex, Held, Index
<1>2. Held \in Nat /\ Held \in 0 .. FifoSize - 1
  BY HeldType, RxFifoAssumption
<1>3. \A k \in 0 .. FifoSize - 2 : SlotOf(k)' = SlotOf(k + 1)
  BY RxFifoAssumption DEF FifoTypeOK, AdvanceTail, NextIndex, SlotOf, Index
<1>4. Contents # <<>> /\ Head(Contents) = fifo[tail]
  <2>1. 1 \in 1 .. Held
    BY <1>1, <1>2
  <2>2. Contents[1] = fifo[SlotOf(0)]
    BY <2>1 DEF Contents
  <2> QED
    BY <2>1, <2>2, <1>1, ContentsType, SlotsDistinct
<1>5. Contents' = [k \in 1 .. Held - 1 |-> fifo[SlotOf(k)]]
  <2>1. ASSUME NEW k \in 1 .. Held - 1
        PROVE  fifo'[SlotOf(k - 1)'] = fifo[SlotOf(k)]
    <3>1. k - 1 \in 0 .. FifoSize - 2 /\ (k - 1) + 1 = k
      BY <1>2, RxFifoAssumption
    <3>2. SlotOf(k - 1)' = SlotOf(k)
      BY <1>3, <3>1
    <3> QED
      BY <3>2 DEF AdvanceTail
  <2> QED
    BY <1>1, <2>1 DEF Contents
<1>6. Tail(Contents) = [k \in 1 .. Held - 1 |-> fifo[SlotOf(k)]]
  <2>1. Tail(Contents) = [k \in 1 .. Len(Contents) - 1 |-> Contents[k + 1]]
    BY <1>4, ContentsType, TailElements
  <2>2. ASSUME NEW k \in 1 .. Held - 1
        PROVE  Contents[k + 1] = fifo[SlotOf(k)]
    <3>1. k + 1 \in 1 .. Held /\ (k + 1) - 1 = k
      BY <1>2
    <3> QED
      BY <3>1 DEF Contents
  <2> QED
    BY <2>1, <2>2, ContentsType
<1> QED
  BY <1>4, <1>5, <1>6

-----------------------------------------------------------------------------
(* The invariant *)

LEMMA FifoInvInit == FifoInit => FifoInv
<1> SUFFICES ASSUME FifoInit PROVE FifoInv
  OBVIOUS
<1> DEFINE zero == CHOOSE byte \in Byte : TRUE
<1>1. zero \in Byte
  BY RxFifoAssumption
<1>2. fifo = [i \in Index |-> zero]
  BY DEF FifoInit
<1> HIDE DEF zero
<1>3. fifo \in [Index -> Byte]
  BY <1>1, <1>2
<1>4. head \in Index /\ tail \in Index
  BY RxFifoAssumption DEF FifoInit, Index
<1>5. chunk = <<>> /\ copied = FALSE
  BY DEF FifoInit
<1>6. chunk \in Seq(Byte)
  BY <1>5, EmptySeq
<1>7. FifoTypeOK
  BY <1>3, <1>4, <1>5, <1>6 DEF FifoTypeOK
<1>8. CopyHeld
  BY <1>5 DEF CopyHeld
<1> QED
  BY <1>7, <1>8 DEF FifoInv

\* A push leaves the slot at the tail alone once something is in it.
LEMMA PushKeepsInv ==
  ASSUME FifoInv, NEW byte \in Byte, PushByte(byte)
  PROVE  FifoInv'
<1> USE DEF FifoInv
<1>1. NextIndex(head) \in Index
  BY NextIndexType DEF FifoTypeOK
<1>2. FifoTypeOK'
  BY <1>1 DEF FifoTypeOK, PushByte
<1>3. CopyHeld'
  <2> SUFFICES ASSUME copied'
               PROVE  head' # tail' /\ chunk' # <<>> /\ chunk'[Len(chunk')] = fifo'[tail']
    BY DEF CopyHeld
  <2>1. head' # tail'
    BY DEF PushByte, FifoFull
  <2>2. tail # head
    BY DEF PushByte, CopyHeld
  <2>3. fifo'[tail'] = fifo[tail]
    BY <2>2 DEF PushByte, FifoTypeOK
  <2> QED
    BY <2>1, <2>3 DEF PushByte, CopyHeld
<1> QED
  BY <1>2, <1>3

LEMMA CopyKeepsInv ==
  ASSUME FifoInv, CopyByte
  PROVE  FifoInv' /\ chunk' \in Seq(Byte) /\ Len(chunk') = Len(chunk) + 1
<1> USE DEF FifoInv
<1>1. fifo[tail] \in Byte
  BY DEF FifoTypeOK
<1>2. /\ chunk' = Append(chunk, fifo[tail])
      /\ chunk' \in Seq(Byte)
      /\ Len(chunk') = Len(chunk) + 1
      /\ Len(chunk) \in Nat
      /\ chunk'[Len(chunk) + 1] = fifo[tail]
  BY <1>1 DEF CopyByte, FifoTypeOK
<1>3. FifoTypeOK'
  BY <1>2 DEF FifoTypeOK, CopyByte
<1>4. CopyHeld'
  <2>1. head' # tail' /\ fifo'[tail'] = fifo[tail]
    BY DEF CopyByte, FifoEmpty
  <2>2. chunk' # <<>>
    BY <1>2
  <2>3. chunk'[Len(chunk')] = fifo'[tail']
    BY <1>2, <2>1
  <2> QED
    BY <2>1, <2>2, <2>3 DEF CopyHeld
<1> QED
  BY <1>2, <1>3, <1>4

LEMMA FifoInvNext == FifoInv /\ [FifoNext]_fifoVars => FifoInv'
<1> SUFFICES ASSUME FifoInv, [FifoNext]_fifoVars PROVE FifoInv'
  OBVIOUS
<1>1. ASSUME NEW byte \in Byte, PushByte(byte) PROVE FifoInv'
  BY <1>1, PushKeepsInv
<1>2. CASE CopyByte
  BY <1>2, CopyKeepsInv
<1>3. CASE AdvanceTail
  <2>1. NextIndex(tail) \in Index
    BY NextIndexType DEF FifoInv, FifoTypeOK
  <2> QED
    BY <1>3, <2>1 DEF AdvanceTail, FifoInv, FifoTypeOK, CopyHeld
<1>4. CASE HandByte
  <2>1. chunk' \in Seq(Byte)
    BY <1>4 DEF HandByte, FifoInv, FifoTypeOK
  <2> QED
    BY <1>4, <2>1 DEF HandByte, FifoInv, FifoTypeOK, CopyHeld
<1>5. CASE UNCHANGED fifoVars
  BY <1>5 DEF fifoVars, FifoInv, FifoTypeOK, CopyHeld
<1> QED
  BY <1>1, <1>2, <1>3, <1>4, <1>5 DEF FifoNext, PushIsr, DropByte

\* The receive FIFO never indexes outside its ring, and what the main loop
\* has copied is what the interrupt has not overwritten.
THEOREM FifoInvHolds == FifoSpec => []FifoInv
BY FifoInvInit, FifoInvNext, PTL DEF FifoSpec

-----------------------------------------------------------------------------
(* The refinement *)

LEMMA QueueInit == FifoInit => Queue!Init
<1> SUFFICES ASSUME FifoInit PROVE Contents = <<>> /\ Taken = <<>>
  BY DEF Queue!Init
<1>1. Held = 0
  BY DEF FifoInit, Held
<1>2. 1 .. 0 = {}
  OBVIOUS
<1>3. Contents = <<>>
  BY <1>1, <1>2 DEF Contents
<1> QED
  BY <1>3 DEF FifoInit, Taken

\* A push is an Accept.
LEMMA PushAccepts ==
  ASSUME FifoInv, FifoInv', NEW byte \in Byte, PushByte(byte)
  PROVE  Queue!Accept
<1>1. /\ Len(Contents) < FifoSize - 1
      /\ Contents' = Append(Contents, byte)
  BY PushAppends DEF FifoInv
<1>2. Taken' = Taken
  BY DEF PushByte, Taken
<1> QED
  BY <1>1, <1>2 DEF Queue!Accept

\* Copying a byte changes nothing: it still counts as queued.
LEMMA CopyStutters ==
  ASSUME FifoInv, CopyByte
  PROVE  UNCHANGED Queue!queueVars
<1>1. Contents' = Contents
  BY DEF CopyByte, Contents, Held, SlotOf
<1>2. Taken' = Taken
  <2>1. chunk \in Seq(Byte) /\ fifo[tail] \in Byte
    BY DEF FifoInv, FifoTypeOK
  <2>2. Len(chunk') - 1 = Len(chunk) /\ chunk' = Append(chunk, fifo[tail])
    BY <2>1 DEF CopyByte
  <2>3. SubSeq(Append(chunk, fifo[tail]), 1, Len(chunk)) = chunk
    BY <2>1, AppendFront
  <2> QED
    BY <2>2, <2>3 DEF CopyByte, Taken
<1> QED
  BY <1>1, <1>2 DEF Queue!queueVars

\* Moving the tail is a Take.
LEMMA AdvanceIsTake ==
  ASSUME FifoInv, FifoInv', AdvanceTail
  PROVE  Queue!Take
<1>1. /\ Contents # <<>>
      /\ Head(Contents) = fifo[tail]
      /\ Contents' = Tail(Contents)
  BY AdvanceTakes DEF FifoInv
<1>2. /\ chunk \in Seq(Byte) /\ chunk # <<>>
      /\ chunk[Len(chunk)] = fifo[tail]
  BY DEF FifoInv, FifoTypeOK, CopyHeld, AdvanceTail
<1>3. Taken = SubSeq(chunk, 1, Len(chunk) - 1) /\ Taken' = chunk
  BY DEF AdvanceTail, Taken
<1>4. Append(SubSeq(chunk, 1, Len(chunk) - 1), chunk[Len(chunk)]) = chunk
  BY <1>2, FrontLast
<1> QED
  BY <1>1, <1>2, <1>3, <1>4 DEF Queue!Take

\* Handing a byte to the decoder is a Hand.
LEMMA HandIsHand ==
  ASSUME FifoInv, HandByte
  PROVE  Queue!Hand
<1>1. Contents' = Contents
  BY DEF HandByte, Contents, Held, SlotOf
<1>2. Taken = chunk /\ Taken' = Tail(chunk) /\ chunk # <<>>
  BY DEF HandByte, Taken
<1> QED
  BY <1>1, <1>2 DEF Queue!Hand

LEMMA QueueNext ==
  FifoInv /\ FifoInv' /\ [FifoNext]_fifoVars => [Queue!Next]_(Queue!queueVars)
<1> SUFFICES ASSUME FifoInv, FifoInv', [FifoNext]_fifoVars
             PROVE  [Queue!Next]_(Queue!queueVars)
  OBVIOUS
<1>1. ASSUME NEW byte \in Byte, PushByte(byte) PROVE Queue!Next
  BY <1>1, PushAccepts DEF Queue!Next
<1>2. CASE CopyByte
  BY <1>2, CopyStutters
<1>3. CASE AdvanceTail
  BY <1>3, AdvanceIsTake DEF Queue!Next
<1>4. CASE HandByte
  BY <1>4, HandIsHand DEF Queue!Next
<1>5. CASE UNCHANGED fifoVars
  BY <1>5 DEF fifoVars, Queue!queueVars, Contents, Taken, Held, SlotOf
<1> QED
  BY <1>1, <1>2, <1>3, <1>4, <1>5 DEF FifoNext, PushIsr, DropByte

\* The ring of the receive path is a first-in first-out queue of
\* FifoSize - 1 bytes, wherever interrupts fall between the main loop's steps.
THEOREM RingIsQueue == FifoSpec => FifoIsQueue
<1>1. FifoInit => Queue!Init
  BY QueueInit
<1>2. FifoInv /\ FifoInv' /\ [FifoNext]_fifoVars => [Queue!Next]_(Queue!queueVars)
  BY QueueNext
<1> QED
  BY <1>1, <1>2, FifoInvHolds, PTL DEF FifoSpec, FifoIsQueue, Queue!Spec

==============================================================================
