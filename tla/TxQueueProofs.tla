---------------------------- MODULE TxQueueProofs ----------------------------
(***************************************************************************)
(* Proofs about TxQueue, for every number of slots and every length of     *)
(* answer: send never writes into a slot the endpoint is reading, and the  *)
(* host receives the answers whole and in order.                           *)
(***************************************************************************)
EXTENDS TxQueue, SequenceLemmas, TLAPS

\* The head is where count says it is.
RingConsistent == head = Nth(count)

\* Between the two halves of poll nothing is in flight, and what is in flight
\* is counted.
FlightCounted == (polling => ~inFlight) /\ (inFlight => count > 0)

TxInv == TypeOK /\ RingConsistent /\ FlightCounted /\ SlotHeldInFlight

-----------------------------------------------------------------------------
\* Nothing fetched yet.
LEMMA NothingFetched ==
  /\ <<>> \in Seq(Packet \cup {NoPacket})
  /\ Len(<<>>) <= Parts
  /\ 1 .. Len(<<>>) = {}
<1>1. <<>> \in Seq(Packet \cup {NoPacket}) /\ Len(<<>>) = 0
  BY EmptySeq
<1> QED
  BY <1>1, TxQueueAssumption

LEMMA NextSlotType ==
  ASSUME NEW i \in Slot
  PROVE  NextSlot(i) \in Slot
BY TxQueueAssumption DEF Slot, NextSlot

\* The head of a queue that is neither empty nor full is not its tail, and
\* stays consistent when an answer is put in or taken out.
LEMMA HeadApart ==
  ASSUME TypeOK, RingConsistent, count > 0, count < QueueSize
  PROVE  head # tail
BY TxQueueAssumption DEF TypeOK, RingConsistent, Nth, Slot

LEMMA RingAfterPut ==
  ASSUME TypeOK, RingConsistent, count < QueueSize
  PROVE  NextSlot(head) = IF tail + (count + 1) < QueueSize
                          THEN tail + (count + 1) ELSE tail + (count + 1) - QueueSize
BY TxQueueAssumption DEF TypeOK, RingConsistent, Nth, Slot, NextSlot

LEMMA RingAfterTake ==
  ASSUME TypeOK, RingConsistent, count > 0
  PROVE  head = IF NextSlot(tail) + (count - 1) < QueueSize
                THEN NextSlot(tail) + (count - 1) ELSE NextSlot(tail) + (count - 1) - QueueSize
BY TxQueueAssumption DEF TypeOK, RingConsistent, Nth, Slot, NextSlot

-----------------------------------------------------------------------------
LEMMA TxInvInit == Init => TxInv
<1> SUFFICES ASSUME Init PROVE TxInv
  OBVIOUS
<1>1. TypeOK
  <2>1. fetched \in Seq(Packet \cup {NoPacket}) /\ Len(fetched) <= Parts
    BY NothingFetched DEF Init
  <2>2. /\ slots \in [Slot -> Packet \cup {NoPacket}]
        /\ received \in [1 .. Parts -> Packet \cup {NoPacket}]
    BY DEF Init
  <2>3. 0 \in Slot
    BY TxQueueAssumption DEF Slot
  <2>4. head \in Slot /\ tail \in Slot /\ source \in Slot
    BY <2>3 DEF Init
  <2>5. count \in 0 .. QueueSize /\ drops \in {0, 1}
    BY TxQueueAssumption DEF Init
  <2>6. inFlight \in BOOLEAN /\ polling \in BOOLEAN /\ txState \in BOOLEAN
    BY DEF Init
  <2> QED
    BY <2>1, <2>2, <2>4, <2>5, <2>6 DEF TypeOK
<1>2. RingConsistent
  BY TxQueueAssumption DEF Init, RingConsistent, Nth
<1>3. FlightCounted /\ SlotHeldInFlight
  BY DEF Init, FlightCounted, SlotHeldInFlight
<1> QED
  BY <1>1, <1>2, <1>3 DEF TxInv

\* The type of every variable is kept by every step.
LEMMA EnqueueKeepsInv ==
  ASSUME TxInv, NEW packet \in Packet, Enqueue(packet)
  PROVE  TxInv'
<1> USE DEF TxInv
<1>1. TypeOK'
  BY NextSlotType, TxQueueAssumption DEF TypeOK, Enqueue, usbVars
<1>2. RingConsistent'
  BY RingAfterPut DEF RingConsistent, Nth, Enqueue
<1>3. FlightCounted'
  BY DEF FlightCounted, Enqueue, TypeOK
<1>4. SlotHeldInFlight'
  <2> SUFFICES ASSUME txState'
               PROVE  /\ inFlight' /\ count' > 0 /\ source' = tail'
                      /\ \A part \in 1 .. Len(fetched') : fetched'[part] = slots'[source']
    BY DEF SlotHeldInFlight
  <2>1. /\ txState /\ inFlight /\ count > 0 /\ source = tail
        /\ \A part \in 1 .. Len(fetched) : fetched[part] = slots[source]
    BY DEF Enqueue, usbVars, SlotHeldInFlight
  <2>2. head # tail
    BY <2>1, HeadApart DEF Enqueue
  <2>3. slots'[source'] = slots[source] /\ fetched' = fetched
    BY <2>1, <2>2 DEF Enqueue, usbVars, TypeOK
  <2> QED
    BY <2>1, <2>3 DEF Enqueue, usbVars, TypeOK
<1> QED
  BY <1>1, <1>2, <1>3, <1>4

LEMMA FreeKeepsInv ==
  ASSUME TxInv, FreeSlot
  PROVE  TxInv'
<1> USE DEF TxInv
<1>1. count > 0 /\ count \in 1 .. QueueSize
  BY TxQueueAssumption DEF FreeSlot, FlightCounted, TypeOK
<1>2. TypeOK'
  <2>1. tail' \in Slot /\ count' \in 0 .. QueueSize
    BY <1>1, NextSlotType, TxQueueAssumption DEF TypeOK, FreeSlot
  <2>2. inFlight' \in BOOLEAN /\ polling' \in BOOLEAN
    BY DEF FreeSlot
  <2>3. UNCHANGED <<slots, head, drops, usbVars>>
    BY DEF FreeSlot
  <2> QED
    BY <2>1, <2>2, <2>3 DEF TypeOK, usbVars
<1>3. RingConsistent'
  BY <1>1, RingAfterTake DEF RingConsistent, Nth, FreeSlot
<1>4. FlightCounted' /\ SlotHeldInFlight'
  BY DEF FlightCounted, SlotHeldInFlight, FreeSlot, usbVars
<1> QED
  BY <1>2, <1>3, <1>4

LEMMA TransmitKeepsInv ==
  ASSUME TxInv, Transmit
  PROVE  TxInv'
<1> USE DEF TxInv
<1>1. fetched' \in Seq(Packet \cup {NoPacket}) /\ Len(fetched') <= Parts /\ 1 .. Len(fetched') = {}
  BY NothingFetched DEF Transmit
<1>2. TypeOK'
  BY <1>1 DEF TypeOK, Transmit
<1>3. RingConsistent'
  BY DEF RingConsistent, Nth, Transmit
<1>4. FlightCounted'
  BY DEF FlightCounted, Transmit
<1>5. SlotHeldInFlight'
  BY <1>1 DEF SlotHeldInFlight, Transmit
<1> QED
  BY <1>2, <1>3, <1>4, <1>5

LEMMA FetchKeepsInv ==
  ASSUME TxInv, HostFetches
  PROVE  TxInv'
<1> USE DEF TxInv
<1>1. slots[source] \in Packet \cup {NoPacket}
  BY DEF TypeOK
<1>2. /\ fetched' \in Seq(Packet \cup {NoPacket})
      /\ Len(fetched') = Len(fetched) + 1 /\ Len(fetched) \in Nat
      /\ \A part \in 1 .. Len(fetched) + 1 :
           fetched'[part] = IF part = Len(fetched) + 1 THEN slots[source] ELSE fetched[part]
  BY <1>1 DEF HostFetches, TypeOK
<1>3. TypeOK'
  BY <1>2, TxQueueAssumption DEF TypeOK, HostFetches, queueVars
<1>4. RingConsistent' /\ FlightCounted'
  BY DEF RingConsistent, Nth, FlightCounted, HostFetches, queueVars
<1>5. SlotHeldInFlight'
  <2>1. /\ inFlight /\ count > 0 /\ source = tail
        /\ \A part \in 1 .. Len(fetched) : fetched[part] = slots[source]
    BY DEF SlotHeldInFlight, HostFetches
  <2>2. \A part \in 1 .. Len(fetched) + 1 : fetched'[part] = slots[source]
    BY <1>2, <2>1
  <2> QED
    BY <1>2, <2>1, <2>2 DEF SlotHeldInFlight, HostFetches, queueVars
<1> QED
  BY <1>3, <1>4, <1>5

\* The endpoint falls idle: the transfer is over, or the host configures anew.
LEMMA IdleKeepsInv ==
  ASSUME TxInv, TransferCompletes \/ HostConfigures
  PROVE  TxInv'
<1> USE DEF TxInv
<1>1. fetched' \in Seq(Packet \cup {NoPacket}) /\ Len(fetched') <= Parts
  <2>1. fetched' = <<>>
    BY DEF TransferCompletes, HostConfigures
  <2> QED
    BY <2>1, NothingFetched
<1>2. received' \in [1 .. Parts -> Packet \cup {NoPacket}]
  <2>1. CASE TransferCompletes
    <3>1. fetched \in [1 .. Len(fetched) -> Packet \cup {NoPacket}]
      BY LenProperties DEF TypeOK
    <3> QED
      BY <2>1, <3>1 DEF TransferCompletes
  <2>2. CASE HostConfigures
    BY <2>2 DEF HostConfigures, TypeOK
  <2> QED
    BY <2>1, <2>2
<1>3. TypeOK'
  BY <1>1, <1>2 DEF TypeOK, TransferCompletes, HostConfigures, queueVars
<1>4. RingConsistent' /\ FlightCounted' /\ SlotHeldInFlight'
  BY DEF RingConsistent, Nth, FlightCounted, SlotHeldInFlight, TransferCompletes,
         HostConfigures, queueVars
<1> QED
  BY <1>3, <1>4

\* Drop, and the halves of poll that find nothing to do.
LEMMA QuietKeepsInv ==
  ASSUME TxInv, Drop \/ NothingInFlight \/ NothingToTransmit \/ UNCHANGED vars
  PROVE  TxInv'
<1> USE DEF TxInv
<1>1. TypeOK'
  <2>1. CASE Drop
    <3>1. drops' \in {0, 1}
      BY <2>1 DEF Drop, TypeOK
    <3>2. UNCHANGED <<slots, head, tail, count, inFlight, polling, usbVars>>
      BY <2>1 DEF Drop
    <3> QED
      BY <3>1, <3>2 DEF TypeOK, usbVars
  <2>2. CASE NothingInFlight \/ NothingToTransmit \/ UNCHANGED vars
    <3>1. polling' \in BOOLEAN
      BY <2>2 DEF TypeOK, NothingInFlight, NothingToTransmit, vars
    <3>2. UNCHANGED <<queueVars, usbVars>>
      BY <2>2 DEF NothingInFlight, NothingToTransmit, vars
    <3> QED
      BY <3>1, <3>2 DEF TypeOK, queueVars, usbVars
  <2> QED
    BY <2>1, <2>2
<1>2. RingConsistent' /\ FlightCounted' /\ SlotHeldInFlight'
  BY DEF RingConsistent, Nth, FlightCounted, SlotHeldInFlight, Drop, NothingInFlight,
         NothingToTransmit, vars, queueVars, usbVars
<1> QED
  BY <1>1, <1>2

LEMMA TxInvNext == TxInv /\ [Next]_vars => TxInv'
<1> SUFFICES ASSUME TxInv, [Next]_vars PROVE TxInv'
  OBVIOUS
<1>1. ASSUME NEW packet \in Packet, Enqueue(packet) PROVE TxInv'
  BY <1>1, EnqueueKeepsInv
<1>2. CASE FreeSlot
  BY <1>2, FreeKeepsInv
<1>3. CASE Transmit
  BY <1>3, TransmitKeepsInv
<1>4. CASE HostFetches
  BY <1>4, FetchKeepsInv
<1>5. CASE TransferCompletes \/ HostConfigures
  BY <1>5, IdleKeepsInv
<1>6. CASE Drop \/ NothingInFlight \/ NothingToTransmit \/ UNCHANGED vars
  BY <1>6, QuietKeepsInv
<1> QED
  BY <1>1, <1>2, <1>3, <1>4, <1>5, <1>6 DEF Next, Send, Poll

\* The inductive invariant of the transmit queue.
LEMMA TxInvHolds == Spec => []TxInv
BY TxInvInit, TxInvNext, PTL DEF Spec

\* The indexes stay inside the array and the count inside its bounds, whatever
\* the order of sends, polls and interrupts (boot_target_usb_transport_send,
\* boot_target_usb_transport_poll).
THEOREM TxTypeCorrect == Spec => []TypeOK
<1>1. TxInv => TypeOK
  BY DEF TxInv
<1> QED
  BY <1>1, TxInvHolds, PTL

\* The endpoint never reads a slot that boot_target_usb_transport_send may
\* write, and what the host has fetched is one answer.
THEOREM SlotsAreHeld == Spec => []SlotHeldInFlight
<1>1. TxInv => SlotHeldInFlight
  BY DEF TxInv
<1> QED
  BY <1>1, TxInvHolds, PTL

-----------------------------------------------------------------------------
(* The refinement: what has been sent and has not left is a queue.         *)

\* How many answers wait: those counted, less the one that has left.
Size == count - Gone

\* The answers waiting are a sequence, of the slots from the oldest on.
LEMMA WaitingType ==
  ASSUME TxInv
  PROVE  /\ Gone \in {0, 1} /\ Size \in 0 .. QueueSize
         /\ \A k \in 1 .. Size : Nth(k - 1 + Gone) \in Slot
         /\ Waiting \in Seq(Packet \cup {NoPacket})
         /\ Len(Waiting) = Size
<1>1. Gone \in {0, 1} /\ (Gone = 1 => count > 0)
  BY DEF Gone, TxInv, FlightCounted
<1>2. Size \in 0 .. QueueSize
  BY <1>1, TxQueueAssumption DEF Size, TxInv, TypeOK
<1>3. ASSUME NEW k \in 1 .. Size
      PROVE  Nth(k - 1 + Gone) \in Slot
  BY <1>1, <1>2, TxQueueAssumption DEF Size, Nth, Slot, TxInv, TypeOK
<1>4. Waiting \in [1 .. Size -> Packet \cup {NoPacket}]
  BY <1>3 DEF Waiting, Size, TxInv, TypeOK
<1>5. Size \in Nat
  BY <1>2, TxQueueAssumption
<1> QED
  BY <1>1, <1>2, <1>3, <1>4, <1>5

\* Where an answer is in flight, the first one waiting is in the slot the
\* endpoint reads.
LEMMA FirstWaiting ==
  ASSUME TxInv, txState
  PROVE  Gone = 0 /\ Waiting # <<>> /\ Head(Waiting) = slots[source]
<1>1. Gone = 0 /\ count > 0 /\ source = tail
  BY DEF Gone, TxInv, SlotHeldInFlight
<1>2. Nth(0) = tail
  BY TxQueueAssumption DEF Nth, TxInv, TypeOK, Slot
<1>3. Size > 0 /\ 1 \in 1 .. Size /\ 1 - 1 + Gone = 0
  BY <1>1, WaitingType DEF Size, TxInv, TypeOK
<1>4. Waiting[1] = slots[Nth(0)]
  BY <1>3 DEF Waiting, Size
<1>5. Waiting # <<>>
  BY <1>3, WaitingType
<1> QED
  BY <1>1, <1>2, <1>4, <1>5, WaitingType

LEMMA WaitingInit == Init => Packets!Init
<1> SUFFICES ASSUME Init PROVE Waiting = <<>> /\ Out = NoPacket /\ drops = 0
  BY DEF Packets!Init
<1>1. Waiting = <<>>
  <2>1. count = 0 /\ inFlight = FALSE
    BY DEF Init
  <2>2. Gone = 0
    BY <2>1 DEF Gone
  <2>3. count - Gone = 0
    BY <2>1, <2>2
  <2>4. 1 .. count - Gone = {}
    BY <2>3
  <2> QED
    BY <2>4 DEF Waiting
<1>2. Out = NoPacket
  BY TxQueueAssumption DEF Init, Out
<1> QED
  BY <1>1, <1>2 DEF Init

\* An answer enqueued is an Accept.
LEMMA EnqueueAccepts ==
  ASSUME TxInv, NEW packet \in Packet, Enqueue(packet)
  PROVE  Packets!Accept
<1>1. /\ Gone' = Gone /\ Out' = Out /\ drops' = drops
      /\ count' = count + 1 /\ count < QueueSize
      /\ slots' = [slots EXCEPT ![head] = packet]
      /\ \A k : Nth(k)' = Nth(k)
  BY DEF Enqueue, Gone, Out, Nth, usbVars
<1>2. Size' = Size + 1 /\ Size \in Nat /\ Size < QueueSize /\ Gone \in {0, 1}
  BY <1>1, WaitingType, TxQueueAssumption DEF Size, TxInv, TypeOK
<1>3. ASSUME NEW k \in 1 .. Size + 1
      PROVE  slots'[Nth(k - 1 + Gone)'] = IF k = Size + 1 THEN packet
                                                         ELSE slots[Nth(k - 1 + Gone)]
  <2>1. Nth(k - 1 + Gone)' = Nth(k - 1 + Gone)
    BY <1>1
  <2>2. CASE k = Size + 1
    <3>1. k - 1 + Gone = count
      BY <1>2, <2>2 DEF Size, TxInv, TypeOK
    <3>2. Nth(k - 1 + Gone) = head /\ head \in Slot
      BY <3>1 DEF TxInv, RingConsistent, TypeOK
    <3> QED
      BY <1>1, <2>1, <2>2, <3>2 DEF TxInv, TypeOK
  <2>3. CASE k # Size + 1
    <3>1. k \in 1 .. Size
      BY <1>2, <2>3
    <3>2. Nth(k - 1 + Gone) # head
      BY <1>1, <1>2, <3>1, TxQueueAssumption
         DEF Size, TxInv, TypeOK, RingConsistent, Nth, Slot
    <3> QED
      BY <1>1, <2>1, <2>3, <3>1, <3>2, WaitingType DEF TxInv, TypeOK
  <2> QED
    BY <2>2, <2>3
<1>4. Waiting' = [k \in 1 .. Size + 1 |-> IF k = Size + 1 THEN packet
                                                          ELSE slots[Nth(k - 1 + Gone)]]
  <2>1. Waiting' = [k \in 1 .. Size + 1 |-> slots'[Nth(k - 1 + Gone)']]
    BY <1>1, <1>2 DEF Waiting, Size
  <2> QED
    BY <1>3, <2>1
<1>5. Append(Waiting, packet) =
        [k \in 1 .. Size + 1 |-> IF k = Size + 1 THEN packet ELSE slots[Nth(k - 1 + Gone)]]
  <2>1. Append(Waiting, packet) =
          [k \in 1 .. Len(Waiting) + 1 |-> IF k = Len(Waiting) + 1 THEN packet ELSE Waiting[k]]
    BY WaitingType, AppendElements
  <2>2. ASSUME NEW k \in 1 .. Size + 1, k # Size + 1
        PROVE  Waiting[k] = slots[Nth(k - 1 + Gone)]
    <3>1. k \in 1 .. Size
      BY <1>2, <2>2
    <3> QED
      BY <3>1 DEF Waiting, Size
  <2> QED
    BY <2>1, <2>2, WaitingType
<1> QED
  BY <1>1, <1>2, <1>4, <1>5, WaitingType DEF Packets!Accept

\* An answer dropped is refused by a queue that is full, or holds one that has
\* left.
LEMMA DropRefuses ==
  ASSUME TxInv, Drop
  PROVE  Packets!Refuse
<1>1. Waiting' = Waiting /\ Out' = Out
  BY DEF Drop, Waiting, Gone, Nth, Out, usbVars
<1>2. Size >= QueueSize - 1
  BY WaitingType, TxQueueAssumption DEF Drop, Size, TxInv, TypeOK
<1> QED
  BY <1>1, <1>2, WaitingType DEF Packets!Refuse, Drop

\* Freeing the slot of an answer that has left changes nothing of the queue.
LEMMA FreeStutters ==
  ASSUME TxInv, FreeSlot
  PROVE  UNCHANGED Packets!queueVars
<1>1. Gone = 1 /\ Gone' = 0 /\ count' = count - 1 /\ slots' = slots
  BY DEF FreeSlot, Gone, usbVars
<1>2. count \in 1 .. QueueSize
  BY DEF FreeSlot, TxInv, FlightCounted, TypeOK
<1>3. ASSUME NEW k \in 1 .. count - 1
      PROVE  Nth(k - 1)' = Nth(k)
  BY <1>2, TxQueueAssumption DEF FreeSlot, Nth, NextSlot, Slot, TxInv, TypeOK
<1>4. Waiting = [k \in 1 .. count - 1 |-> slots[Nth(k)]]
  BY <1>1, <1>2 DEF Waiting
<1>5. Waiting' = [k \in 1 .. count - 1 |-> slots[Nth(k - 1)']]
  BY <1>1, <1>2 DEF Waiting
<1>6. Waiting' = Waiting
  BY <1>3, <1>4, <1>5
<1> QED
  BY <1>6 DEF Packets!queueVars, FreeSlot, Out, usbVars

\* Giving an answer to the endpoint changes nothing of the queue.
LEMMA TransmitStutters ==
  ASSUME TxInv, Transmit
  PROVE  UNCHANGED Packets!queueVars
<1>1. Gone = 0 /\ Gone' = 0
  BY DEF Transmit, Gone, TxInv, FlightCounted
<1> QED
  BY <1>1 DEF Transmit, Waiting, Nth, Out, Packets!queueVars

\* When the endpoint falls idle the answer it had is the first to leave.
LEMMA IdleTakes ==
  ASSUME TxInv, txState, txState' = FALSE, UNCHANGED queueVars
  PROVE  Waiting # <<>> /\ Waiting' = Tail(Waiting)
<1>1. Gone = 0 /\ Gone' = 1 /\ Waiting # <<>>
  BY FirstWaiting DEF Gone, queueVars, TxInv, SlotHeldInFlight
<1>2. count' = count /\ slots' = slots /\ \A k : Nth(k)' = Nth(k)
  BY DEF queueVars, Nth
<1>3. Size \in Nat /\ Size = count
  BY <1>1, WaitingType, TxQueueAssumption DEF Size, TxInv, TypeOK
<1>4. Waiting' = [k \in 1 .. count - 1 |-> slots[Nth(k)]]
  <2>1. Waiting' = [k \in 1 .. count - 1 |-> slots[Nth(k - 1 + 1)]]
    BY <1>1, <1>2 DEF Waiting
  <2>2. \A k \in 1 .. count - 1 : k - 1 + 1 = k
    BY <1>3
  <2> QED
    BY <2>1, <2>2
<1>5. Tail(Waiting) = [k \in 1 .. count - 1 |-> slots[Nth(k)]]
  <2>1. Tail(Waiting) = [k \in 1 .. Len(Waiting) - 1 |-> Waiting[k + 1]]
    BY <1>1, WaitingType, TailElements
  <2>2. ASSUME NEW k \in 1 .. count - 1
        PROVE  Waiting[k + 1] = slots[Nth(k)]
    <3>1. k + 1 \in 1 .. count - Gone /\ k + 1 - 1 + Gone = k
      BY <1>1, <1>3
    <3> QED
      BY <3>1 DEF Waiting
  <2> QED
    BY <1>3, <2>1, <2>2, WaitingType
<1> QED
  BY <1>1, <1>4, <1>5

\* A transfer that is complete delivers the answer, whole.
LEMMA CompleteDelivers ==
  ASSUME TxInv, TransferCompletes
  PROVE  Packets!Deliver
<1>1. Waiting # <<>> /\ Waiting' = Tail(Waiting)
  BY IdleTakes DEF TransferCompletes
<1>2. Head(Waiting) = slots[source]
  BY FirstWaiting DEF TransferCompletes
<1>3. \A part \in 1 .. Parts : received'[part] = slots[source]
  BY DEF TransferCompletes, TxInv, SlotHeldInFlight
<1>4. 1 \in 1 .. Parts
  BY TxQueueAssumption
<1>5. Out' = slots[source]
  BY <1>3, <1>4 DEF Out
<1> QED
  BY <1>1, <1>2, <1>5 DEF Packets!Deliver, TransferCompletes, queueVars

\* A new configuration loses the answer in flight, if there is one.
LEMMA ConfigureLoses ==
  ASSUME TxInv, HostConfigures
  PROVE  Packets!Lose \/ UNCHANGED Packets!queueVars
<1>1. Out' = Out /\ drops' = drops
  BY DEF HostConfigures, Out, queueVars
<1>2. CASE txState
  <2>1. Waiting # <<>> /\ Waiting' = Tail(Waiting)
    BY <1>2, IdleTakes DEF HostConfigures
  <2> QED
    BY <1>1, <2>1 DEF Packets!Lose
<1>3. CASE ~txState
  <2>1. txState' = txState
    BY <1>3 DEF HostConfigures, TxInv, TypeOK
  <2> QED
    BY <1>1, <2>1 DEF HostConfigures, Waiting, Gone, Nth, queueVars, Packets!queueVars
<1> QED
  BY <1>2, <1>3

\* The other steps change nothing of the queue.
LEMMA QuietStutters ==
  ASSUME NothingInFlight \/ NothingToTransmit \/ HostFetches \/ UNCHANGED vars
  PROVE  UNCHANGED Packets!queueVars
BY DEF NothingInFlight, NothingToTransmit, HostFetches, vars, queueVars, usbVars,
       Waiting, Gone, Nth, Out, Packets!queueVars

\* Every step of the transmit path is a step of the queue, or none.
LEMMA QueueNext == TxInv /\ [Next]_vars => [Packets!Next]_(Packets!queueVars)
<1> SUFFICES ASSUME TxInv, [Next]_vars PROVE [Packets!Next]_(Packets!queueVars)
  OBVIOUS
<1>1. ASSUME NEW packet \in Packet, Enqueue(packet) PROVE Packets!Next
  BY <1>1, EnqueueAccepts DEF Packets!Next
<1>2. CASE Drop
  BY <1>2, DropRefuses DEF Packets!Next
<1>3. CASE FreeSlot
  BY <1>3, FreeStutters
<1>4. CASE Transmit
  BY <1>4, TransmitStutters
<1>5. CASE TransferCompletes
  BY <1>5, CompleteDelivers DEF Packets!Next, Packets!Leave
<1>6. CASE HostConfigures
  BY <1>6, ConfigureLoses DEF Packets!Next, Packets!Leave
<1>7. CASE NothingInFlight \/ NothingToTransmit \/ HostFetches \/ UNCHANGED vars
  BY <1>7, QuietStutters
<1> QED
  BY <1>1, <1>2, <1>3, <1>4, <1>5, <1>6, <1>7 DEF Next, Send, Poll

\* The safety part of AnswersLeaveInOrder: the ring, the in_flight flag and the
\* endpoint together step as a queue does, so the host receives the answers
\* whole and in order, and only a full queue or a new configuration loses one.
THEOREM AnswersStepInOrder == Spec => Packets!Init /\ [][Packets!Next]_(Packets!queueVars)
BY WaitingInit, QueueNext, TxInvHolds, PTL DEF Spec

==============================================================================
