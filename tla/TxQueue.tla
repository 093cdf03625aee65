------------------------------- MODULE TxQueue -------------------------------
(***************************************************************************)
(* boot_target_common.c: the queue of answers in front of the USB endpoint,*)
(* with what it needs of the CDC class driver.  The main loop sends (a     *)
(* command's answer) and polls; the endpoint's interrupts come at any time.*)
(*                                                                         *)
(* The driver does not copy an answer: the endpoint reads the slot of the  *)
(* queue while the host fetches it, a USB packet at a time, and reports    *)
(* through TxState when it has finished.                                   *)
(***************************************************************************)
EXTENDS Naturals, Sequences

CONSTANTS
  Packet,      \* the answers
  NoPacket, Torn,  \* not an answer: nothing yet, the parts of different answers
  QueueSize,   \* the number of slots, 8 in the code
  Parts        \* how many USB packets make an answer

ASSUME TxQueueAssumption ==
  /\ Packet # {} /\ {NoPacket, Torn} \cap Packet = {}
  /\ QueueSize \in Nat \ {0} /\ Parts \in Nat \ {0}

VARIABLES
  slots,      \* queue[].data
  head,       \* head: where send writes
  tail,       \* tail: the oldest answer
  count,      \* count
  inFlight,   \* in_flight: the oldest answer was given to the endpoint
  polling,    \* between the two halves of poll: an interrupt may come there
  drops,      \* diag.tx_queue_drop_count modulo 2
  txState,    \* the class driver's TxState: the endpoint is busy
  source,     \* the slot the endpoint reads (its TxBuffer)
  fetched,    \* the parts of it the host has fetched
  received    \* the parts of the answer the host received last

queueVars == <<slots, head, tail, count, inFlight, drops>>
usbVars == <<txState, source, fetched, received>>
vars == <<queueVars, polling, usbVars>>

Slot == 0 .. QueueSize - 1
\* Mutation: the index wraps one slot too late.
NextSlotLate(i) == IF i = QueueSize THEN 0 ELSE i + 1

NextSlot(i) == IF i = QueueSize - 1 THEN 0 ELSE i + 1

Init ==
  /\ slots = [i \in Slot |-> NoPacket]
  /\ head = 0 /\ tail = 0 /\ count = 0
  /\ inFlight = FALSE /\ polling = FALSE /\ drops = 0
  /\ txState = FALSE /\ source = 0 /\ fetched = <<>>
  /\ received = [part \in 1 .. Parts |-> NoPacket]

-----------------------------------------------------------------------------
(* boot_target_usb_transport_send. *)
Enqueue(packet) ==
  /\ ~polling /\ count < QueueSize
  /\ slots' = [slots EXCEPT ![head] = packet]
  /\ head' = NextSlot(head)
  /\ count' = count + 1
  /\ UNCHANGED <<tail, inFlight, polling, drops, usbVars>>

Drop ==
  /\ ~polling /\ count >= QueueSize
  /\ drops' = 1 - drops
  /\ UNCHANGED <<slots, head, tail, count, inFlight, polling, usbVars>>

Send == (\E packet \in Packet : Enqueue(packet)) \/ Drop

\* Mutation: the slot is freed as soon as it was given to the endpoint.
FreeSlotEarly ==
  /\ ~polling /\ inFlight
  /\ tail' = NextSlot(tail)
  /\ count' = count - 1
  /\ inFlight' = FALSE
  /\ polling' = TRUE
  /\ UNCHANGED <<slots, head, drops, usbVars>>

(* boot_target_usb_transport_poll, up to its second look at TxState: the
   answer in flight has left, or there was none. *)
FreeSlot ==
  /\ ~polling /\ inFlight /\ ~txState
  /\ tail' = NextSlot(tail)
  /\ count' = count - 1
  /\ inFlight' = FALSE
  /\ polling' = TRUE
  /\ UNCHANGED <<slots, head, drops, usbVars>>

NothingInFlight ==
  /\ ~polling /\ ~inFlight
  /\ polling' = TRUE
  /\ UNCHANGED <<queueVars, usbVars>>

\* Mutation: poll does not note that an answer is in flight.
TransmitUnnoted ==
  /\ polling /\ count > 0 /\ ~txState
  /\ txState' = TRUE /\ source' = tail /\ fetched' = <<>>
  /\ polling' = FALSE
  /\ UNCHANGED <<slots, head, tail, count, inFlight, drops, received>>

(* The rest of poll.  Nothing but CDC_Transmit sets TxState, so CDC_Transmit
   never answers USBD_BUSY here. *)
Transmit ==
  /\ polling /\ count > 0 /\ ~txState
  /\ inFlight' = TRUE
  /\ txState' = TRUE /\ source' = tail /\ fetched' = <<>>
  /\ polling' = FALSE
  /\ UNCHANGED <<slots, head, tail, count, drops, received>>

NothingToTransmit ==
  /\ polling /\ (count = 0 \/ txState)
  /\ polling' = FALSE
  /\ UNCHANGED <<queueVars, usbVars>>

Poll == FreeSlot \/ NothingInFlight \/ Transmit \/ NothingToTransmit

-----------------------------------------------------------------------------
(* The endpoint, in the CDC class driver. *)

HostFetches ==
  /\ txState /\ Len(fetched) < Parts
  /\ fetched' = Append(fetched, slots[source])
  /\ UNCHANGED <<queueVars, polling, txState, source, received>>

\* DataIn: the last part is out.
TransferCompletes ==
  /\ txState /\ Len(fetched) = Parts
  /\ txState' = FALSE /\ fetched' = <<>>
  /\ received' = fetched
  /\ UNCHANGED <<queueVars, polling, source>>

\* Init: the host configures the device, at the start or after a bus reset.
HostConfigures ==
  /\ txState' = FALSE /\ fetched' = <<>>
  /\ UNCHANGED <<queueVars, polling, source, received>>

Usb == HostFetches \/ TransferCompletes

Next ==
  \/ Send \/ Poll
  \/ HostFetches \/ TransferCompletes \/ HostConfigures

\* The main loop polls for ever, and a host that has the port open reads it.
Spec == Init /\ [][Next]_vars /\ WF_vars(Poll) /\ WF_vars(Usb)

-----------------------------------------------------------------------------
(* Every variable has its type: the indexes stay inside the array, whatever
   the order of sends, polls and interrupts. *)
TypeOK ==
  /\ slots \in [Slot -> Packet \cup {NoPacket}]
  /\ head \in Slot /\ tail \in Slot /\ source \in Slot
  /\ count \in 0 .. QueueSize
  /\ inFlight \in BOOLEAN /\ polling \in BOOLEAN /\ txState \in BOOLEAN
  /\ drops \in {0, 1}
  /\ fetched \in Seq(Packet \cup {NoPacket}) /\ Len(fetched) <= Parts
  /\ received \in [1 .. Parts -> Packet \cup {NoPacket}]

\* The index k slots after the tail.
Nth(k) == IF tail + k < QueueSize THEN tail + k ELSE tail + k - QueueSize

(* The endpoint never reads a slot that send may write: while a transfer
   runs, its slot is the oldest of the queue, it stays counted, and what the
   host has fetched is what the slot holds (boot_target_usb_transport_poll
   frees a slot only when TxState is clear). *)
SlotHeldInFlight ==
  txState => /\ inFlight /\ count > 0 /\ source = tail
             /\ \A part \in 1 .. Len(fetched) : fetched[part] = slots[source]

\* An answer that has left still fills its slot until poll frees it.
Gone == IF inFlight /\ ~txState THEN 1 ELSE 0
Waiting == [k \in 1 .. count - Gone |-> slots[Nth(k - 1 + Gone)]]
Out == IF \A part \in 1 .. Parts : received[part] = received[1] THEN received[1] ELSE Torn

Packets == INSTANCE PacketQueue WITH
  Capacity <- QueueSize, queue <- Waiting, out <- Out, refusals <- drops

(* The ring, the in_flight flag and the endpoint together are a queue: the
   host receives the answers whole and in order, only a full queue or a new
   configuration loses one, and an answer does not wait for ever while the
   host reads (boot_target_usb_transport_send and _poll). *)
AnswersLeaveInOrder == Packets!Spec

==============================================================================
