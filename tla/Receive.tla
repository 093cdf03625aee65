------------------------------ MODULE Receive ------------------------------
(***************************************************************************)
(* The receive path of the bootloader: a host that resends a frame until   *)
(* it is answered, a line that loses, damages and adds bytes, the receive  *)
(* interrupt, the ring it fills (RxFifo), and the main loop, which drains  *)
(* the ring, decodes the bytes (FrameDecoder), runs each frame's command   *)
(* and drops a partial frame that went quiet.                              *)
(*                                                                         *)
(* Time is one bit: quiet says that BOOT_DECODER_IDLE_RESET_MS have passed *)
(* since last_rx_ms.  That takes a host that waits or a command that runs  *)
(* for long; the bytes of one frame follow each other much faster (USB     *)
(* packets, a UART at 115200 baud), and so do the rounds of the main loop. *)
(***************************************************************************)
EXTENDS RxFifo, FrameDecoder

CONSTANTS
  Requests,        \* the commands the host sends, one after the other
  Noise,           \* what a damaged or added byte may be
  MaxFaults,       \* bound: bytes lost, damaged or added
  MaxImpatient     \* bound: frames sent without waiting for the device

ASSUME ReceiveAssumption ==
  /\ Kind \subseteq Byte /\ Magic \in Seq(Byte)
  /\ \A kind \in Kind : PayloadOf[kind] \in Seq(Byte)
  /\ Requests \in Seq(Kind) /\ Noise \subseteq Byte
  /\ MaxFaults \in Nat /\ MaxImpatient \in Nat

\* The rest of a header whose CRC is right comes from the host's frames only:
\* a payload that contains one, or noise that makes one up, is out of scope.
ASSUME HeadersAreSent ==
  /\ Magic \in Seq(Byte \ Kind) /\ Noise \cap Kind = {}
  /\ \A kind \in Kind : PayloadOf[kind] \in Seq(Byte \ Kind)

\* The ring holds the longest frame (1024 bytes; a frame has at most 532).
ASSUME FrameFits == \A kind \in Kind : Len(FrameOf(kind)) < FifoSize

VARIABLES
  pc,         \* the main loop: "drain", "feed", "handle" (a command runs) or "poll"
  quiet,      \* millis() - last_rx_ms >= BOOT_DECODER_IDLE_RESET_MS
  request,    \* host: the command that is not answered yet
  wire,       \* host: the bytes of the frame being sent
  pause,      \* host: "none"; "waiting" for an answer; "over": waited long enough;
              \* "answered"
  faults,     \* history: faults of the line
  impatient,  \* history: frames sent without waiting
  overflow,   \* history: the ring has dropped a byte
  tracked,    \* history: the frame on the wire has to be run (see HostSends)
  ran,        \* history: it was
  hurt,       \* history: the bytes since the decoder was last at rest are not
              \* whole frames: some were lost, damaged or added, or an idle
              \* reset dropped the beginning of a frame that goes on
  slow        \* history: a command ran for longer than the idle time after the
              \* last batch came in

hostVars == <<request, wire, pause, impatient>>
ghostVars == <<tracked, ran, hurt, slow>>
vars == <<fifoVars, decoderVars, pc, quiet, hostVars, faults, overflow, ghostVars>>

Done == request > Len(Requests)
AtRest == FifoEmpty /\ ~copied /\ chunk = <<>> /\ ~InFrame

Init ==
  /\ FifoInit /\ DecoderInit
  /\ pc = "drain" /\ quiet = TRUE
  /\ request = 1 /\ wire = <<>> /\ pause = "over"
  /\ faults = 0 /\ impatient = 0 /\ overflow = FALSE
  /\ tracked = FALSE /\ ran = FALSE /\ hurt = FALSE /\ slow = FALSE

-----------------------------------------------------------------------------
(* The host, as the device sees it. *)

\* A frame is tracked when the host waited before it, or when the device has
\* taken in all that came before it and is not in the payload of another frame.
HostSends ==
  /\ ~Done /\ wire = <<>>
  /\ wire' = FrameOf(Requests[request])
  /\ tracked' = \/ pause = "over"
                 \/ /\ FifoEmpty /\ ~copied /\ chunk = <<>> /\ pc \in {"drain", "poll"}
                    /\ ~InPayload /\ ~(InFrame /\ quiet)
  /\ ran' = FALSE
  /\ UNCHANGED <<fifoVars, decoderVars, pc, quiet, request, faults, overflow, hurt, slow>>

HostSendsInTurn ==
  HostSends /\ pause \in {"over", "answered"} /\ pause' = "none" /\ UNCHANGED impatient

HostSendsAgain ==
  /\ pause \in {"none", "waiting"} /\ impatient < MaxImpatient
  /\ impatient' = impatient + 1
  /\ pause' = "none"
  /\ HostSends

\* No answer: every host waits much longer than the idle time, and the device
\* is back in its main loop before the wait is over.  The wait is only over
\* when the line has been quiet for that long.
HostWaits ==
  /\ ~Done /\ wire = <<>>
  /\ pause = "none" \/ (pause = "waiting" /\ ~quiet)
  /\ FifoEmpty /\ chunk = <<>> /\ pc \in {"drain", "poll"}
  /\ pause' = "waiting" /\ quiet' = TRUE
  /\ UNCHANGED <<fifoVars, decoderVars, pc, request, wire, impatient, faults, overflow, ghostVars>>

-----------------------------------------------------------------------------
(* The line and the receive interrupt. *)

Interrupt(byte) ==
  /\ PushIsr(byte)
  /\ overflow' = (overflow \/ FifoFull)
  /\ UNCHANGED <<decoderVars, pc, quiet, request, pause, impatient, ran, slow>>

LineCarries ==
  /\ wire # <<>> /\ wire' = Tail(wire)
  /\ Interrupt(Head(wire))
  /\ tracked' = (tracked /\ ~FifoFull)
  /\ hurt' = (hurt \/ FifoFull)
  /\ UNCHANGED faults

Fault == faults < MaxFaults /\ faults' = faults + 1 /\ hurt' = TRUE /\ tracked' = FALSE

LineDamages ==
  /\ wire # <<>> /\ wire' = Tail(wire)
  /\ \E byte \in Noise \ {Head(wire)} : Interrupt(byte)
  /\ Fault

LineLoses ==
  /\ wire # <<>> /\ wire' = Tail(wire)
  /\ UNCHANGED <<fifoVars, decoderVars, pc, quiet, request, pause, impatient, overflow, ran, slow>>
  /\ Fault

LineAdds ==
  /\ \E byte \in Noise : Interrupt(byte)
  /\ UNCHANGED wire
  /\ Fault

-----------------------------------------------------------------------------
(* The main loop: boot_stm32f072_poll. *)

Drains ==
  /\ pc = "drain"
  /\ CopyByte \/ AdvanceTail
  /\ UNCHANGED <<decoderVars, pc, quiet, hostVars, faults, overflow, ghostVars>>

\* Mutation: last_rx_ms is not refreshed.
DrainFinishedNoTime ==
  /\ pc = "drain" /\ DrainEnds
  /\ pc' = IF chunk = <<>> THEN "poll" ELSE "feed"
  /\ UNCHANGED <<quiet, slow>>
  /\ UNCHANGED <<fifoVars, decoderVars, hostVars, faults, overflow, tracked, ran, hurt>>

\* bootloader_receive_bytes takes the time before it looks at the bytes.
DrainFinished ==
  /\ pc = "drain" /\ DrainEnds
  /\ IF chunk = <<>>
     THEN pc' = "poll" /\ UNCHANGED <<quiet, slow>>
     ELSE pc' = "feed" /\ quiet' = FALSE /\ slow' = FALSE
  /\ UNCHANGED <<fifoVars, decoderVars, hostVars, faults, overflow, tracked, ran, hurt>>

Feeds ==
  /\ pc = "feed"
  /\ Consume(Head(chunk))
  /\ HandByte
  /\ pc' = IF ready' # NotReady THEN "handle" ELSE IF chunk' = <<>> THEN "poll" ELSE "feed"
  /\ hurt' = (hurt /\ ~(AtRest' /\ wire = <<>>))
  /\ UNCHANGED <<quiet, hostVars, faults, overflow, tracked, ran, slow>>

\* bootloader_handle_frame: the command runs, for as long as it takes, and its
\* answer reaches the host, which goes on to its next command.
Handles ==
  /\ pc = "handle"
  /\ ready' = NotReady
  /\ IF ~Done /\ ready = FrameOf(Requests[request])
     THEN request' = request + 1 /\ pause' = "answered" /\ ran' = TRUE
     ELSE UNCHANGED <<request, pause, ran>>
  /\ \E long \in BOOLEAN : quiet' = (quiet \/ long) /\ slow' = (slow \/ long)
  /\ pc' = IF chunk = <<>> THEN "poll" ELSE "feed"
  /\ UNCHANGED <<fifoVars, header, payload, fed, wire, impatient, faults, overflow, tracked, hurt>>

\* Mutation: a partial frame that went quiet is kept.
IdleResetNever == pc = "poll" /\ InFrame /\ quiet /\ UNCHANGED <<decoderVars, fifoVars, hurt>>

\* bootloader_poll
IdleReset ==
  /\ pc = "poll" /\ InFrame /\ quiet
  /\ DecoderReset /\ fed' = <<>>
  /\ hurt' = ~(FifoEmpty /\ wire = <<>>)
  /\ UNCHANGED <<ready, fifoVars>>

NoIdleReset == pc = "poll" /\ ~(InFrame /\ quiet) /\ UNCHANGED <<decoderVars, fifoVars, hurt>>

Polls ==
  /\ IdleReset \/ NoIdleReset
  /\ pc' = "drain"
  /\ pause' = IF pause = "waiting" /\ quiet THEN "over" ELSE pause
  /\ slow' = FALSE
  /\ UNCHANGED <<quiet, request, wire, impatient, faults, overflow, tracked, ran>>

MainLoop == Drains \/ DrainFinished \/ Feeds \/ Handles \/ Polls

Next ==
  \/ HostSendsInTurn \/ HostSendsAgain \/ HostWaits
  \/ LineCarries \/ LineDamages \/ LineLoses \/ LineAdds
  \/ Drains \/ DrainFinished \/ Feeds \/ Handles \/ Polls

\* The main loop never stops, a byte on the line arrives in the end, and a
\* host that has no answer waits and sends again.
Fairness ==
  /\ WF_vars(MainLoop)
  /\ WF_vars(LineCarries)
  /\ WF_vars(HostSendsInTurn)
  /\ WF_vars(HostWaits)

Spec == Init /\ [][Next]_vars /\ Fairness

-----------------------------------------------------------------------------
(* Every variable has its type; a frame is ready exactly while its command
   is about to run. *)
TypeOK ==
  /\ FifoTypeOK
  /\ header \in Seq(Byte) /\ Len(header) <= HeaderSize
  /\ payload \in Seq(Byte)
  /\ ready \in {NotReady} \cup {FrameOf(kind) : kind \in Kind}
  /\ pc \in {"drain", "feed", "handle", "poll"}
  /\ quiet \in BOOLEAN
  /\ request \in 1 .. Len(Requests) + 1
  /\ pause \in {"none", "waiting", "over", "answered"}
  /\ (pc = "handle") <=> (ready # NotReady)

(* Only what the host sent is run: a command that runs is the host's current
   one or one of its earlier ones, never one put together from the bytes of
   two frames or from a damaged one (boot_decoder_consume, both CRCs). *)
OnlySentFramesRun ==
  pc = "handle" => \E i \in 1 .. Len(Requests) : i <= request /\ ready = FrameOf(Requests[i])

(* A frame whose bytes all arrive is run, whatever junk came before it: it is
   enough that the decoder was not waiting for the payload of a damaged
   frame when the first byte came in (boot_decoder_resync; a header that was
   cut short is not completed with the bytes of the retry). *)
IntactFrameRuns ==
  (tracked /\ wire = <<>> /\ FifoEmpty /\ ~copied /\ chunk = <<>>
     /\ pc \in {"drain", "poll"}) => ran

(* The idle reset throws away only what is not a frame: unless a command ran
   for longer than the idle time after the batch came in (last_rx_ms is
   taken before the commands of a batch run, so the reset may then hit a
   frame that is still coming), bytes were lost, damaged or added. *)
IdleResetJustified == [][IdleReset => (hurt \/ slow)]_vars

(* A host that waits for its answers never overflows the ring: bytes are
   dropped only if frames were sent without waiting, or the line added
   bytes (boot_fifo_push_isr; the ring holds the longest frame). *)
WaitingHostNeverOverflows == overflow => (impatient > 0 \/ faults > 0)

(* Every command is run in the end, however bytes were lost: a host that
   waits and resends gets its answer once the line stops losing bytes
   (bootloader_poll drops a partial frame that went quiet). *)
EveryRequestRuns == <>Done

==============================================================================
