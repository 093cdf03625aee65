------------------------------ MODULE HostLink ------------------------------
(***************************************************************************)
(* The host tool's "flash" command (tools/boot_test.py: flash_image,       *)
(* send_frame_and_read, best_effort_abort, reconnect_after_exception)      *)
(* talking to the bootloader of module Bootloader over a line that loses   *)
(* and damages frames, while the device may lose power, reset or start the *)
(* application.                                                            *)
(*                                                                         *)
(* Frames and answers arrive in order.  A frame in toDevice has reached    *)
(* the receive FIFO and is lost by a reset; an answer in toHost is         *)
(* anywhere between the transmit queue and the host's input buffer.        *)
(***************************************************************************)
EXTENDS Bootloader

CONSTANTS
  Retries,     \* --retries: tries for each command
  MaxRuns,     \* bound: times the tool is run
  MaxFaults,   \* bound: lost or damaged frames and early timeouts
  MaxUpsets    \* bound: kills of the tool, power cycles, and flash operations that
               \* fail or are cut short, together

ASSUME HostLinkAssumption ==
  /\ Retries \in Nat \ {0}
  /\ MaxRuns \in Nat /\ MaxFaults \in Nat /\ MaxUpsets \in Nat

\* What the tool sends is among what hosts send: it refuses an empty image file
\* (load_image_bytes); it sends whole chunks, under the sequence numbers of
\* flash_image.
ASSUME ToolAssumption == \A req \in Requests : req.image # <<>>

ASSUME FrameAssumption ==
  /\ "NONE" \in Shapes
  /\ 1 .. SlotChunks + 6 \subseteq Seqs
  /\ {32765, 32766, 32767} \subseteq Seqs

VARIABLES
  step,        \* the command flash_image is at, "idle" when the tool does not run
  index,       \* the chunk DATA is at
  attempt,     \* the try of send_frame_and_read
  awaiting,    \* the frame of this try is sent
  mismatch,    \* another answer was read in this try
  wanted,      \* the request of this run
  port,        \* the serial port: "open" or "broken" (the USB device went away)
  reopened,    \* flash_image works on a port of its own; main's is closed
  verdict,     \* history: "none", "running", "ok", "failed"
  toDevice, toHost,
  runs,        \* history: times the tool was run
  faults,      \* history: what went wrong on the line
  upsets       \* history: kills and power cycles

host == <<step, index, attempt, awaiting, mismatch, wanted, port, reopened, verdict, runs>>
linkVars == <<vars, host, toDevice, toHost, faults, upsets>>

HostStep == {"HELLO", "GET_DEVICE_INFO", "BEGIN", "BEGIN_RECOVER", "SET_MANIFEST", "DATA",
             "COMMIT", "COMMIT_RECOVER", "BOOT_APP", "ABORT"}

-----------------------------------------------------------------------------
(* What the host sends *)

Signed == "sig" \in wanted.flags
Chunks == Len(wanted.image)

\* The manifest the tool is given as a file or signs with the key it is given
\* (flash_image's manifest_payload); Manifests is what there is to give.
Manifest == [req |-> wanted, sha |-> wanted.image, signed |-> TRUE]
HasManifest == Manifest \in Manifests

\* The plaintext chunk, encrypted when the update is.
Upload == Plaintext([begin |-> wanted], index, wanted.image[index + 1])

\* The sequence numbers of flash_image; those of the last three are fixed.
Sequence ==
  CASE step = "HELLO" -> 1
    [] step = "GET_DEVICE_INFO" -> 2
    [] step = "BEGIN" -> 3
    [] step = "SET_MANIFEST" -> 4
    [] step = "DATA" -> (IF Signed THEN 5 ELSE 4) + index
    [] step = "COMMIT" -> (IF Signed THEN 5 ELSE 4) + Chunks
    [] step = "BOOT_APP" -> (IF Signed THEN 6 ELSE 5) + Chunks
    [] step = "COMMIT_RECOVER" -> 32765
    [] step = "BEGIN_RECOVER" -> 32766
    [] step = "ABORT" -> 32767

Opcode == IF step \in {"BEGIN_RECOVER", "COMMIT_RECOVER"} THEN "GET_STATUS" ELSE step

Body ==
  CASE step = "BEGIN" -> wanted
    [] step = "SET_MANIFEST" -> Manifest
    [] step = "DATA" -> [offset |-> index, chunk |-> Upload, shape |-> "NONE"]
    [] step = "COMMIT" -> wanted.image
    [] OTHER -> None

\* What may be left after reset_input_buffer: an answer still under way survives it.
Suffixes(s) == {SubSeq(s, k + 1, Len(s)) : k \in 0 .. Len(s)}

-----------------------------------------------------------------------------
(* Where flash_image goes from a step *)

GoTo(s) ==
  /\ step' = s /\ attempt' = 1 /\ awaiting' = FALSE /\ mismatch' = FALSE
  /\ index' = IF s = "DATA" /\ step = "DATA" THEN index + 1 ELSE 0
  /\ UNCHANGED <<wanted, port, verdict, runs>>

Finish(v) ==
  /\ step' = "idle" /\ verdict' = v
  /\ index' = 0 /\ attempt' = 1 /\ awaiting' = FALSE /\ mismatch' = FALSE
  /\ port' = "open" /\ reopened' = FALSE
  /\ UNCHANGED <<wanted, runs>>

\* main: an exception ends the run, after an ABORT on main's own port object.
Fails ==
  IF step = "ABORT" \/ reopened \/ port = "broken" THEN Finish("failed")
  ELSE GoTo("ABORT") /\ UNCHANGED reopened

Advances ==
  LET next == CASE step = "HELLO" -> "GET_DEVICE_INFO"
                [] step = "GET_DEVICE_INFO" -> "BEGIN"
                [] step \in {"BEGIN", "BEGIN_RECOVER"} ->
                     IF Signed THEN "SET_MANIFEST" ELSE "DATA"
                [] step = "SET_MANIFEST" -> "DATA"
                [] step = "DATA" -> IF index + 1 < Chunks THEN "DATA" ELSE "COMMIT"
                [] OTHER -> "BOOT_APP"
  IN GoTo(next) /\ UNCHANGED reopened

\* flash_image compares image and manifest with what the device says it is.
Fits == wanted.target /\ Chunks <= SlotChunks

\* Without its manifest an encrypted update ends before BEGIN, any other signed
\* one only after BEGIN has been accepted.
MayBegin == "enc" \in wanted.flags => HasManifest
MayGoOn == Signed => HasManifest

\* Mutation: the recoveries do not look at how far the session is.
AcceptableTrusting(answer) ==
  CASE step \in {"HELLO", "BOOT_APP", "ABORT"} -> TRUE
    [] step = "GET_DEVICE_INFO" -> Fits /\ MayBegin
    [] step \in {"BEGIN", "BEGIN_RECOVER"} -> answer.err = "NONE" /\ MayGoOn
    [] OTHER -> answer.err = "NONE"

\* The checks flash_image makes on an answer, and before it goes on.
Acceptable(answer) ==
  CASE step \in {"HELLO", "BOOT_APP", "ABORT"} -> TRUE
    [] step = "GET_DEVICE_INFO" -> Fits /\ MayBegin
    [] step = "BEGIN" -> answer.err = "NONE" /\ MayGoOn
    [] step = "BEGIN_RECOVER" ->
         /\ answer.status = "RECEIVING" /\ answer.err = "NONE"
         /\ answer.written = <<>> /\ answer.size = Chunks
         /\ MayGoOn
    [] step = "COMMIT" -> answer.err = "NONE" /\ answer.status = "COMMITTED"
    [] step = "COMMIT_RECOVER" ->
         /\ answer.status = "COMMITTED" /\ answer.err = "NONE"
         /\ answer.size = Chunks /\ answer.written = wanted.image
    [] OTHER -> answer.err = "NONE"

\* An answer for this command has come; with --run, BOOT_APP is sent last.
Concludes(answer) ==
  IF step = "ABORT" THEN Finish("failed")
  ELSE IF ~Acceptable(answer) THEN Fails
  ELSE CASE step = "BOOT_APP" -> Finish("ok")
         [] step \in {"COMMIT", "COMMIT_RECOVER"} -> Finish("ok") \/ Advances
         [] OTHER -> Advances

\* reconnect_after_exception; the port may not come back.
Reconnects(s, rest) ==
  \/ /\ step' = s /\ attempt' = 1 /\ awaiting' = FALSE /\ mismatch' = FALSE /\ index' = 0
     /\ port' = "open" /\ reopened' = TRUE
     /\ toHost' \in Suffixes(rest)
     /\ UNCHANGED <<wanted, verdict, runs>>
  \/ Finish("failed") /\ toHost' = rest

\* TimeoutError or SerialException out of send_frame_and_read, with rest still
\* to come from the device.
Unavailable(rest) ==
  CASE step = "BEGIN" -> Reconnects("BEGIN_RECOVER", rest)
    [] step = "COMMIT" -> Reconnects("COMMIT_RECOVER", rest)
    [] step = "BOOT_APP" -> Finish("ok") /\ toHost' = rest
    [] OTHER -> Fails /\ toHost' = rest

-----------------------------------------------------------------------------
(* The host's steps *)

HostStarts(req) ==
  /\ step = "idle" /\ runs < MaxRuns
  /\ step' = "HELLO" /\ index' = 0 /\ attempt' = 1 /\ awaiting' = FALSE /\ mismatch' = FALSE
  /\ wanted' = req /\ verdict' = "running" /\ runs' = runs + 1
  /\ port' = "open" /\ reopened' = FALSE
  /\ toHost' \in Suffixes(toHost)
  /\ UNCHANGED <<vars, toDevice, faults, upsets>>

HostSends ==
  /\ step # "idle" /\ port = "open" /\ ~awaiting
  /\ toDevice' = Append(toDevice, [op |-> Opcode, seq |-> Sequence, body |-> Body])
  /\ toHost' \in Suffixes(toHost)
  /\ awaiting' = TRUE /\ mismatch' = FALSE
  /\ UNCHANGED <<vars, step, index, attempt, wanted, port, reopened, verdict, runs,
                 faults, upsets>>

Answers(answer) == answer.op = Opcode /\ answer.seq = Sequence

\* Mutation: any answer will do.
HostReadsAny ==
  /\ awaiting /\ port = "open" /\ toHost # <<>>
  /\ toHost' = Tail(toHost)
  /\ Concludes(Head(toHost))
  /\ UNCHANGED <<vars, toDevice, faults, upsets>>

\* A late answer to an earlier request: keep listening.
HostReads ==
  /\ awaiting /\ port = "open" /\ toHost # <<>>
  /\ toHost' = Tail(toHost)
  /\ IF Answers(Head(toHost)) THEN Concludes(Head(toHost))
     ELSE /\ mismatch' = TRUE
          /\ UNCHANGED <<step, index, attempt, awaiting, wanted, port, reopened, verdict, runs>>
  /\ UNCHANGED <<vars, toDevice, faults, upsets>>

\* Mutation: one try too many.
NoUsableAnswerTooOften(rest) ==
  IF attempt <= Retries
  THEN /\ attempt' = attempt + 1 /\ awaiting' = FALSE
       /\ toHost' = rest
       /\ UNCHANGED <<step, index, mismatch, wanted, port, reopened, verdict, runs>>
  ELSE Unavailable(rest)

\* Mutation: the tries are not counted.
NoUsableAnswerForever(rest) ==
  /\ awaiting' = FALSE
  /\ toHost' = rest
  /\ UNCHANGED <<step, index, attempt, mismatch, wanted, port, reopened, verdict, runs>>

NoUsableAnswer(rest) ==
  IF attempt < Retries
  THEN /\ attempt' = attempt + 1 /\ awaiting' = FALSE
       /\ toHost' = rest
       /\ UNCHANGED <<step, index, mismatch, wanted, port, reopened, verdict, runs>>
  ELSE IF mismatch THEN Fails /\ toHost' = rest   \* RuntimeError
  ELSE Unavailable(rest)

\* The deadline passes: nothing is under way, or (a fault) what is comes late.
HostTimesOut ==
  /\ awaiting /\ port = "open"
  /\ IF toHost = <<>> /\ toDevice = <<>> THEN faults' = faults
     ELSE faults < MaxFaults /\ faults' = faults + 1
  /\ NoUsableAnswer(toHost)
  /\ UNCHANGED <<vars, toDevice, upsets>>

\* Using the port of a device that has gone raises SerialException.
HostPortFails ==
  /\ step # "idle" /\ port = "broken"
  /\ Unavailable(toHost)
  /\ UNCHANGED <<vars, toDevice, faults, upsets>>

\* Someone stops the tool: no ABORT is sent.
HostKilled ==
  /\ step # "idle" /\ upsets + interruptions < MaxUpsets
  /\ upsets' = upsets + 1
  /\ Finish("failed")
  /\ UNCHANGED <<vars, toDevice, toHost, faults>>

-----------------------------------------------------------------------------
(* The device's steps *)

\* The queries are answered from the state, whatever it is.
Queried == IF mode = "auto" THEN Query ELSE mode = "bl" /\ UNCHANGED vars

\* bootloader_receive_bytes: a repeat is answered; else the command runs.
Handles(f) ==
  \/ f.op \in {"HELLO", "GET_DEVICE_INFO", "GET_STATUS"} /\ Queried
  \/ f.op = "BEGIN" /\ BeginSession(f.body)
  \/ f.op = "SET_MANIFEST" /\ SetManifest(f.body)
  \/ f.op = "DATA" /\ (WriteData(f.seq, f.body) \/ RepeatedFrame(DataFrame(f.seq, f.body)))
  \/ f.op = "COMMIT" /\ (CommitSession(f.seq, f.body) \/ RepeatedFrame(CommitFrame(f.seq, f.body)))
  \/ f.op = "BOOT_APP" /\ BootApp
  \/ f.op = "ABORT" /\ Abort

\* bootloader_send_status, from the state the command left.
StatusAnswer(f) ==
  [op |-> f.op, seq |-> f.seq, err |-> lastError', status |-> status',
   written |-> session'.running,
   size |-> IF session'.state = "IDLE" THEN 0 ELSE Len(session'.req.image)]

\* The device lost its RAM; over USB the host's port breaks.
Resets ==
  /\ toDevice' = <<>>
  /\ port' \in (IF step = "idle" THEN {"open"} ELSE {port, "broken"})
  /\ UNCHANGED <<step, index, attempt, awaiting, mismatch, wanted, reopened, verdict, runs>>

DeviceHandles ==
  /\ mode # "app" /\ toDevice # <<>>
  /\ Handles(Head(toDevice))
  /\ interruptions' + upsets <= MaxUpsets
  /\ IF mode' = "auto"   \* the power went while it ran
     THEN /\ Resets /\ toHost' \in {<<>>, toHost}
     ELSE /\ toDevice' = Tail(toDevice)
          /\ toHost' = Append(toHost, StatusAnswer(Head(toDevice)))
          /\ UNCHANGED host
  /\ UNCHANGED <<faults, upsets>>

\* The application does not know the protocol.
AppIgnores ==
  /\ mode = "app" /\ toDevice # <<>>
  /\ toDevice' = Tail(toDevice)
  /\ UNCHANGED <<vars, host, toHost, faults, upsets>>

\* The jump comes 100 ms after the answer, which has left by then.
DevicePolls == Poll /\ Resets /\ UNCHANGED <<toHost, faults, upsets>>

AutoBootEnds ==
  /\ TryBootApp
  /\ IF mode' = "app" THEN Resets ELSE UNCHANGED <<host, toDevice>>
  /\ UNCHANGED <<toHost, faults, upsets>>

\* send_simple_app_jump, or a reset button.
DeviceResets ==
  /\ \E requested \in BOOLEAN : AppResets(requested)
  /\ Resets /\ UNCHANGED <<toHost, faults, upsets>>

DevicePowerCycles ==
  /\ upsets + interruptions < MaxUpsets /\ upsets' = upsets + 1
  /\ PowerCycle
  /\ Resets /\ toHost' \in {<<>>, toHost}
  /\ UNCHANGED faults

-----------------------------------------------------------------------------
(* The line *)

FrameLost ==
  /\ toDevice # <<>> /\ faults < MaxFaults
  /\ faults' = faults + 1
  /\ toDevice' = Tail(toDevice)
  /\ UNCHANGED <<vars, host, toHost, upsets>>

AnswerLost ==
  /\ toHost # <<>> /\ faults < MaxFaults
  /\ faults' = faults + 1
  /\ toHost' = Tail(toHost)
  /\ UNCHANGED <<vars, host, toDevice, upsets>>

\* A damaged answer raises ValueError: the try is over at once.
AnswerDamaged ==
  /\ awaiting /\ port = "open" /\ toHost # <<>> /\ faults < MaxFaults
  /\ faults' = faults + 1
  /\ NoUsableAnswer(Tail(toHost))
  /\ UNCHANGED <<vars, toDevice, upsets>>

-----------------------------------------------------------------------------
LinkInit ==
  /\ Init
  /\ step = "idle" /\ index = 0 /\ attempt = 1 /\ awaiting = FALSE /\ mismatch = FALSE
  /\ wanted = None /\ port = "open" /\ reopened = FALSE /\ verdict = "none"
  /\ toDevice = <<>> /\ toHost = <<>>
  /\ runs = 0 /\ faults = 0 /\ upsets = 0

HostRuns == HostSends \/ HostReads \/ HostTimesOut \/ HostPortFails

DeviceTakes == DeviceHandles \/ AppIgnores

LinkNext ==
  \/ \E req \in Requests : HostStarts(req)
  \/ HostSends \/ HostReads \/ HostTimesOut \/ HostPortFails \/ HostKilled
  \/ DeviceHandles \/ AppIgnores \/ DevicePolls \/ AutoBootEnds
  \/ DeviceResets \/ DevicePowerCycles
  \/ FrameLost \/ AnswerLost \/ AnswerDamaged

\* The tool keeps running, and the device takes what it has received: its main
\* loop never waits for anything.
LinkSpec ==
  LinkInit /\ [][LinkNext]_linkVars /\ WF_linkVars(HostRuns) /\ WF_linkVars(DeviceTakes)

-----------------------------------------------------------------------------
(* Properties *)

\* Every variable has its type.
LinkTypeOK ==
  /\ step \in HostStep \cup {"idle"}
  /\ index \in 0 .. SlotChunks - 1
  /\ attempt \in 1 .. Retries
  /\ awaiting \in BOOLEAN /\ mismatch \in BOOLEAN /\ reopened \in BOOLEAN
  /\ wanted \in Requests \cup {None}
  /\ port \in {"open", "broken"}
  /\ verdict \in {"none", "running", "ok", "failed"}
  /\ \A i \in DOMAIN toDevice : toDevice[i].op \in (HostStep \cup {"GET_STATUS"})
  /\ \A i \in DOMAIN toHost : toHost[i].err \in Error /\ toHost[i].status \in Status
  /\ runs \in 0 .. MaxRuns /\ faults \in 0 .. MaxFaults /\ upsets \in 0 .. MaxUpsets

\* Host and device agree on how far the update is, whatever was lost, late or
\* sent twice: while flash_image sends DATA and COMMIT, the session, if the
\* device still has one open, is the one this run began (or took over after a
\* reconnection), and holds the chunks the host knows of and at most the one
\* under way, of which the device then knows that it has it.  For longer
\* histories this needs each run to start on an empty line (CleanStart, in
\* HostLinkProofs, where it is proved for any number of runs): when enough runs
\* follow each other on a line that still holds frames and answers, one can take
\* an answer to the run before it for its own.  TLC checks two
\* runs without the assumption.
HostAndDeviceAgree ==
  step \in {"DATA", "COMMIT"} /\ session.state = "OPEN" =>
    /\ reopened \/ session.req = wanted
    /\ Len(session.running) \in IF step = "DATA" THEN {index, index + 1} ELSE {Chunks}
    /\ step = "DATA" /\ Len(session.running) = index + 1 => FrameIsRetry(DataFrame(Sequence, Body))

InstalledImage == IF acked = None THEN None ELSE acked.req.image

Service == INSTANCE Installation WITH
  Images <- {req.image : req \in Requests}, Nothing <- None,
  wanted <- IF wanted = None THEN None ELSE wanted.image,
  installed <- InstalledImage

\* The tool reports success only when the device has committed the image it
\* was run for and would start it, and from then on nothing touches that image
\* until the tool runs again: no late answer, no frame sent twice, no recovery
\* over STATUS makes it believe an update that did not happen.
ImplementsInstallation == Service!Spec

\* A run of the tool ends, whatever the device and the line do.
RunEnds == step # "idle" ~> step = "idle"

\* Enough retries carry an update through: a run begun with the bootloader
\* listening and accepting the request, with a manifest if it is signed, with
\* fewer lost, damaged and late frames than tries and no loss of power, ends
\* with success.
RunBegins ==
  /\ step = "HELLO" /\ attempt = 1 /\ ~awaiting /\ port = "open"
  /\ mode # "app"
  /\ BeginError(wanted) = "NONE"
  /\ MayGoOn

Disturbed == faults >= Retries \/ upsets > 0 \/ interruptions > 0 \/ mode = "app"

UpdateSucceeds == RunBegins ~> (verdict = "ok" \/ Disturbed)

==============================================================================
