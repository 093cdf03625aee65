--------------------------- MODULE HostLinkProofs ---------------------------
(***************************************************************************)
(* Theorems about HostLink, for every set of requests, number of tries and *)
(* number of faults, kills and power cycles.                               *)
(*                                                                         *)
(* HostInv says where the tool can be and Lines what can be under way, so  *)
(* that each device step is one of Bootloader's (DeviceIsBootloader) and   *)
(* the theorems about Bootloader hold here.  CleanInv, on top of them,     *)
(* is inductive for runs that start on an empty line: what is under way    *)
(* is in the order of the commands (RunLine), so the answer the tool takes *)
(* is to its present command, and the session is where the tool thinks.    *)
(***************************************************************************)
EXTENDS HostLink, SessionProofs, SequenceLemmas

-----------------------------------------------------------------------------
(* Where the tool is, and what is on the line, is typed. *)

DeviceOp == {"HELLO", "GET_DEVICE_INFO", "GET_STATUS", "BEGIN", "SET_MANIFEST", "DATA",
             "COMMIT", "BOOT_APP", "ABORT"}

HostFrames ==
  [op: {"HELLO", "GET_DEVICE_INFO", "GET_STATUS", "BOOT_APP", "ABORT"}, seq: Seqs, body: {None}]
  \cup [op: {"BEGIN"}, seq: Seqs, body: Requests]
  \cup [op: {"SET_MANIFEST"}, seq: Seqs, body: Manifests]
  \cup [op: {"DATA"}, seq: Seqs, body: DataPayload]
  \cup [op: {"COMMIT"}, seq: Seqs, body: CommitPayload]

HostAnswers ==
  [op: DeviceOp, seq: Seqs, err: Error, status: Status, written: Seq(Chunk), size: Nat]

\* The steps after GET_DEVICE_INFO was answered: the image fits the device.
Updating == {"BEGIN", "BEGIN_RECOVER", "SET_MANIFEST", "DATA", "COMMIT", "COMMIT_RECOVER",
             "BOOT_APP"}

\* Where flash_image can be, whatever the line and the device do.
Place ==
  /\ step \in HostStep \cup {"idle"}
  /\ index \in Nat
  /\ IF step = "DATA" THEN index < Chunks ELSE index = 0
  /\ verdict \in {"none", "running", "ok", "failed"}
  /\ step = "idle" => verdict # "running"
  /\ step # "idle" => verdict = "running"
  /\ step = "idle" => ~awaiting
  /\ wanted \in Requests \cup {None}
  /\ step # "idle" => wanted \in Requests
  /\ step \in Updating => Fits
  /\ step = "SET_MANIFEST" => Signed /\ HasManifest

\* The state of send_frame_and_read and of the port.
Exchange ==
  /\ attempt \in 1 .. Retries
  /\ awaiting \in BOOLEAN /\ mismatch \in BOOLEAN /\ reopened \in BOOLEAN
  /\ port \in {"open", "broken"}
  /\ runs \in 0 .. MaxRuns

HostInv == Place /\ Exchange

\* A request announces a whole number of chunks, at least one.
LEMMA RequestTyped ==
  ASSUME NEW w \in Requests
  PROVE  /\ w.image \in Seq(Chunk) /\ w.image # <<>>
         /\ Len(w.image) \in Nat \ {0}
         /\ w.image \in CommitPayload
         /\ \A i \in 1 .. Len(w.image) : w.image[i] \in Chunk
<1>1. w.image \in Seq(Chunk)
  BY SecurityAssumption DEF RequestType
<1>2. w.image # <<>>
  BY ToolAssumption
<1>3. QED
  BY <1>1, <1>2, EmptySeq, ElementOfSeq DEF CommitPayload

\* The first try of a command, nothing sent yet.
LEMMA FirstTry ==
  ASSUME Exchange, attempt' = 1, awaiting' = FALSE, mismatch' = FALSE, reopened' \in BOOLEAN,
         port' \in {"open", "broken"}, runs' = runs
  PROVE  Exchange'
<1>1. 1 \in 1 .. Retries
  BY HostLinkAssumption
<1>2. QED
  BY <1>1, Zenon DEF Exchange

\* flash_image is at a command it may go to.
LEMMA Arrives ==
  ASSUME HostInv, step # "idle", NEW s \in HostStep,
         step' = s, UNCHANGED <<wanted, verdict>>,
         index' = IF s = "DATA" /\ step = "DATA" THEN index + 1 ELSE 0,
         s \in Updating => Fits,
         s = "SET_MANIFEST" => Signed /\ HasManifest,
         s = "DATA" /\ step = "DATA" => index + 1 < Chunks
  PROVE  Place'
<1>1. wanted \in Requests /\ Chunks \in Nat \ {0}
  BY RequestTyped DEF HostInv, Place, Chunks
<1>2. Chunks' = Chunks /\ Fits' = Fits /\ Signed' = Signed /\ HasManifest' = HasManifest
  BY DEF Chunks, Fits, Signed, HasManifest, Manifest
<1>3. s # "idle" /\ verdict' = "running"
  BY DEF HostInv, Place, HostStep
<1>4. index' \in Nat /\ IF s = "DATA" THEN index' < Chunks ELSE index' = 0
  BY <1>1 DEF HostInv, Place
<1>5. QED
  BY <1>1, <1>2, <1>3, <1>4 DEF Place

LEMMA GoToHost ==
  ASSUME HostInv, step # "idle", NEW s \in HostStep, GoTo(s), reopened' \in BOOLEAN,
         s \in Updating => Fits,
         s = "SET_MANIFEST" => Signed /\ HasManifest,
         s = "DATA" /\ step = "DATA" => index + 1 < Chunks
  PROVE  HostInv'
<1>1. Place'
  BY Arrives DEF GoTo
<1>2. Exchange'
  BY FirstTry DEF GoTo, HostInv, Exchange
<1>3. QED
  BY <1>1, <1>2 DEF HostInv

\* A run that ends.
LEMMA FinishHost ==
  ASSUME HostInv, NEW v \in {"ok", "failed"}, Finish(v)
  PROVE  HostInv'
<1>1. Place'
  BY DEF HostInv, Place, Finish, Updating
<1>2. Exchange'
  BY FirstTry DEF Finish, HostInv
<1>3. QED
  BY <1>1, <1>2 DEF HostInv

\* An exception ends the run, or sends an ABORT.
LEMMA FailsHost ==
  ASSUME HostInv, step # "idle", Fails
  PROVE  HostInv'
  BY GoToHost, FinishHost DEF Fails, HostStep, Updating, HostInv, Exchange

\* The next command is one flash_image may be at.
LEMMA AdvancesHost ==
  ASSUME HostInv, step \notin {"idle", "ABORT", "BOOT_APP"}, Advances,
         step = "GET_DEVICE_INFO" => Fits,
         step \in {"BEGIN", "BEGIN_RECOVER"} => MayGoOn
  PROVE  HostInv'
<1>1. PICK s \in HostStep :
        /\ GoTo(s) /\ UNCHANGED reopened
        /\ s \in Updating => step = "GET_DEVICE_INFO" \/ step \in Updating
        /\ s = "SET_MANIFEST" => Signed /\ HasManifest
        /\ s = "DATA" /\ step = "DATA" => index + 1 < Chunks
  <2> DEFINE next == CASE step = "HELLO" -> "GET_DEVICE_INFO"
                       [] step = "GET_DEVICE_INFO" -> "BEGIN"
                       [] step \in {"BEGIN", "BEGIN_RECOVER"} ->
                            IF Signed THEN "SET_MANIFEST" ELSE "DATA"
                       [] step = "SET_MANIFEST" -> "DATA"
                       [] step = "DATA" -> IF index + 1 < Chunks THEN "DATA" ELSE "COMMIT"
                       [] OTHER -> "BOOT_APP"
  <2>1. GoTo(next) /\ UNCHANGED reopened
    BY DEF Advances
  <2>2. /\ next \in HostStep
        /\ next \in Updating => step = "GET_DEVICE_INFO" \/ step \in Updating
        /\ next = "SET_MANIFEST" => Signed /\ HasManifest
        /\ next = "DATA" /\ step = "DATA" => index + 1 < Chunks
    BY DEF HostInv, Place, HostStep, Updating, MayGoOn
  <2> HIDE DEF next
  <2>3. QED
    BY <2>1, <2>2
<1>2. QED
  BY <1>1, GoToHost DEF HostInv, Place, Exchange

LEMMA ConcludesHost ==
  ASSUME HostInv, step # "idle", NEW answer, Concludes(answer)
  PROVE  HostInv'
<1>1. \/ Finish("failed") \/ Finish("ok") \/ Fails
      \/ /\ Advances /\ step \notin {"ABORT", "BOOT_APP"} /\ Acceptable(answer)
  BY DEF Concludes
<1>2. ASSUME Acceptable(answer)
      PROVE  /\ step = "GET_DEVICE_INFO" => Fits
             /\ step \in {"BEGIN", "BEGIN_RECOVER"} => MayGoOn
  BY <1>2 DEF Acceptable
<1>3. QED
  BY <1>1, <1>2, FinishHost, FailsHost, AdvancesHost

LEMMA UnavailableHost ==
  ASSUME HostInv, step # "idle", NEW rest, Unavailable(rest)
  PROVE  HostInv'
<1>1. ASSUME NEW s \in {"BEGIN_RECOVER", "COMMIT_RECOVER"}, step \in Updating, Reconnects(s, rest)
      PROVE  HostInv'
  <2>1. CASE Finish("failed")
    BY <2>1, FinishHost
  <2>2. CASE /\ step' = s /\ attempt' = 1 /\ awaiting' = FALSE /\ mismatch' = FALSE /\ index' = 0
             /\ port' = "open" /\ reopened' = TRUE
             /\ UNCHANGED <<wanted, verdict, runs>>
    <3>1. Place'
      BY <2>2, <1>1, Arrives DEF HostInv, Place, HostStep
    <3>2. Exchange'
      BY <2>2, FirstTry DEF HostInv
    <3>3. QED
      BY <3>1, <3>2 DEF HostInv
  <2>3. QED
    BY <1>1, <2>1, <2>2 DEF Reconnects
<1>2. \/ Finish("ok") \/ Fails
      \/ \E s \in {"BEGIN_RECOVER", "COMMIT_RECOVER"} : step \in Updating /\ Reconnects(s, rest)
  BY DEF Unavailable, Updating
<1>3. QED
  BY <1>1, <1>2, FinishHost, FailsHost

LEMMA NoUsableAnswerHost ==
  ASSUME HostInv, step # "idle", NEW rest, NoUsableAnswer(rest)
  PROVE  HostInv'
<1>1. CASE attempt < Retries
  <2>1. /\ attempt' = attempt + 1 /\ awaiting' = FALSE
        /\ UNCHANGED <<step, index, mismatch, wanted, port, reopened, verdict, runs>>
    BY <1>1 DEF NoUsableAnswer
  <2>2. attempt' \in 1 .. Retries
    BY <1>1, <2>1, HostLinkAssumption DEF HostInv, Exchange
  <2>3. Exchange'
    BY <2>1, <2>2, Zenon DEF HostInv, Exchange
  <2>4. Place'
    BY <2>1 DEF HostInv, Place, Fits, Chunks, Signed, HasManifest, Manifest
  <2>5. QED
    BY <2>3, <2>4 DEF HostInv
<1>2. CASE ~(attempt < Retries)
  BY <1>2, FailsHost, UnavailableHost DEF NoUsableAnswer
<1>3. QED
  BY <1>1, <1>2

\* A step that leaves the tool alone, or only breaks its port.
LEMMA HostLeft ==
  ASSUME HostInv, UNCHANGED host \/ Resets
  PROVE  HostInv'
<1>1. port' \in {"open", "broken"}
  BY DEF HostInv, Exchange, Resets, host
<1>2. UNCHANGED <<step, index, attempt, awaiting, mismatch, wanted, reopened, verdict, runs>>
  BY DEF Resets, host
<1>3. QED
  BY <1>1, <1>2 DEF HostInv, Place, Exchange, Fits, Chunks, Signed, HasManifest, Manifest


\* Every step keeps the tool where it can be.
LEMMA LinkNextHost == HostInv /\ [LinkNext]_linkVars => HostInv'
<1> SUFFICES ASSUME HostInv, [LinkNext]_linkVars PROVE HostInv'
  OBVIOUS
<1>1. ASSUME NEW req \in Requests, HostStarts(req) PROVE HostInv'
  <2>1. 1 \in 1 .. Retries /\ runs' \in 0 .. MaxRuns
    BY <1>1, HostLinkAssumption DEF HostStarts, HostInv, Exchange
  <2>2. Exchange'
    BY <1>1, <2>1, Zenon DEF HostStarts, Exchange
  <2>3. Place'
    BY <1>1 DEF HostStarts, Place, HostStep, Updating
  <2>4. QED
    BY <2>2, <2>3 DEF HostInv
<1>2. CASE HostSends
  <2>1. Exchange'
    BY <1>2, Zenon DEF HostSends, HostInv, Exchange
  <2>2. Place'
    BY <1>2 DEF HostSends, HostInv, Place, Fits, Chunks, Signed, HasManifest, Manifest
  <2>3. QED
    BY <2>1, <2>2 DEF HostInv
<1>3. CASE HostReads
  <2>1. step # "idle"
    BY <1>3 DEF HostReads, HostInv, Place
  <2>2. CASE Answers(Head(toHost))
    BY <1>3, <2>1, <2>2, ConcludesHost DEF HostReads
  <2>3. CASE ~Answers(Head(toHost))
    <3>1. /\ UNCHANGED <<step, index, attempt, awaiting, wanted, port, reopened, verdict, runs>>
          /\ mismatch' = TRUE
      BY <1>3, <2>3 DEF HostReads
    <3>2. Exchange'
      BY <3>1, Zenon DEF HostInv, Exchange
    <3>3. Place'
      BY <3>1 DEF HostInv, Place, Fits, Chunks, Signed, HasManifest, Manifest
    <3>4. QED
      BY <3>2, <3>3 DEF HostInv
  <2>4. QED
    BY <2>2, <2>3
<1>4. CASE HostTimesOut \/ AnswerDamaged
  BY <1>4, NoUsableAnswerHost DEF HostTimesOut, AnswerDamaged, HostInv, Place
<1>5. CASE HostPortFails
  BY <1>5, UnavailableHost DEF HostPortFails
<1>6. CASE HostKilled
  BY <1>6, FinishHost DEF HostKilled
<1>7. CASE DeviceHandles \/ AppIgnores \/ DevicePolls \/ AutoBootEnds \/ DeviceResets
           \/ DevicePowerCycles \/ FrameLost \/ AnswerLost \/ UNCHANGED linkVars
  BY <1>7, HostLeft
     DEF DeviceHandles, AppIgnores, DevicePolls, AutoBootEnds, DeviceResets, DevicePowerCycles,
         FrameLost, AnswerLost, linkVars
<1>8. QED
  BY <1>1, <1>2, <1>3, <1>4, <1>5, <1>6, <1>7 DEF LinkNext

-----------------------------------------------------------------------------
(* The device under the tool takes only steps of the bootloader. *)

\* The frame flash_image sends at a step.
Current == [op |-> Opcode, seq |-> Sequence, body |-> Body]

\* Its sequence number is one of those hosts use.
LEMMA SequenceTyped ==
  ASSUME HostInv, step # "idle"
  PROVE  Sequence \in Seqs
<1>1. Chunks \in Nat \ {0}
  BY RequestTyped DEF HostInv, Place, Chunks
<1>2. step \in Updating => Chunks <= SlotChunks
  BY DEF HostInv, Place, Fits
<1>3. step \in HostStep /\ index \in Nat /\ (step = "DATA" => index < Chunks)
  BY DEF HostInv, Place
<1>4. SlotChunks \in Nat
  BY FlashAssumption
<1>5. Sequence \in (1 .. SlotChunks + 6) \cup {32765, 32766, 32767}
  BY <1>1, <1>2, <1>3, <1>4 DEF Sequence, HostStep, Updating
<1>6. QED
  BY <1>5, FrameAssumption

LEMMA UploadTyped ==
  ASSUME HostInv, step = "DATA"
  PROVE  Upload \in Chunk
<1>1. wanted.image[index + 1] \in Chunk /\ index \in Slots
  BY RequestTyped, FlashAssumption DEF HostInv, Place, Chunks, Fits, Updating, Slots
<1>2. QED
  BY <1>1, SecurityAssumption DEF Upload, Plaintext

LEMMA CurrentTyped ==
  ASSUME HostInv, step # "idle"
  PROVE  Current \in HostFrames
<1>1. Sequence \in Seqs
  BY SequenceTyped
<1>2. wanted \in Requests /\ wanted.image \in CommitPayload
  BY RequestTyped DEF HostInv, Place
<1>3. CASE step = "DATA"
  <2>1. [offset |-> index, chunk |-> Upload, shape |-> "NONE"] \in DataPayload
    <3>1. index \in 0 .. SlotChunks
      BY <1>2, <1>3, RequestTyped, FlashAssumption DEF HostInv, Place, Fits, Updating, Chunks
    <3>2. QED
      BY <1>3, <3>1, UploadTyped, FrameAssumption DEF DataPayload
  <2>2. QED
    BY <1>1, <1>3, <2>1 DEF Current, Opcode, Body, HostFrames
<1>4. CASE step = "SET_MANIFEST"
  <2>1. Manifest \in Manifests
    BY <1>4 DEF HostInv, Place, HasManifest
  <2>2. QED
    BY <1>1, <1>4, <2>1 DEF Current, Opcode, Body, HostFrames
<1>5. CASE step \in HostStep \ {"DATA", "SET_MANIFEST"}
  BY <1>1, <1>2, <1>5 DEF Current, Opcode, Body, HostFrames, HostStep
<1>6. QED
  BY <1>3, <1>4, <1>5 DEF HostInv, Place

\* Handling a frame of the tool is a command of the bootloader, or changes
\* nothing.
LEMMA HandlesIsNext ==
  ASSUME NEW f \in HostFrames, Handles(f)
  PROVE  [Next]_vars
<1>1. /\ f.seq \in Seqs
      /\ f.op = "BEGIN" => f.body \in Requests
      /\ f.op = "SET_MANIFEST" => f.body \in Manifests
      /\ f.op = "DATA" => f.body \in DataPayload
      /\ f.op = "COMMIT" => f.body \in CommitPayload
  BY DEF HostFrames
<1>2. QED
  BY <1>1 DEF Handles, Queried, Next

\* What a step leaves on the line is typed.
LEMMA FramesStayTyped ==
  ASSUME HostInv, toDevice \in Seq(HostFrames), [LinkNext]_linkVars
  PROVE  toDevice' \in Seq(HostFrames)
<1>1. \/ toDevice' = toDevice
      \/ toDevice' = <<>>
      \/ toDevice # <<>> /\ toDevice' = Tail(toDevice)
      \/ step # "idle" /\ toDevice' = Append(toDevice, Current)
  <2>1. CASE HostSends
    BY <2>1 DEF HostSends, Current
  <2>2. CASE HostReads \/ HostTimesOut \/ HostPortFails \/ HostKilled
             \/ (\E req \in Requests : HostStarts(req))
             \/ FrameLost \/ AnswerLost \/ AnswerDamaged \/ AppIgnores
    BY <2>2 DEF HostReads, HostTimesOut, HostPortFails, HostKilled, HostStarts, FrameLost,
                AnswerLost, AnswerDamaged, AppIgnores
  <2>3. CASE DeviceHandles \/ DevicePolls \/ AutoBootEnds \/ DeviceResets \/ DevicePowerCycles
    BY <2>3 DEF DeviceHandles, DevicePolls, AutoBootEnds, DeviceResets, DevicePowerCycles, Resets
  <2>4. CASE UNCHANGED linkVars
    BY <2>4 DEF linkVars
  <2>5. QED
    BY <2>1, <2>2, <2>3, <2>4 DEF LinkNext
<1>2. ASSUME step # "idle" PROVE Append(toDevice, Current) \in Seq(HostFrames)
  BY <1>2, CurrentTyped, AppendProperties
<1>3. toDevice # <<>> => Tail(toDevice) \in Seq(HostFrames)
  BY HeadTailProperties
<1>4. QED
  BY <1>1, <1>2, <1>3, EmptySeq

\* Every step of the whole is a step of the bootloader, or leaves it alone.
LEMMA LinkNextIsNext ==
  ASSUME HostInv, toDevice \in Seq(HostFrames), [LinkNext]_linkVars
  PROVE  [Next]_vars
<1>1. CASE DeviceHandles
  <2>1. Head(toDevice) \in HostFrames
    BY <1>1, HeadTailProperties DEF DeviceHandles
  <2>2. QED
    BY <1>1, <2>1, HandlesIsNext DEF DeviceHandles
<1>2. CASE DevicePolls \/ AutoBootEnds \/ DeviceResets \/ DevicePowerCycles
  BY <1>2 DEF DevicePolls, AutoBootEnds, DeviceResets, DevicePowerCycles, Next
<1>3. CASE HostSends \/ HostReads \/ HostTimesOut \/ HostPortFails \/ HostKilled
           \/ (\E req \in Requests : HostStarts(req))
           \/ FrameLost \/ AnswerLost \/ AnswerDamaged \/ AppIgnores
  BY <1>3 DEF HostSends, HostReads, HostTimesOut, HostPortFails, HostKilled, HostStarts,
              FrameLost, AnswerLost, AnswerDamaged, AppIgnores
<1>4. CASE UNCHANGED linkVars
  BY <1>4 DEF linkVars
<1>5. QED
  BY <1>1, <1>2, <1>3, <1>4 DEF LinkNext

LEMMA LinkInitHost == LinkInit => HostInv /\ toDevice \in Seq(HostFrames)
<1> SUFFICES ASSUME LinkInit PROVE HostInv /\ toDevice \in Seq(HostFrames)
  OBVIOUS
<1>1. 1 \in 1 .. Retries /\ 0 \in 0 .. MaxRuns
  BY HostLinkAssumption
<1>2. Exchange
  BY <1>1, Zenon DEF LinkInit, Exchange
<1>3. Place
  BY DEF LinkInit, Place, Updating
<1>4. QED
  BY <1>2, <1>3, EmptySeq DEF HostInv, LinkInit

LEMMA HostInvHolds == LinkSpec => [](HostInv /\ toDevice \in Seq(HostFrames))
<1>1. HostInv /\ toDevice \in Seq(HostFrames) /\ [LinkNext]_linkVars
        => (HostInv /\ toDevice \in Seq(HostFrames))'
  BY LinkNextHost, FramesStayTyped
<1>2. QED
  BY <1>1, LinkInitHost, PTL DEF LinkSpec

\* The device the tool talks to over a bad line, losing power and being reset,
\* is the bootloader: whatever the tool sends is what hosts may send, so every
\* theorem about Bootloader holds of it.
THEOREM DeviceIsBootloader == LinkSpec => Spec
<1>1. LinkInit => Init
  BY DEF LinkInit
<1>2. HostInv /\ toDevice \in Seq(HostFrames) /\ [LinkNext]_linkVars => [Next]_vars
  BY LinkNextIsNext
<1>3. QED
  BY <1>1, <1>2, HostInvHolds, PTL DEF LinkSpec, Spec

-----------------------------------------------------------------------------
(* What comes back is typed, and so is the whole. *)

\* What is left of a sequence is a sequence of the same things.
LEMMA SuffixTyped ==
  ASSUME NEW S, NEW s \in Seq(S), NEW t \in Suffixes(s)
  PROVE  t \in Seq(S)
<1>1. PICK k \in 0 .. Len(s) : t = SubSeq(s, k + 1, Len(s))
  BY DEF Suffixes
<1>2. k + 1 \in 1 .. Len(s) + 1
  BY <1>1, LenProperties
<1>3. QED
  BY <1>1, <1>2, Suffix

\* An answer tells the state the command left.
LEMMA StatusAnswerTyped ==
  ASSUME TypeOK', NEW f \in HostFrames
  PROVE  StatusAnswer(f) \in HostAnswers
<1>1. f.op \in DeviceOp /\ f.seq \in Seqs
  BY DEF HostFrames, DeviceOp
<1>2. lastError' \in Error /\ status' \in Status /\ session'.running \in Seq(Chunk)
  BY DEF TypeOK
<1>3. (IF session'.state = "IDLE" THEN 0 ELSE Len(session'.req.image)) \in Nat
  BY RequestTyped DEF TypeOK
<1>4. QED
  BY <1>1, <1>2, <1>3 DEF StatusAnswer, HostAnswers

\* Where the answers under way come from.
LEMMA AnswersMove ==
  ASSUME [LinkNext]_linkVars
  PROVE  \/ toHost' \in {toHost, <<>>}
         \/ toHost' \in Suffixes(toHost)
         \/ toHost # <<>> /\ (toHost' = Tail(toHost) \/ toHost' \in Suffixes(Tail(toHost)))
         \/ /\ toDevice # <<>> /\ DeviceHandles
            /\ toHost' = Append(toHost, StatusAnswer(Head(toDevice)))
<1>1. \A rest : Unavailable(rest) => toHost' = rest \/ toHost' \in Suffixes(rest)
  BY DEF Unavailable, Reconnects
<1>2. \A rest : NoUsableAnswer(rest) => toHost' = rest \/ toHost' \in Suffixes(rest)
  BY <1>1 DEF NoUsableAnswer
<1>3. CASE HostTimesOut \/ HostPortFails \/ AnswerDamaged
  BY <1>1, <1>2, <1>3 DEF HostTimesOut, HostPortFails, AnswerDamaged
<1>4. CASE HostSends \/ HostReads \/ HostKilled \/ (\E req \in Requests : HostStarts(req))
           \/ FrameLost \/ AnswerLost \/ AppIgnores
  BY <1>4 DEF HostSends, HostReads, HostKilled, HostStarts, FrameLost, AnswerLost, AppIgnores
<1>5. CASE DeviceHandles
  BY <1>5 DEF DeviceHandles
<1>6. CASE DevicePolls \/ AutoBootEnds \/ DeviceResets \/ DevicePowerCycles
  BY <1>6 DEF DevicePolls, AutoBootEnds, DeviceResets, DevicePowerCycles
<1>7. CASE UNCHANGED linkVars
  BY <1>7 DEF linkVars
<1>8. QED
  BY <1>3, <1>4, <1>5, <1>6, <1>7 DEF LinkNext

LEMMA AnswersStayTyped ==
  ASSUME TypeOK', toDevice \in Seq(HostFrames), toHost \in Seq(HostAnswers),
         [LinkNext]_linkVars
  PROVE  toHost' \in Seq(HostAnswers)
<1>1. CASE toHost' \in {toHost, <<>>}
  BY <1>1, EmptySeq
<1>2. CASE toHost' \in Suffixes(toHost)
  BY <1>2, SuffixTyped
<1>3. CASE toHost # <<>> /\ (toHost' = Tail(toHost) \/ toHost' \in Suffixes(Tail(toHost)))
  <2>1. Tail(toHost) \in Seq(HostAnswers)
    BY <1>3, HeadTailProperties
  <2>2. QED
    BY <1>3, <2>1, SuffixTyped
<1>4. CASE toDevice # <<>> /\ toHost' = Append(toHost, StatusAnswer(Head(toDevice)))
  <2>1. Head(toDevice) \in HostFrames
    BY <1>4, HeadTailProperties
  <2>2. StatusAnswer(Head(toDevice)) \in HostAnswers
    BY <2>1, StatusAnswerTyped
  <2>3. QED
    BY <1>4, <2>2, AppendProperties
<1>5. QED
  BY <1>1, <1>2, <1>3, <1>4, AnswersMove

\* The faults and the upsets are counted, and bounded.
LEMMA CountersTyped ==
  ASSUME TypeOK, faults \in 0 .. MaxFaults, upsets \in 0 .. MaxUpsets, [LinkNext]_linkVars
  PROVE  faults' \in 0 .. MaxFaults /\ upsets' \in 0 .. MaxUpsets
<1>1. faults' = faults \/ (faults < MaxFaults /\ faults' = faults + 1)
  BY DEF LinkNext, HostStarts, HostSends, HostReads, HostTimesOut, HostPortFails, HostKilled,
         DeviceHandles, AppIgnores, DevicePolls, AutoBootEnds, DeviceResets, DevicePowerCycles,
         FrameLost, AnswerLost, AnswerDamaged, linkVars
<1>2. upsets' = upsets \/ (upsets + interruptions < MaxUpsets /\ upsets' = upsets + 1)
  BY DEF LinkNext, HostStarts, HostSends, HostReads, HostTimesOut, HostPortFails, HostKilled,
         DeviceHandles, AppIgnores, DevicePolls, AutoBootEnds, DeviceResets, DevicePowerCycles,
         FrameLost, AnswerLost, AnswerDamaged, linkVars
<1>3. interruptions \in Nat
  BY BootloaderAssumption DEF TypeOK
<1>4. QED
  BY <1>1, <1>2, <1>3, HostLinkAssumption

Lines ==
  /\ toDevice \in Seq(HostFrames)
  /\ toHost \in Seq(HostAnswers)
  /\ faults \in 0 .. MaxFaults /\ upsets \in 0 .. MaxUpsets

LEMMA LinesHold == LinkSpec => [](TypeOK /\ HostInv /\ Lines)
<1>1. LinkInit => Lines
  BY EmptySeq, HostLinkAssumption DEF LinkInit, Lines
<1>2. TypeOK /\ TypeOK' /\ HostInv /\ HostInv' /\ Lines /\ [LinkNext]_linkVars => Lines'
  BY FramesStayTyped, AnswersStayTyped, CountersTyped DEF Lines
<1>3. LinkSpec => []TypeOK
  BY DeviceIsBootloader, TypeCorrect, PTL
<1>4. LinkSpec => []HostInv
  BY HostInvHolds, PTL
<1>5. QED
  BY <1>1, <1>2, <1>3, <1>4, PTL DEF LinkSpec

\* The tool is always at one of its commands, works on a chunk of the slot and
\* never tries more often than --retries says, and only frames and answers of
\* the protocol are under way.
THEOREM LinkTypeCorrect == LinkSpec => []LinkTypeOK
<1>1. HostInv /\ Lines => LinkTypeOK
  <2> SUFFICES ASSUME HostInv, Lines PROVE LinkTypeOK
    OBVIOUS
  <2>1. index \in 0 .. SlotChunks - 1
    <3>1. SlotChunks \in Nat \ {0}
      BY FlashAssumption
    <3>2. CASE step = "DATA"
      BY <3>1, <3>2, RequestTyped DEF HostInv, Place, Fits, Chunks, Updating
    <3>3. CASE step # "DATA"
      BY <3>1, <3>3 DEF HostInv, Place
    <3>4. QED
      BY <3>2, <3>3
  <2>2. \A i \in DOMAIN toDevice : toDevice[i].op \in (HostStep \cup {"GET_STATUS"})
    <3> SUFFICES ASSUME NEW i \in DOMAIN toDevice
                 PROVE  toDevice[i].op \in (HostStep \cup {"GET_STATUS"})
      OBVIOUS
    <3>1. toDevice[i] \in HostFrames
      BY LenProperties, ElementOfSeq DEF Lines
    <3>2. QED
      BY <3>1 DEF HostFrames, HostStep
  <2>3. \A i \in DOMAIN toHost : toHost[i].err \in Error /\ toHost[i].status \in Status
    <3> SUFFICES ASSUME NEW i \in DOMAIN toHost
                 PROVE  toHost[i].err \in Error /\ toHost[i].status \in Status
      OBVIOUS
    <3>1. toHost[i] \in HostAnswers
      BY LenProperties, ElementOfSeq DEF Lines
    <3>2. QED
      BY <3>1 DEF HostAnswers
  <2>4. /\ awaiting \in BOOLEAN /\ mismatch \in BOOLEAN /\ reopened \in BOOLEAN
        /\ attempt \in 1 .. Retries /\ port \in {"open", "broken"} /\ runs \in 0 .. MaxRuns
    BY DEF HostInv, Exchange
  <2>5. /\ step \in HostStep \cup {"idle"} /\ wanted \in Requests \cup {None}
        /\ verdict \in {"none", "running", "ok", "failed"}
    BY DEF HostInv, Place
  <2>6. faults \in 0 .. MaxFaults /\ upsets \in 0 .. MaxUpsets
    BY DEF Lines
  <2>7. QED
    BY <2>1, <2>2, <2>3, <2>4, <2>5, <2>6, Zenon DEF LinkTypeOK
<1>2. QED
  BY <1>1, LinesHold, PTL

-----------------------------------------------------------------------------
(* A run that starts on an empty line.                                     *)
(*                                                                         *)
(* Host and device agree, and the tool's success is true, because frames   *)
(* and answers stay in the order of the commands: StageOf numbers the      *)
(* commands of a run, and what is under way never falls back.  So when the *)
(* answer to the present command is read, nothing older is left, and what  *)
(* is left only repeats the present command.                               *)

\* When the tool is started, nothing of an earlier run is under way.
CleanStart == step = "idle" /\ step' # "idle" => toDevice = <<>> /\ toHost = <<>>

\* The sequence number of the first DATA of a run for w.
FirstData(w) == IF "sig" \in w.flags THEN 5 ELSE 4

\* x is a frame a run for w sends, or the answer to one.
OfRun(w, x) ==
  \/ x.op = "HELLO" /\ x.seq = 1
  \/ x.op = "GET_DEVICE_INFO" /\ x.seq = 2
  \/ x.op = "BEGIN" /\ x.seq = 3
  \/ x.op = "GET_STATUS" /\ x.seq \in {32765, 32766}
  \/ x.op = "SET_MANIFEST" /\ x.seq = 4
  \/ x.op = "DATA" /\ x.seq \in FirstData(w) .. FirstData(w) + Len(w.image) - 1
  \/ x.op = "COMMIT" /\ x.seq = FirstData(w) + Len(w.image)
  \/ x.op = "BOOT_APP" /\ x.seq = FirstData(w) + Len(w.image) + 1
  \/ x.op = "ABORT" /\ x.seq = 32767

\* The chunk i of a run for w.
ChunkOf(w, i) ==
  [offset |-> i, chunk |-> Plaintext([begin |-> w], i, w.image[i + 1]), shape |-> "NONE"]

\* f is a frame a run for w sends.
SentBy(w, f) ==
  /\ OfRun(w, f)
  /\ f.op = "BEGIN" => f.body = w
  /\ f.op = "DATA" => f.body = ChunkOf(w, f.seq - FirstData(w))
  /\ f.op = "COMMIT" => f.body = w.image

\* The place of a frame or an answer among the commands of its run ...
StageOf(w, x) ==
  CASE x.op = "HELLO" -> 1
    [] x.op = "GET_DEVICE_INFO" -> 2
    [] x.op = "BEGIN" -> 3
    [] x.op = "GET_STATUS" -> (IF x.seq = 32766 THEN 4 ELSE 7 + Len(w.image))
    [] x.op = "SET_MANIFEST" -> 5
    [] x.op = "DATA" -> 6 + x.seq - FirstData(w)
    [] x.op = "COMMIT" -> 6 + Len(w.image)
    [] x.op = "BOOT_APP" -> 8 + Len(w.image)
    [] x.op = "ABORT" -> 9 + Len(w.image)

\* ... and of the command flash_image is at.
Stage == StageOf(wanted, Current)

\* What is under way in a run for w that is at command n: its own frames and
\* answers, in the order of the commands, none ahead of n.
Line(w, answers, frames, n) ==
  /\ \A i \in 1 .. Len(answers) : OfRun(w, answers[i]) /\ StageOf(w, answers[i]) <= n
  /\ \A j \in 1 .. Len(frames) : SentBy(w, frames[j]) /\ StageOf(w, frames[j]) <= n
  /\ \A i, j \in 1 .. Len(answers) :
       i <= j => StageOf(w, answers[i]) <= StageOf(w, answers[j])
  /\ \A i, j \in 1 .. Len(frames) : i <= j => StageOf(w, frames[i]) <= StageOf(w, frames[j])
  /\ \A i \in 1 .. Len(answers), j \in 1 .. Len(frames) :
       StageOf(w, answers[i]) <= StageOf(w, frames[j])

\* The stages, command by command.
LEMMA StageOfOp ==
  ASSUME NEW w, NEW x
  PROVE  /\ x.op = "HELLO" => StageOf(w, x) = 1
         /\ x.op = "GET_DEVICE_INFO" => StageOf(w, x) = 2
         /\ x.op = "BEGIN" => StageOf(w, x) = 3
         /\ x.op = "GET_STATUS" /\ x.seq = 32766 => StageOf(w, x) = 4
         /\ x.op = "GET_STATUS" /\ x.seq # 32766 => StageOf(w, x) = 7 + Len(w.image)
         /\ x.op = "SET_MANIFEST" => StageOf(w, x) = 5
         /\ x.op = "DATA" => StageOf(w, x) = 6 + x.seq - FirstData(w)
         /\ x.op = "COMMIT" => StageOf(w, x) = 6 + Len(w.image)
         /\ x.op = "BOOT_APP" => StageOf(w, x) = 8 + Len(w.image)
         /\ x.op = "ABORT" => StageOf(w, x) = 9 + Len(w.image)
  BY DEF StageOf

\* What flash_image sends, step by step.
LEMMA FixedSends ==
  /\ step = "HELLO" => Opcode = "HELLO" /\ Sequence = 1
  /\ step = "GET_DEVICE_INFO" => Opcode = "GET_DEVICE_INFO" /\ Sequence = 2
  /\ step = "BEGIN" => Opcode = "BEGIN" /\ Sequence = 3
  /\ step = "BEGIN_RECOVER" => Opcode = "GET_STATUS" /\ Sequence = 32766
  /\ step = "SET_MANIFEST" => Opcode = "SET_MANIFEST" /\ Sequence = 4
  /\ step = "COMMIT_RECOVER" => Opcode = "GET_STATUS" /\ Sequence = 32765
  /\ step = "ABORT" => Opcode = "ABORT" /\ Sequence = 32767
  BY DEF Opcode, Sequence

LEMMA DataSends ==
  step = "DATA" => Opcode = "DATA" /\ Sequence = FirstData(wanted) + index
  BY DEF Opcode, Sequence, Signed, FirstData

LEMMA CommitSends ==
  step = "COMMIT" => Opcode = "COMMIT" /\ Sequence = FirstData(wanted) + Len(wanted.image)
<1>1. step = "COMMIT" => Opcode = "COMMIT" /\ Sequence = (IF Signed THEN 5 ELSE 4) + Chunks
  BY DEF Opcode, Sequence
<1>2. Chunks = Len(wanted.image) /\ (IF Signed THEN 5 ELSE 4) = FirstData(wanted)
  BY DEF Chunks, Signed, FirstData
<1>3. QED
  BY <1>1, <1>2, Zenon

LEMMA BootAppSends ==
  step = "BOOT_APP" =>
    Opcode = "BOOT_APP" /\ Sequence = (IF Signed THEN 6 ELSE 5) + Len(wanted.image)
  BY DEF Opcode, Sequence, Chunks

LEMMA StageTyped ==
  ASSUME NEW w \in Requests, NEW x, OfRun(w, x)
  PROVE  StageOf(w, x) \in Nat
<1>1. Len(w.image) \in Nat /\ FirstData(w) \in {4, 5}
  BY RequestTyped DEF FirstData
<1>2. CASE x.op = "DATA"
  BY <1>1, <1>2, StageOfOp DEF OfRun
<1>3. CASE x.op # "DATA"
  BY <1>1, <1>3, StageOfOp DEF OfRun
<1>4. QED
  BY <1>2, <1>3

\* A stage is that of one command.
LEMMA SameStage ==
  ASSUME NEW w \in Requests, NEW x, NEW y, OfRun(w, x), OfRun(w, y),
         StageOf(w, x) = StageOf(w, y)
  PROVE  x.op = y.op /\ x.seq = y.seq
<1> DEFINE n == Len(w.image)
           fd == FirstData(w)
<1>1. n \in Nat \ {0} /\ fd \in {4, 5}
  BY RequestTyped DEF FirstData
<1>2. ASSUME NEW z, OfRun(w, z)
      PROVE  \/ /\ StageOf(w, z) \in {1, 2, 3, 4, 5} /\ z.op # "DATA"
                /\ StageOf(w, z) = 1 => z.op = "HELLO" /\ z.seq = 1
                /\ StageOf(w, z) = 2 => z.op = "GET_DEVICE_INFO" /\ z.seq = 2
                /\ StageOf(w, z) = 3 => z.op = "BEGIN" /\ z.seq = 3
                /\ StageOf(w, z) = 4 => z.op = "GET_STATUS" /\ z.seq = 32766
                /\ StageOf(w, z) = 5 => z.op = "SET_MANIFEST" /\ z.seq = 4
             \/ z.op = "DATA" /\ z.seq \in fd .. fd + n - 1 /\ StageOf(w, z) = 6 + z.seq - fd
             \/ z.op = "COMMIT" /\ z.seq = fd + n /\ StageOf(w, z) = 6 + n
             \/ z.op = "GET_STATUS" /\ z.seq = 32765 /\ StageOf(w, z) = 7 + n
             \/ z.op = "BOOT_APP" /\ z.seq = fd + n + 1 /\ StageOf(w, z) = 8 + n
             \/ z.op = "ABORT" /\ z.seq = 32767 /\ StageOf(w, z) = 9 + n
  BY <1>2, StageOfOp DEF OfRun
<1> HIDE DEF n, fd
<1>3. QED
  BY <1>1, <1>2

\* The frame of the present command is one of the run.
LEMMA CurrentIsSent ==
  ASSUME HostInv, step # "idle"
  PROVE  SentBy(wanted, Current) /\ Answers(Current) /\ Stage \in Nat
<1>1. /\ wanted \in Requests /\ Len(wanted.image) \in Nat \ {0}
      /\ step \in HostStep /\ index \in Nat
      /\ step = "DATA" => index < Len(wanted.image)
  BY RequestTyped DEF HostInv, Place, Chunks
<1>2. Current.op = Opcode /\ Current.seq = Sequence /\ Current.body = Body
  BY DEF Current
<1>3. FirstData(wanted) \in {4, 5} /\ (IF Signed THEN 6 ELSE 5) = FirstData(wanted) + 1
  BY DEF FirstData, Signed
<1>4. OfRun(wanted, Current)
  <2>1. CASE step = "DATA"
    BY <1>1, <1>2, <1>3, <2>1, DataSends DEF OfRun
  <2>2. CASE step = "BOOT_APP"
    BY <1>1, <1>2, <1>3, <2>2, BootAppSends DEF OfRun
  <2>3. CASE step \in HostStep \ {"DATA", "BOOT_APP"}
    BY <1>2, <2>3, FixedSends, CommitSends DEF OfRun, HostStep
  <2>4. QED
    BY <1>1, <2>1, <2>2, <2>3
<1>5. step = "DATA" => Current.body = ChunkOf(wanted, Current.seq - FirstData(wanted))
  <2> SUFFICES ASSUME step = "DATA"
               PROVE  Current.body = ChunkOf(wanted, Current.seq - FirstData(wanted))
    OBVIOUS
  <2>1. Current.seq - FirstData(wanted) = index
    BY <1>1, <1>2, <1>3, DataSends
  <2>2. Current.body = ChunkOf(wanted, index)
    BY <1>2 DEF Body, Upload, ChunkOf
  <2>3. QED
    BY <2>1, <2>2
<1>6. SentBy(wanted, Current)
  <2>1. /\ Current.op = "BEGIN" => step = "BEGIN"
        /\ Current.op = "DATA" => step = "DATA"
        /\ Current.op = "COMMIT" => step = "COMMIT"
    BY <1>2 DEF Opcode
  <2>2. /\ step = "BEGIN" => Current.body = wanted
        /\ step = "COMMIT" => Current.body = wanted.image
    BY <1>2 DEF Body
  <2>3. QED
    BY <1>4, <1>5, <2>1, <2>2 DEF SentBy
<1>7. Answers(Current)
  BY <1>2 DEF Answers
<1>8. QED
  BY <1>1, <1>4, <1>6, <1>7, StageTyped DEF Stage

\* The answers to the present command are those of its stage.
LEMMA AnswersAreOfStage ==
  ASSUME HostInv, step # "idle", NEW x, OfRun(wanted, x)
  PROVE  Answers(x) <=> StageOf(wanted, x) = Stage
<1>1. wanted \in Requests /\ OfRun(wanted, Current)
  BY CurrentIsSent DEF HostInv, Place, SentBy
<1>2. Answers(x) <=> x.op = Current.op /\ x.seq = Current.seq
  BY DEF Answers, Current
<1>3. x.op = Current.op /\ x.seq = Current.seq => StageOf(wanted, x) = StageOf(wanted, Current)
  BY DEF StageOf
<1>4. QED
  BY <1>1, <1>2, <1>3, SameStage DEF Stage

-----------------------------------------------------------------------------
(* What is under way stays in order. *)

\* t is what is left of s when its first elements are gone.
SuffixOf(t, s) ==
  \E k \in 0 .. Len(s) : Len(t) = Len(s) - k /\ \A i \in 1 .. Len(t) : t[i] = s[i + k]

LEMMA SuffixesAre ==
  ASSUME NEW S, NEW s \in Seq(S)
  PROVE  /\ SuffixOf(s, s) /\ SuffixOf(<<>>, s)
         /\ s # <<>> => SuffixOf(Tail(s), s)
         /\ \A t \in Suffixes(s) : SuffixOf(t, s)
         /\ s # <<>> => \A t \in Suffixes(Tail(s)) : SuffixOf(t, s)
<1>1. Len(s) \in Nat
  BY LenProperties
<1>2. SuffixOf(s, s)
  <2>1. 0 \in 0 .. Len(s) /\ Len(s) = Len(s) - 0 /\ \A i \in 1 .. Len(s) : s[i] = s[i + 0]
    BY <1>1
  <2>2. QED
    BY <2>1 DEF SuffixOf
<1>3. SuffixOf(<<>>, s)
  <2>1. Len(s) \in 0 .. Len(s) /\ Len(<<>>) = 0 /\ Len(<<>>) = Len(s) - Len(s)
    BY <1>1, EmptySeq
  <2>2. \A i \in 1 .. Len(<<>>) : <<>>[i] = s[i + Len(s)]
    BY <2>1
  <2>3. QED
    BY <2>1, <2>2 DEF SuffixOf
<1>4. s # <<>> => SuffixOf(Tail(s), s)
  <2> SUFFICES ASSUME s # <<>> PROVE SuffixOf(Tail(s), s)
    OBVIOUS
  <2>1. /\ Len(s) > 0 /\ Len(Tail(s)) = Len(s) - 1
        /\ \A i \in 1 .. Len(Tail(s)) : Tail(s)[i] = s[i + 1]
    BY <1>1, EmptySeq, HeadTailProperties, TailElements
  <2>2. 1 \in 0 .. Len(s)
    BY <1>1, <2>1
  <2>3. QED
    BY <2>1, <2>2 DEF SuffixOf
<1>5. \A T : \A u \in Seq(T) : \A t \in Suffixes(u) : SuffixOf(t, u)
  <2> SUFFICES ASSUME NEW T, NEW u \in Seq(T), NEW t \in Suffixes(u) PROVE SuffixOf(t, u)
    OBVIOUS
  <2>1. PICK k \in 0 .. Len(u) : t = SubSeq(u, k + 1, Len(u))
    BY DEF Suffixes
  <2>2. Len(u) \in Nat /\ k + 1 \in 1 .. Len(u) + 1
    BY <2>1, LenProperties
  <2>3. /\ Len(t) = Len(u) - (k + 1) + 1
        /\ \A j \in 1 .. Len(u) - (k + 1) + 1 : t[j] = u[(k + 1) + j - 1]
    BY <2>1, <2>2, Suffix
  <2>4. Len(t) = Len(u) - k /\ \A j \in 1 .. Len(t) : t[j] = u[j + k]
    <3>1. Len(t) = Len(u) - k
      BY <2>2, <2>3
    <3>2. ASSUME NEW j \in 1 .. Len(t) PROVE t[j] = u[j + k]
      <4>1. (k + 1) + j - 1 = j + k /\ j \in 1 .. Len(u) - (k + 1) + 1
        BY <2>2, <3>1
      <4>2. QED
        BY <2>3, <4>1
    <3>3. QED
      BY <3>1, <3>2
  <2>5. QED
    BY <2>4 DEF SuffixOf
<1>6. s # <<>> => \A t \in Suffixes(Tail(s)) : SuffixOf(t, s)
  <2> SUFFICES ASSUME s # <<>>, NEW t \in Suffixes(Tail(s)) PROVE SuffixOf(t, s)
    OBVIOUS
  <2>1. /\ Tail(s) \in Seq(S) /\ Len(Tail(s)) = Len(s) - 1
        /\ \A i \in 1 .. Len(Tail(s)) : Tail(s)[i] = s[i + 1]
    BY <1>1, EmptySeq, HeadTailProperties, TailElements
  <2>2. PICK k \in 0 .. Len(Tail(s)) :
          Len(t) = Len(Tail(s)) - k /\ \A i \in 1 .. Len(t) : t[i] = Tail(s)[i + k]
    BY <1>5, <2>1 DEF SuffixOf
  <2>3. k + 1 \in 0 .. Len(s) /\ Len(t) = Len(s) - (k + 1)
    BY <1>1, <2>1, <2>2
  <2>4. ASSUME NEW i \in 1 .. Len(t) PROVE t[i] = s[i + (k + 1)]
    <3>1. i + k \in 1 .. Len(Tail(s)) /\ (i + k) + 1 = i + (k + 1)
      BY <1>1, <2>1, <2>2
    <3>2. QED
      BY <2>1, <2>2, <3>1
  <2>5. QED
    BY <2>3, <2>4 DEF SuffixOf
<1>7. QED
  BY <1>2, <1>3, <1>4, <1>5, <1>6

\* Losing or reading the oldest, and going on to a later command, keeps the
\* order.
LEMMA LineShrinks ==
  ASSUME NEW w \in Requests, NEW a \in Seq(HostAnswers), NEW f \in Seq(HostFrames),
         NEW n \in Nat, NEW m \in Nat, n <= m, Line(w, a, f, n),
         NEW b, SuffixOf(b, a), NEW g, SuffixOf(g, f)
  PROVE  Line(w, b, g, m)
<1>1. PICK k \in 0 .. Len(a) : Len(b) = Len(a) - k /\ \A i \in 1 .. Len(b) : b[i] = a[i + k]
  BY DEF SuffixOf
<1>2. PICK l \in 0 .. Len(f) : Len(g) = Len(f) - l /\ \A i \in 1 .. Len(g) : g[i] = f[i + l]
  BY DEF SuffixOf
<1>3. Len(a) \in Nat /\ Len(f) \in Nat
  BY LenProperties
<1>4. /\ \A i \in 1 .. Len(b) : i + k \in 1 .. Len(a)
      /\ \A i \in 1 .. Len(g) : i + l \in 1 .. Len(f)
      /\ \A i, j \in 1 .. Len(b) : i <= j => i + k <= j + k
      /\ \A i, j \in 1 .. Len(g) : i <= j => i + l <= j + l
  BY <1>1, <1>2, <1>3
<1>5. ASSUME NEW i \in 1 .. Len(b) PROVE OfRun(w, b[i]) /\ StageOf(w, b[i]) <= m
  <2>1. OfRun(w, b[i]) /\ StageOf(w, b[i]) <= n
    BY <1>1, <1>4 DEF Line
  <2>2. QED
    BY <2>1, StageTyped
<1>6. ASSUME NEW j \in 1 .. Len(g) PROVE SentBy(w, g[j]) /\ StageOf(w, g[j]) <= m
  <2>1. SentBy(w, g[j]) /\ StageOf(w, g[j]) <= n
    BY <1>2, <1>4 DEF Line
  <2>2. OfRun(w, g[j])
    BY <2>1 DEF SentBy
  <2>3. QED
    BY <2>1, <2>2, StageTyped
<1>7. ASSUME NEW i \in 1 .. Len(b), NEW j \in 1 .. Len(b), i <= j
      PROVE  StageOf(w, b[i]) <= StageOf(w, b[j])
  BY <1>1, <1>4, <1>7 DEF Line
<1>8. ASSUME NEW i \in 1 .. Len(g), NEW j \in 1 .. Len(g), i <= j
      PROVE  StageOf(w, g[i]) <= StageOf(w, g[j])
  BY <1>2, <1>4, <1>8 DEF Line
<1>9. ASSUME NEW i \in 1 .. Len(b), NEW j \in 1 .. Len(g)
      PROVE  StageOf(w, b[i]) <= StageOf(w, g[j])
  BY <1>1, <1>2, <1>4 DEF Line
<1>10. QED
  BY <1>5, <1>6, <1>7, <1>8, <1>9 DEF Line

\* Sending the frame of the present command keeps the order.
LEMMA LineSends ==
  ASSUME NEW w \in Requests, NEW a \in Seq(HostAnswers), NEW f \in Seq(HostFrames),
         NEW c \in HostFrames, SentBy(w, c), Line(w, a, f, StageOf(w, c))
  PROVE  Line(w, a, Append(f, c), StageOf(w, c))
<1> DEFINE g == Append(f, c)
<1>1. /\ Len(f) \in Nat /\ Len(g) = Len(f) + 1 /\ g[Len(f) + 1] = c
      /\ \A j \in 1 .. Len(f) : g[j] = f[j]
  BY LenProperties, AppendProperties
<1>2. OfRun(w, c) /\ StageOf(w, c) \in Nat
  BY StageTyped DEF SentBy
<1> HIDE DEF g
<1>3. ASSUME NEW j \in 1 .. Len(g) PROVE SentBy(w, g[j]) /\ StageOf(w, g[j]) <= StageOf(w, c)
  <2>1. CASE j = Len(f) + 1
    BY <1>1, <1>2, <2>1
  <2>2. CASE j \in 1 .. Len(f)
    BY <1>1, <2>2 DEF Line
  <2>3. QED
    BY <1>1, <2>1, <2>2
<1>4. ASSUME NEW i \in 1 .. Len(g), NEW j \in 1 .. Len(g), i <= j
      PROVE  StageOf(w, g[i]) <= StageOf(w, g[j])
  <2>1. CASE j = Len(f) + 1
    BY <1>1, <1>3, <2>1
  <2>2. CASE j \in 1 .. Len(f)
    <3>1. i \in 1 .. Len(f)
      BY <1>1, <1>4, <2>2
    <3>2. QED
      BY <1>1, <1>4, <2>2, <3>1 DEF Line
  <2>3. QED
    BY <1>1, <2>1, <2>2
<1>5. ASSUME NEW i \in 1 .. Len(a), NEW j \in 1 .. Len(g)
      PROVE  StageOf(w, a[i]) <= StageOf(w, g[j])
  <2>1. CASE j = Len(f) + 1
    BY <1>1, <2>1 DEF Line
  <2>2. CASE j \in 1 .. Len(f)
    BY <1>1, <2>2 DEF Line
  <2>3. QED
    BY <1>1, <2>1, <2>2
<1>6. Line(w, a, g, StageOf(w, c))
  BY <1>3, <1>4, <1>5 DEF Line
<1>7. QED
  BY <1>6 DEF g

\* So does answering the oldest frame.
LEMMA LineAnswers ==
  ASSUME NEW w \in Requests, NEW a \in Seq(HostAnswers), NEW f \in Seq(HostFrames),
         f # <<>>, NEW n \in Nat, Line(w, a, f, n),
         NEW y \in HostAnswers, y.op = Head(f).op, y.seq = Head(f).seq
  PROVE  Line(w, Append(a, y), Tail(f), n)
<1> DEFINE b == Append(a, y)
           g == Tail(f)
<1>1. /\ Len(a) \in Nat /\ Len(b) = Len(a) + 1 /\ b[Len(a) + 1] = y
      /\ \A j \in 1 .. Len(a) : b[j] = a[j]
  BY LenProperties, AppendProperties
<1>2. Len(f) \in Nat \ {0} /\ Head(f) = f[1]
  BY LenProperties, EmptySeq
<1>3. SuffixOf(g, f) /\ SuffixOf(a, a)
  BY SuffixesAre
<1>4. Line(w, a, g, n)
  BY <1>3, LineShrinks
<1>5. /\ OfRun(w, f[1]) /\ StageOf(w, f[1]) <= n
      /\ \A i \in 1 .. Len(a) : StageOf(w, a[i]) <= StageOf(w, f[1])
      /\ \A j \in 1 .. Len(f) : StageOf(w, f[1]) <= StageOf(w, f[j])
  BY <1>2 DEF Line, SentBy
<1>6. OfRun(w, y) /\ StageOf(w, y) = StageOf(w, f[1])
  BY <1>2, <1>5 DEF OfRun, StageOf
<1>7. \A j \in 1 .. Len(g) : StageOf(w, f[1]) <= StageOf(w, g[j])
  <2>1. Len(g) = Len(f) - 1 /\ \A j \in 1 .. Len(g) : g[j] = f[j + 1]
    BY <1>2, HeadTailProperties, TailElements
  <2>2. QED
    BY <1>2, <1>5, <2>1
<1>8. StageOf(w, y) \in Nat
  BY <1>6, StageTyped
<1> HIDE DEF b, g
<1>9. ASSUME NEW i \in 1 .. Len(b) PROVE OfRun(w, b[i]) /\ StageOf(w, b[i]) <= n
  BY <1>1, <1>4, <1>5, <1>6 DEF Line
<1>10. ASSUME NEW i \in 1 .. Len(b), NEW j \in 1 .. Len(b), i <= j
       PROVE  StageOf(w, b[i]) <= StageOf(w, b[j])
  <2>1. CASE j = Len(a) + 1
    <3>1. CASE i = Len(a) + 1
      BY <1>1, <1>8, <2>1, <3>1
    <3>2. CASE i \in 1 .. Len(a)
      BY <1>1, <1>5, <1>6, <2>1, <3>2
    <3>3. QED
      BY <1>1, <3>1, <3>2
  <2>2. CASE j \in 1 .. Len(a)
    <3>1. i \in 1 .. Len(a)
      BY <1>1, <1>10, <2>2
    <3>2. QED
      BY <1>1, <1>4, <1>10, <2>2, <3>1 DEF Line
  <2>3. QED
    BY <1>1, <2>1, <2>2
<1>11. ASSUME NEW i \in 1 .. Len(b), NEW j \in 1 .. Len(g)
       PROVE  StageOf(w, b[i]) <= StageOf(w, g[j])
  <2>1. CASE i = Len(a) + 1
    BY <1>1, <1>6, <1>7, <2>1
  <2>2. CASE i \in 1 .. Len(a)
    BY <1>1, <1>4, <2>2 DEF Line
  <2>3. QED
    BY <1>1, <2>1, <2>2
<1>12. Line(w, b, g, n)
  BY <1>4, <1>9, <1>10, <1>11 DEF Line
<1>13. QED
  BY <1>12 DEF b, g

-----------------------------------------------------------------------------
(* What the device does with a frame, as far as the tool depends on it. *)

LEMMA BeginEffect ==
  ASSUME NEW req, BeginSession(req)
  PROVE  \/ session' = session /\ mode' = "bl" /\ lastError' # "NONE"
         \/ session' = NoSession
         \/ session' = OpenSession(req) /\ mode' = "bl"
         \/ session' = [OpenSession(req) EXCEPT !.erased = TRUE] /\ mode' = "bl"
<1>1. CASE BeginRejected(req) \/ BeginSigned(req)
  BY <1>1 DEF BeginRejected, BeginSigned, Answer
<1>2. CASE BeginUnsigned(req)
  BY <1>2 DEF BeginUnsigned, EraseSessionApp, PowerUp, Answer
<1>3. QED
  BY <1>1, <1>2 DEF BeginSession

LEMMA ManifestEffect ==
  ASSUME NEW m, SetManifest(m)
  PROVE  \/ UNCHANGED <<session, acked>> /\ mode' = "bl"
         \/ /\ session.state = "OPEN"
            /\ \/ session' = [session EXCEPT !.erased = TRUE] /\ mode' = "bl"
               \/ session' = NoSession
<1>1. CASE SetManifestOnly(m)
  BY <1>1 DEF SetManifestOnly, Answer
<1>2. CASE SetManifestErasing(m)
  BY <1>2 DEF SetManifestErasing, EraseSessionApp, PowerUp, Answer, ManifestError
<1>3. QED
  BY <1>1, <1>2 DEF SetManifest

LEMMA DataEffect ==
  ASSUME TypeOK, NEW seq \in Seqs, NEW d \in DataPayload,
         WriteData(seq, d) \/ RepeatedFrame(DataFrame(seq, d))
  PROVE  /\ acked' = acked
         /\ \/ /\ UNCHANGED <<session, retry>> /\ mode' = "bl"
               /\ FrameIsRetry(DataFrame(seq, d))
            \/ /\ session' = session /\ mode' = "bl" /\ lastError' # "NONE"
               /\ ~FrameIsRetry(DataFrame(seq, d))
            \/ session' = NoSession /\ session.state = "OPEN"
            \/ /\ session.state = "OPEN" /\ Len(session.running) = d.offset
               /\ session'.state = "OPEN" /\ session'.req = session.req
               /\ Len(session'.running) = d.offset + 1
               /\ retry' = DataFrame(seq, d) /\ mode' = "bl"
<1>1. CASE RepeatedFrame(DataFrame(seq, d))
  BY <1>1 DEF RepeatedFrame
<1>2. CASE WriteData(seq, d) /\ DataRejected(seq, d)
  BY <1>2 DEF WriteData, Fresh, DataRejected, Answer
<1>3. CASE WriteData(seq, d) /\ DataWritten(seq, d)
  <2> DEFINE chunk == Plaintext(security, d.offset, d.chunk)
  <2>1. PICK o \in WriteOutcomes(app, d.offset, chunk) : DataWritten(seq, d)!1!2!(o)
    BY <1>3 DEF DataWritten
  <2>2. /\ session.state = "OPEN" /\ d.offset = Len(session.running)
        /\ d.offset \in Nat /\ chunk \in Chunk /\ ~FrameIsRetry(DataFrame(seq, d))
    BY <1>3, DataInSlot, FlashAssumption DEF DataWritten, Slots, WriteData, Fresh
  <2>3. CASE o.res = "ok"
    <3>1. /\ retry' = DataFrame(seq, d) /\ mode' = "bl" /\ acked' = acked
          /\ session' = [session EXCEPT !.running = Append(session.running, chunk)]
      BY <2>1, <2>3 DEF Answer, NoteFrameRun, DataFrame, Frame
    <3>2. /\ session'.state = "OPEN" /\ session'.req = session.req
          /\ session'.running = Append(session.running, chunk)
      BY <2>2, <3>1 DEF TypeOK
    <3>3. Len(session'.running) = d.offset + 1
      BY <2>2, <3>2, AppendProperties DEF TypeOK
    <3>4. QED
      BY <2>2, <3>1, <3>2, <3>3
  <2>4. CASE o.res = "fault"
    BY <2>1, <2>2, <2>4 DEF Answer
  <2>5. CASE o.res = "cut"
    BY <2>1, <2>2, <2>5 DEF PowerUp
  <2>6. QED
    BY <2>1, <2>3, <2>4, <2>5
<1>4. QED
  BY <1>1, <1>2, <1>3 DEF WriteData

LEMMA CommitEffect ==
  ASSUME TypeOK, NEW seq \in Seqs, NEW image \in CommitPayload,
         CommitSession(seq, image) \/ RepeatedFrame(CommitFrame(seq, image))
  PROVE  \/ /\ UNCHANGED <<session, acked>> /\ mode' = "bl"
            /\ lastError' # "NONE" \/ FrameIsRetry(CommitFrame(seq, image))
         \/ session' = NoSession /\ acked' = acked /\ session.state = "OPEN" /\ mode' = "auto"
         \/ /\ session.state = "OPEN" /\ image = session.req.image
            /\ session'.state = "DONE" /\ session'.req = session.req
            /\ session'.running = session.req.image
            /\ acked' # None /\ acked'.req = session.req /\ mode' = "bl"
<1>1. CASE RepeatedFrame(CommitFrame(seq, image))
  BY <1>1 DEF RepeatedFrame
<1>2. CASE CommitRejected(seq, image) \/ CommitRefused(seq, image)
  BY <1>2 DEF CommitRejected, CommitRefused, Answer
<1>3. CASE CommitStored(seq, image)
  <2> DEFINE meta == FinalMeta(security, session.req)
  <2>1. PICK o \in StoreOutcomes(copies, meta, FloorToStore(session.req)) :
               CommitStored(seq, image)!1!3!(o)
    BY <1>3 DEF CommitStored
  <2>2. /\ session.state = "OPEN" /\ image = session.req.image
        /\ session.running = session.req.image
    BY <1>3 DEF CommitStored, CommitError
  <2>3. CASE o.res = "ok"
    <3>1. meta # None /\ meta.req = session.req
      BY <2>2, FinalMetaTyped, SecurityAssumption DEF FinalMeta
    <3>2. /\ acked' = meta /\ session'.state = "DONE" /\ session'.req = session.req
          /\ session'.running = session.running /\ mode' = "bl"
      BY <2>1, <2>3 DEF Answer, TypeOK
    <3>3. QED
      BY <2>2, <3>1, <3>2
  <2>4. CASE o.res = "fault"
    BY <2>1, <2>4 DEF Answer
  <2>5. CASE o.res = "cut"
    BY <2>1, <2>2, <2>5 DEF PowerUp
  <2>6. QED
    BY <2>1, <2>3, <2>4, <2>5
<1>4. QED
  BY <1>1, <1>2, <1>3 DEF CommitSession

LEMMA OtherEffect ==
  /\ Queried => UNCHANGED <<session, status, retry, acked>> /\ mode' = "bl"
  /\ BootApp => UNCHANGED <<session, acked>> /\ mode' = "bl"
  /\ Abort => session' = NoSession /\ acked' = acked /\ mode' = "bl"
<1>1. Queried => UNCHANGED <<session, status, retry, acked>> /\ mode' = "bl"
  BY DEF Queried, Query, vars
<1>2. BootApp => UNCHANGED <<session, acked>> /\ mode' = "bl"
  BY DEF BootApp, Answer
<1>3. Abort => session' = NoSession /\ acked' = acked /\ mode' = "bl"
  BY DEF Abort, Answer
<1>4. QED
  BY <1>1, <1>2, <1>3

\* A session that is done holds the whole of its image.
DoneIsWhole == session.state = "DONE" => session.running = session.req.image

LEMMA NextDone == TypeOK /\ DoneIsWhole /\ [Next]_vars => DoneIsWhole'
<1> SUFFICES ASSUME TypeOK, DoneIsWhole, [Next]_vars PROVE DoneIsWhole'
  OBVIOUS
<1>1. ASSUME NEW req \in Requests, BeginSession(req) PROVE DoneIsWhole'
  <2>1. NoSession.state = "IDLE" /\ [OpenSession(req) EXCEPT !.erased = TRUE].state = "OPEN"
    BY DEF NoSession, OpenSession
  <2>2. session' = session \/ session'.state \in {"IDLE", "OPEN"}
    BY <1>1, <2>1, BeginEffect DEF OpenSession
  <2>3. QED
    BY <2>2 DEF DoneIsWhole
<1>2. ASSUME NEW m \in Manifests, SetManifest(m) PROVE DoneIsWhole'
  BY <1>2, ManifestEffect DEF DoneIsWhole, NoSession, TypeOK
<1>3. ASSUME NEW seq \in Seqs, NEW d \in DataPayload,
             WriteData(seq, d) \/ RepeatedFrame(DataFrame(seq, d))
      PROVE  DoneIsWhole'
  BY <1>3, DataEffect DEF DoneIsWhole, NoSession
<1>4. ASSUME NEW seq \in Seqs, NEW image \in CommitPayload,
             CommitSession(seq, image) \/ RepeatedFrame(CommitFrame(seq, image))
      PROVE  DoneIsWhole'
  BY <1>4, CommitEffect DEF DoneIsWhole, NoSession
<1>5. CASE Abort \/ ClearMetadata \/ Reboot \/ VerifyImage \/ BootApp
           \/ (\E op \in Refusable : Malformed(op)) \/ Query
  BY <1>5
     DEF Abort, ClearMetadata, ClearRejected, ClearErasing, Reboot, VerifyImage, BootApp,
         Malformed, Query, PowerUp, DoneIsWhole, NoSession
<1>6. CASE Poll \/ TryBootApp \/ (\E r \in BOOLEAN : AppResets(r)) \/ PowerCycle
  BY <1>6 DEF Poll, TryBootApp, AppResets, PowerCycle, PowerUp, DoneIsWhole, NoSession
<1>7. CASE UNCHANGED vars
  BY <1>7 DEF vars, DoneIsWhole
<1>8. QED
  BY <1>1, <1>2, <1>3, <1>4, <1>5, <1>6, <1>7 DEF Next

\* What the tool relies on of the device.
DeviceInv == TypeOK /\ RetryStillTrue /\ StatusTruthful /\ DoneIsWhole

LEMMA DeviceInvHolds == LinkSpec => []DeviceInv
<1>1. Init => DoneIsWhole
  BY DEF Init, NoSession, DoneIsWhole
<1>2. Spec => []DoneIsWhole
  BY <1>1, NextDone, TypeCorrect, PTL DEF Spec
<1>3. QED
  BY <1>2, DeviceIsBootloader, TypeCorrect, RetryAnswersTruth, StatusIsTrue, PTL DEF DeviceInv

-----------------------------------------------------------------------------
(* The inductive invariant of a run that starts on an empty line. *)

\* An answer flash_image will accept is on its way to it.
AcceptableComes == \E i \in 1 .. Len(toHost) : Answers(toHost[i]) /\ Acceptable(toHost[i])

\* The session, if there is one, is this run's and holds n chunks.
Held(n) ==
  session.state = "OPEN" => (reopened \/ session.req = wanted) /\ Len(session.running) = n

\* The device has committed the image of this run, and no session can erase it.
Installed == session.state # "OPEN" /\ acked # None /\ acked.req.image = wanted.image

NoneOf(op) == \A j \in 1 .. Len(toDevice) : toDevice[j].op # op

AllAnswer == \A j \in 1 .. Len(toDevice) : Answers(toDevice[j])

\* What is under way is in order, ...
RunLine == step # "idle" => Line(wanted, toHost, toDevice, Stage)

\* ... no BEGIN is left once the first chunk is written, ...
BeginsGone ==
  (\/ step = "DATA" /\ index > 0
   \/ step \in {"COMMIT", "COMMIT_RECOVER", "BOOT_APP"}
   \/ verdict = "ok") => NoneOf("BEGIN")

\* ... the session is where the host thinks it is, the chunk under way written
\* or not, and what the host is about to believe is so.
ChunkAgrees ==
  step = "DATA" =>
    \/ Held(index) /\ (AcceptableComes => session.state # "OPEN")
    \/ Held(index + 1) /\ FrameIsRetry(DataFrame(Sequence, Body)) /\ AllAnswer

SessionAgrees ==
  /\ step \in {"BEGIN", "BEGIN_RECOVER"} /\ AcceptableComes => Held(0)
  /\ step = "BEGIN_RECOVER" => reopened
  /\ step = "SET_MANIFEST" => Held(0)
  /\ step = "COMMIT" => Held(Len(wanted.image))

SuccessAgrees ==
  /\ step \in {"COMMIT", "COMMIT_RECOVER"} /\ AcceptableComes => Installed
  /\ (step = "BOOT_APP" \/ verdict = "ok") => Installed

CleanInv == RunLine /\ BeginsGone /\ ChunkAgrees /\ SessionAgrees /\ SuccessAgrees

\* Every theorem above holds of the states considered.
Base == HostInv /\ Lines /\ DeviceInv

LEMMA StageOfStep ==
  HostInv /\ step # "idle" =>
    /\ step = "HELLO" => Stage = 1
    /\ step = "GET_DEVICE_INFO" => Stage = 2
    /\ step = "BEGIN" => Stage = 3
    /\ step = "BEGIN_RECOVER" => Stage = 4
    /\ step = "SET_MANIFEST" => Stage = 5
    /\ step = "DATA" => Stage = 6 + index
    /\ step = "COMMIT" => Stage = 6 + Len(wanted.image)
    /\ step = "COMMIT_RECOVER" => Stage = 7 + Len(wanted.image)
    /\ step = "BOOT_APP" => Stage = 8 + Len(wanted.image)
    /\ step = "ABORT" => Stage = 9 + Len(wanted.image)
<1>1. Current.op = Opcode /\ Current.seq = Sequence
  BY DEF Current
<1>2. HostInv /\ step = "DATA" => Stage = 6 + index
  <2> SUFFICES ASSUME HostInv, step = "DATA" PROVE Stage = 6 + index
    OBVIOUS
  <2>1. index \in Nat /\ FirstData(wanted) \in {4, 5}
    BY DEF HostInv, Place, FirstData
  <2>2. Stage = 6 + (FirstData(wanted) + index) - FirstData(wanted)
    BY <1>1, DataSends, StageOfOp DEF Stage
  <2>3. QED
    BY <2>1, <2>2
<1>3. /\ step = "HELLO" => Stage = 1
      /\ step = "GET_DEVICE_INFO" => Stage = 2
      /\ step = "BEGIN" => Stage = 3
      /\ step = "BEGIN_RECOVER" => Stage = 4
      /\ step = "SET_MANIFEST" => Stage = 5
      /\ step = "COMMIT_RECOVER" => Stage = 7 + Len(wanted.image)
      /\ step = "ABORT" => Stage = 9 + Len(wanted.image)
  BY <1>1, FixedSends, StageOfOp DEF Stage
<1>4. /\ step = "COMMIT" => Stage = 6 + Len(wanted.image)
      /\ step = "BOOT_APP" => Stage = 8 + Len(wanted.image)
  <2>1. /\ step = "COMMIT" => Current.op = "COMMIT"
        /\ step = "BOOT_APP" => Current.op = "BOOT_APP"
    BY <1>1 DEF Opcode
  <2>2. QED
    BY <2>1, StageOfOp DEF Stage
<1>5. QED
  BY <1>2, <1>3, <1>4

LEMMA AnswersByStage ==
  HostInv /\ step # "idle" =>
    \A x : OfRun(wanted, x) => (Answers(x) <=> StageOf(wanted, x) = Stage)
  BY AnswersAreOfStage

LEMMA CurrentOfRun ==
  HostInv /\ step # "idle" => SentBy(wanted, Current) /\ Answers(Current) /\ Stage \in Nat
  BY CurrentIsSent

\* An answer, or a frame answering, cannot be behind the present command: what
\* follows it is of the same command.
LEMMA AnswerIsLast ==
  ASSUME Base, CleanInv, step # "idle"
  PROVE  /\ AcceptableComes => AllAnswer
         /\ toHost # <<>> /\ Answers(Head(toHost)) =>
              /\ AllAnswer
              /\ \A i \in 1 .. Len(toHost) : Answers(toHost[i])
         /\ toDevice # <<>> /\ Answers(Head(toDevice)) => AllAnswer
<1>1. Line(wanted, toHost, toDevice, Stage) /\ wanted \in Requests /\ Stage \in Nat
  BY CurrentOfRun DEF CleanInv, RunLine, Base, HostInv, Place
<1>2. /\ \A i \in 1 .. Len(toHost) : OfRun(wanted, toHost[i])
      /\ \A j \in 1 .. Len(toDevice) : OfRun(wanted, toDevice[j])
  BY <1>1 DEF Line, SentBy
<1>3. /\ \A i \in 1 .. Len(toHost) : /\ Answers(toHost[i]) <=> StageOf(wanted, toHost[i]) = Stage
                                     /\ StageOf(wanted, toHost[i]) \in Nat
      /\ \A j \in 1 .. Len(toDevice) :
           /\ Answers(toDevice[j]) <=> StageOf(wanted, toDevice[j]) = Stage
           /\ StageOf(wanted, toDevice[j]) \in Nat
  BY <1>1, <1>2, AnswersByStage, StageTyped DEF Base
<1>4. ASSUME NEW i \in 1 .. Len(toHost), Answers(toHost[i]) PROVE AllAnswer
  <2> SUFFICES ASSUME NEW j \in 1 .. Len(toDevice) PROVE Answers(toDevice[j])
    BY DEF AllAnswer
  <2>1. /\ StageOf(wanted, toHost[i]) <= StageOf(wanted, toDevice[j])
        /\ StageOf(wanted, toDevice[j]) <= Stage
    BY <1>1 DEF Line
  <2>2. QED
    BY <1>1, <1>3, <1>4, <2>1
<1>5. ASSUME toHost # <<>>, Answers(Head(toHost))
      PROVE  AllAnswer /\ \A i \in 1 .. Len(toHost) : Answers(toHost[i])
  <2>1. Len(toHost) \in Nat /\ 1 \in 1 .. Len(toHost) /\ Head(toHost) = toHost[1]
    BY <1>5, LenProperties, EmptySeq DEF Base, Lines
  <2>2. ASSUME NEW i \in 1 .. Len(toHost) PROVE Answers(toHost[i])
    <3>1. /\ StageOf(wanted, toHost[1]) <= StageOf(wanted, toHost[i])
          /\ StageOf(wanted, toHost[i]) <= Stage
      BY <1>1, <2>1 DEF Line
    <3>2. QED
      BY <1>1, <1>3, <1>5, <2>1, <3>1
  <2>3. QED
    BY <1>4, <1>5, <2>1, <2>2
<1>6. ASSUME toDevice # <<>>, Answers(Head(toDevice)) PROVE AllAnswer
  <2> SUFFICES ASSUME NEW j \in 1 .. Len(toDevice) PROVE Answers(toDevice[j])
    BY DEF AllAnswer
  <2>1. Len(toDevice) \in Nat /\ 1 \in 1 .. Len(toDevice) /\ Head(toDevice) = toDevice[1]
    BY <1>6, LenProperties, EmptySeq DEF Base, Lines
  <2>2. /\ StageOf(wanted, toDevice[1]) <= StageOf(wanted, toDevice[j])
        /\ StageOf(wanted, toDevice[j]) <= Stage
    BY <1>1, <2>1 DEF Line
  <2>3. QED
    BY <1>1, <1>3, <1>6, <2>1, <2>2
<1>7. QED
  BY <1>4, <1>5, <1>6 DEF AcceptableComes

\* The command is the same as long as flash_image stays where it is.
LEMMA SameCommand ==
  ASSUME UNCHANGED <<step, index, wanted>>
  PROVE  /\ Opcode' = Opcode /\ Sequence' = Sequence /\ Body' = Body
         /\ Current' = Current /\ Stage' = Stage
         /\ \A x : Answers(x)' <=> Answers(x)
         /\ \A x : Acceptable(x)' <=> Acceptable(x)
<1>1. /\ Chunks' = Chunks /\ Signed' = Signed /\ Fits' = Fits /\ Upload' = Upload
      /\ Manifest' = Manifest /\ MayBegin' = MayBegin /\ MayGoOn' = MayGoOn
  BY DEF Chunks, Signed, Fits, Upload, Manifest, HasManifest, MayBegin, MayGoOn
<1>2. Opcode' = Opcode /\ Sequence' = Sequence
  BY <1>1 DEF Opcode, Sequence
<1>3. Body' = Body
  BY <1>1 DEF Body
<1>4. Current' = Current
  BY <1>2, <1>3 DEF Current
<1>5. \A x : Answers(x)' <=> Answers(x)
  BY <1>2 DEF Answers
<1>6. \A x : Acceptable(x)' <=> Acceptable(x)
  BY <1>1 DEF Acceptable
<1>7. QED
  BY <1>2, <1>3, <1>4, <1>5, <1>6 DEF Stage

LEMMA SuffixElements ==
  ASSUME NEW S, NEW s \in Seq(S), NEW t, SuffixOf(t, s)
  PROVE  \A i \in 1 .. Len(t) : \E k \in 1 .. Len(s) : t[i] = s[k]
<1>1. PICK k \in 0 .. Len(s) : Len(t) = Len(s) - k /\ \A i \in 1 .. Len(t) : t[i] = s[i + k]
  BY DEF SuffixOf
<1>2. Len(s) \in Nat
  BY LenProperties
<1>3. ASSUME NEW i \in 1 .. Len(t) PROVE \E l \in 1 .. Len(s) : t[i] = s[l]
  <2>1. i + k \in 1 .. Len(s) /\ t[i] = s[i + k]
    BY <1>1, <1>2
  <2>2. QED
    BY <2>1
<1>4. QED
  BY <1>3

\* Losing what is under way, a reset, and a device that does nothing keep it.
LEMMA ShrinkKeeps ==
  ASSUME Base, CleanInv, UNCHANGED <<step, index, wanted, reopened, verdict>>,
         SuffixOf(toHost', toHost), SuffixOf(toDevice', toDevice),
         session' = NoSession \/ UNCHANGED <<session, retry>>,
         Installed /\ NoneOf("BEGIN") => Installed'
  PROVE  CleanInv'
<1>1. /\ Sequence' = Sequence /\ Body' = Body /\ Stage' = Stage
      /\ \A x : Answers(x)' <=> Answers(x)
      /\ \A x : Acceptable(x)' <=> Acceptable(x)
  BY SameCommand
<1>2. /\ \A i \in 1 .. Len(toHost') : \E k \in 1 .. Len(toHost) : toHost'[i] = toHost[k]
      /\ \A i \in 1 .. Len(toDevice') : \E k \in 1 .. Len(toDevice) : toDevice'[i] = toDevice[k]
  BY SuffixElements DEF Base, Lines
<1>3. /\ AcceptableComes' => AcceptableComes
      /\ AllAnswer => AllAnswer'
      /\ NoneOf("BEGIN") => NoneOf("BEGIN")'
  <2>1. AcceptableComes' => AcceptableComes
    BY <1>1, <1>2 DEF AcceptableComes
  <2>2. AllAnswer => AllAnswer'
    BY <1>1, <1>2 DEF AllAnswer
  <2>3. NoneOf("BEGIN") => NoneOf("BEGIN")'
    BY <1>2 DEF NoneOf
  <2>4. QED
    BY <2>1, <2>2, <2>3
<1>4. RunLine'
  <2> SUFFICES ASSUME step # "idle" PROVE Line(wanted, toHost', toDevice', Stage)
    BY <1>1 DEF RunLine
  <2>1. Line(wanted, toHost, toDevice, Stage) /\ wanted \in Requests /\ Stage \in Nat
    BY CurrentOfRun DEF CleanInv, RunLine, Base, HostInv, Place
  <2>2. QED
    BY <2>1, LineShrinks DEF Base, Lines
<1>5. BeginsGone'
  BY <1>3 DEF CleanInv, BeginsGone
<1>6. session'.state = "OPEN" => UNCHANGED <<session, retry>>
  BY DEF NoSession
<1>7. /\ Held(0) => Held(0)'
      /\ Held(index) => Held(index)'
      /\ Held(index + 1) => Held(index + 1)'
      /\ Held(Len(wanted.image)) => Held(Len(wanted.image))'
  BY <1>6 DEF Held
<1>8. ChunkAgrees'
  <2> SUFFICES ASSUME step = "DATA" PROVE ChunkAgrees'
    BY DEF ChunkAgrees
  <2>1. CASE session'.state # "OPEN"
    BY <2>1 DEF ChunkAgrees, Held
  <2>2. CASE UNCHANGED <<session, retry>>
    BY <1>1, <1>3, <1>7, <2>2 DEF ChunkAgrees, CleanInv, FrameIsRetry
  <2>3. QED
    BY <1>6, <2>1, <2>2
<1>9. SessionAgrees'
  BY <1>3, <1>7 DEF CleanInv, SessionAgrees
<1>10. SuccessAgrees'
  BY <1>3 DEF CleanInv, SuccessAgrees, BeginsGone
<1>11. QED
  BY <1>4, <1>5, <1>8, <1>9, <1>10 DEF CleanInv

-----------------------------------------------------------------------------
(* The steps of the tool. *)

LEMMA HostSendsKeeps ==
  ASSUME Base, CleanInv, HostSends
  PROVE  CleanInv'
<1>1. /\ step # "idle" /\ toDevice' = Append(toDevice, Current)
      /\ toHost' \in Suffixes(toHost)
      /\ UNCHANGED <<step, index, wanted, reopened, verdict, session, retry, acked>>
  BY DEF HostSends, Current, vars
<1>2. /\ Sequence' = Sequence /\ Body' = Body /\ Stage' = Stage
      /\ \A x : Answers(x)' <=> Answers(x)
      /\ \A x : Acceptable(x)' <=> Acceptable(x)
  BY <1>1, SameCommand
<1>3. /\ toDevice \in Seq(HostFrames) /\ toHost \in Seq(HostAnswers) /\ toHost' \in Seq(HostAnswers)
      /\ SuffixOf(toHost', toHost) /\ SuffixOf(toDevice, toDevice)
  BY <1>1, SuffixesAre, SuffixTyped DEF Base, Lines
<1>4. /\ wanted \in Requests /\ Stage \in Nat /\ Current \in HostFrames
      /\ SentBy(wanted, Current) /\ Answers(Current) /\ StageOf(wanted, Current) = Stage
  BY <1>1, CurrentOfRun, CurrentTyped DEF Base, HostInv, Place, Stage
<1>5. /\ Len(toDevice) \in Nat /\ Len(toDevice') = Len(toDevice) + 1
      /\ toDevice'[Len(toDevice) + 1] = Current
      /\ \A j \in 1 .. Len(toDevice) : toDevice'[j] = toDevice[j]
  BY <1>1, <1>3, <1>4, LenProperties, AppendProperties
<1>6. RunLine'
  <2>1. Line(wanted, toHost, toDevice, Stage)
    BY <1>1 DEF CleanInv, RunLine
  <2>2. Line(wanted, toHost', toDevice, Stage)
    BY <1>3, <1>4, <2>1, LineShrinks
  <2>3. Line(wanted, toHost', toDevice', Stage)
    BY <1>1, <1>3, <1>4, <2>2, LineSends
  <2>4. QED
    BY <1>1, <1>2, <2>3 DEF RunLine
<1>7. AcceptableComes' => AcceptableComes
  <2>1. \A i \in 1 .. Len(toHost') : \E k \in 1 .. Len(toHost) : toHost'[i] = toHost[k]
    BY <1>3, SuffixElements
  <2>2. QED
    BY <1>2, <2>1 DEF AcceptableComes
<1>8. AllAnswer => AllAnswer'
  <2> SUFFICES ASSUME AllAnswer, NEW j \in 1 .. Len(toDevice') PROVE Answers(toDevice'[j])
    BY <1>2 DEF AllAnswer
  <2>1. j \in 1 .. Len(toDevice) \/ j = Len(toDevice) + 1
    BY <1>5
  <2>2. QED
    BY <1>4, <1>5, <2>1 DEF AllAnswer
<1>9. BeginsGone'
  <2>1. Current.op = "BEGIN" => step = "BEGIN" /\ verdict # "ok"
    BY <1>1 DEF Current, Opcode, Base, HostInv, Place
  <2>2. Current.op # "BEGIN" /\ NoneOf("BEGIN") => NoneOf("BEGIN")'
    <3> SUFFICES ASSUME Current.op # "BEGIN", NoneOf("BEGIN"), NEW j \in 1 .. Len(toDevice')
                 PROVE  toDevice'[j].op # "BEGIN"
      BY DEF NoneOf
    <3>1. j \in 1 .. Len(toDevice) \/ j = Len(toDevice) + 1
      BY <1>5
    <3>2. QED
      BY <1>5, <3>1 DEF NoneOf
  <2>3. QED
    BY <1>1, <2>1, <2>2 DEF CleanInv, BeginsGone
<1>10. ChunkAgrees'
  BY <1>1, <1>2, <1>7, <1>8 DEF CleanInv, ChunkAgrees, Held, FrameIsRetry
<1>11. SessionAgrees'
  BY <1>1, <1>7 DEF CleanInv, SessionAgrees, Held
<1>12. SuccessAgrees'
  BY <1>1, <1>7 DEF CleanInv, SuccessAgrees, Installed
<1>13. QED
  BY <1>6, <1>9, <1>10, <1>11, <1>12 DEF CleanInv

LEMMA NextStage ==
  (HostInv /\ step # "idle")' =>
    /\ step' = "HELLO" => Stage' = 1
    /\ step' = "GET_DEVICE_INFO" => Stage' = 2
    /\ step' = "BEGIN" => Stage' = 3
    /\ step' = "BEGIN_RECOVER" => Stage' = 4
    /\ step' = "SET_MANIFEST" => Stage' = 5
    /\ step' = "DATA" => Stage' = 6 + index'
    /\ step' = "COMMIT" => Stage' = 6 + Len(wanted'.image)
    /\ step' = "COMMIT_RECOVER" => Stage' = 7 + Len(wanted'.image)
    /\ step' = "BOOT_APP" => Stage' = 8 + Len(wanted'.image)
    /\ step' = "ABORT" => Stage' = 9 + Len(wanted'.image)
<1>1. (HostInv /\ step # "idle" =>
         /\ step = "HELLO" => Stage = 1
         /\ step = "GET_DEVICE_INFO" => Stage = 2
         /\ step = "BEGIN" => Stage = 3
         /\ step = "BEGIN_RECOVER" => Stage = 4
         /\ step = "SET_MANIFEST" => Stage = 5
         /\ step = "DATA" => Stage = 6 + index
         /\ step = "COMMIT" => Stage = 6 + Len(wanted.image)
         /\ step = "COMMIT_RECOVER" => Stage = 7 + Len(wanted.image)
         /\ step = "BOOT_APP" => Stage = 8 + Len(wanted.image)
         /\ step = "ABORT" => Stage = 9 + Len(wanted.image))'
  BY StageOfStep, PTL
<1>2. QED
  BY <1>1

LEMMA NextAnswersByStage ==
  (HostInv /\ step # "idle")' =>
    \A x : OfRun(wanted', x) => (Answers(x)' <=> StageOf(wanted', x) = Stage')
<1>1. (HostInv /\ step # "idle")' =>
        (\A x : OfRun(wanted, x) => (Answers(x) <=> StageOf(wanted, x) = Stage))'
  BY AnswersByStage, PTL
<1>2. QED
  BY <1>1

LEMMA NextStageTyped == (HostInv /\ step # "idle")' => Stage' \in Nat
<1>1. HostInv /\ step # "idle" => Stage \in Nat
  BY CurrentOfRun
<1>2. (HostInv /\ step # "idle" => Stage \in Nat)'
  BY <1>1, PTL
<1>3. QED
  BY <1>2

\* Going on to a later command keeps the order, and no answer to it is there yet.
LEMMA LaterCommand ==
  ASSUME Base, CleanInv, HostInv', step # "idle", step' # "idle", wanted' = wanted,
         Stage < Stage', toDevice' = toDevice, SuffixOf(toHost', toHost)
  PROVE  RunLine' /\ ~AcceptableComes'
<1>1. /\ Line(wanted, toHost, toDevice, Stage) /\ wanted \in Requests
      /\ Stage \in Nat /\ Stage' \in Nat /\ Stage <= Stage'
  BY CurrentOfRun, NextStageTyped DEF CleanInv, RunLine, Base, HostInv, Place
<1>2. RunLine'
  <2>1. SuffixOf(toDevice', toDevice)
    BY SuffixesAre DEF Base, Lines
  <2>2. Line(wanted, toHost', toDevice', Stage')
    BY <1>1, <2>1, LineShrinks DEF Base, Lines
  <2>3. QED
    BY <2>2 DEF RunLine
<1>3. ASSUME NEW i \in 1 .. Len(toHost'), NEW x, x = toHost'[i] PROVE ~Answers(x)'
  <2>1. PICK k \in 1 .. Len(toHost) : x = toHost[k]
    BY <1>3, SuffixElements DEF Base, Lines
  <2>2. OfRun(wanted, x) /\ StageOf(wanted, x) <= Stage
    BY <1>1, <2>1 DEF Line
  <2>3. StageOf(wanted, x) # Stage'
    BY <1>1, <2>2, StageTyped
  <2>4. Answers(x)' <=> StageOf(wanted, x) = Stage'
    BY <2>2, NextAnswersByStage
  <2>5. QED
    BY <2>3, <2>4
<1>4. ~AcceptableComes'
  <2>1. ASSUME AcceptableComes' PROVE FALSE
    <3>1. PICK i \in 1 .. Len(toHost') : (Answers(toHost[i]))'
      BY <2>1 DEF AcceptableComes
    <3>2. PICK x : x = toHost'[i]
      OBVIOUS
    <3>3. Answers(x)'
      BY <3>1, <3>2 DEF Answers
    <3>4. QED
      BY <1>3, <3>2, <3>3
  <2>2. QED
    BY <2>1
<1>5. QED
  BY <1>2, <1>4

LEMMA FinishFailedKeeps ==
  ASSUME Finish("failed") PROVE CleanInv'
  BY DEF Finish, CleanInv, RunLine, BeginsGone, ChunkAgrees, SessionAgrees, SuccessAgrees

\* The tool reports success only of what is installed, and leaves no BEGIN.
LEMMA FinishOkKeeps ==
  ASSUME Finish("ok"), Installed, NoneOf("BEGIN"), UNCHANGED <<session, acked, toDevice>>
  PROVE  CleanInv'
<1>1. step' = "idle" /\ wanted' = wanted
  BY DEF Finish
<1>2. Installed' /\ NoneOf("BEGIN")'
  BY <1>1 DEF Installed, NoneOf
<1>3. QED
  BY <1>1, <1>2 DEF CleanInv, RunLine, BeginsGone, ChunkAgrees, SessionAgrees, SuccessAgrees

LEMMA StageBeforeAbort ==
  ASSUME HostInv, step \notin {"idle", "ABORT"}
  PROVE  Stage < 9 + Len(wanted.image)
<1>1. /\ Len(wanted.image) \in Nat \ {0} /\ index \in Nat
      /\ step = "DATA" => index < Len(wanted.image)
      /\ step \in HostStep
  BY RequestTyped DEF HostInv, Place, Chunks
<1>2. QED
  BY <1>1, StageOfStep DEF HostStep

LEMMA FailsKeeps ==
  ASSUME Base, CleanInv, HostInv', step # "idle", Fails, SuffixOf(toHost', toHost),
         toDevice' = toDevice
  PROVE  CleanInv'
<1>1. CASE Finish("failed")
  BY <1>1, FinishFailedKeeps
<1>2. CASE GoTo("ABORT") /\ step # "ABORT"
  <2>1. step' = "ABORT" /\ wanted' = wanted /\ verdict' = "running"
    BY <1>2 DEF GoTo, Base, HostInv, Place
  <2>2. Stage < Stage'
    <3>1. Stage' = 9 + Len(wanted.image)
      BY <2>1, NextStage
    <3>2. QED
      BY <1>2, <3>1, StageBeforeAbort DEF Base
  <2>3. RunLine'
    BY <2>1, <2>2, LaterCommand
  <2>4. QED
    BY <2>1, <2>3 DEF CleanInv, BeginsGone, ChunkAgrees, SessionAgrees, SuccessAgrees
<1>3. QED
  BY <1>1, <1>2 DEF Fails

\* Where an accepted answer leads.
LEMMA AdvancesTo ==
  ASSUME HostInv, HostInv', step \notin {"idle", "ABORT", "BOOT_APP"}, Advances
  PROVE  /\ step' # "idle" /\ UNCHANGED <<wanted, verdict, reopened>>
         /\ Stage < Stage'
         /\ step = "HELLO" => step' = "GET_DEVICE_INFO"
         /\ step = "GET_DEVICE_INFO" => step' = "BEGIN"
         /\ step \in {"BEGIN", "BEGIN_RECOVER"} =>
              step' = "SET_MANIFEST" \/ (step' = "DATA" /\ index' = 0)
         /\ step = "SET_MANIFEST" => step' = "DATA" /\ index' = 0
         /\ step = "DATA" => \/ step' = "DATA" /\ index' = index + 1
                             \/ step' = "COMMIT" /\ index + 1 = Len(wanted.image)
         /\ step \in {"COMMIT", "COMMIT_RECOVER"} => step' = "BOOT_APP"
<1>1. /\ Len(wanted.image) \in Nat \ {0} /\ index \in Nat /\ Chunks = Len(wanted.image)
      /\ step = "DATA" => index < Len(wanted.image)
      /\ step \in HostStep
  BY RequestTyped DEF HostInv, Place, Chunks
<1> DEFINE next == CASE step = "HELLO" -> "GET_DEVICE_INFO"
                     [] step = "GET_DEVICE_INFO" -> "BEGIN"
                     [] step \in {"BEGIN", "BEGIN_RECOVER"} ->
                          IF Signed THEN "SET_MANIFEST" ELSE "DATA"
                     [] step = "SET_MANIFEST" -> "DATA"
                     [] step = "DATA" -> IF index + 1 < Chunks THEN "DATA" ELSE "COMMIT"
                     [] OTHER -> "BOOT_APP"
<1>2. GoTo(next) /\ UNCHANGED reopened
  BY DEF Advances
<1>3. /\ step = "HELLO" => next = "GET_DEVICE_INFO"
      /\ step = "GET_DEVICE_INFO" => next = "BEGIN"
      /\ step \in {"BEGIN", "BEGIN_RECOVER"} => next \in {"SET_MANIFEST", "DATA"}
      /\ step = "SET_MANIFEST" => next = "DATA"
      /\ step = "DATA" => \/ next = "DATA"
                          \/ next = "COMMIT" /\ ~(index + 1 < Chunks)
      /\ step \in {"COMMIT", "COMMIT_RECOVER"} => next = "BOOT_APP"
  BY DEF HostStep
<1> HIDE DEF next
<1>4. /\ step' = next /\ UNCHANGED <<wanted, verdict, reopened>>
      /\ index' = IF next = "DATA" /\ step = "DATA" THEN index + 1 ELSE 0
  BY <1>2 DEF GoTo
<1>5. ~(index + 1 < Chunks) /\ step = "DATA" => index + 1 = Len(wanted.image)
  BY <1>1
<1>6. /\ step = "HELLO" => step' = "GET_DEVICE_INFO"
      /\ step = "GET_DEVICE_INFO" => step' = "BEGIN"
      /\ step \in {"BEGIN", "BEGIN_RECOVER"} =>
           step' = "SET_MANIFEST" \/ (step' = "DATA" /\ index' = 0)
      /\ step = "SET_MANIFEST" => step' = "DATA" /\ index' = 0
      /\ step = "DATA" => \/ step' = "DATA" /\ index' = index + 1
                          \/ step' = "COMMIT" /\ index + 1 = Len(wanted.image)
      /\ step \in {"COMMIT", "COMMIT_RECOVER"} => step' = "BOOT_APP"
  BY <1>3, <1>4, <1>5
<1>7. step \in HostStep \ {"ABORT", "BOOT_APP"} /\ step' # "idle"
  BY <1>1, <1>6 DEF HostStep
<1>8. Stage < Stage'
  <2>1. wanted' = wanted
    BY <1>4
  <2>2. CASE step \in {"HELLO", "GET_DEVICE_INFO", "BEGIN", "BEGIN_RECOVER", "SET_MANIFEST"}
    BY <1>1, <1>6, <1>7, <2>1, <2>2, StageOfStep, NextStage
  <2>3. CASE step = "DATA"
    BY <1>1, <1>6, <1>7, <2>1, <2>3, StageOfStep, NextStage
  <2>4. CASE step \in {"COMMIT", "COMMIT_RECOVER"}
    BY <1>1, <1>6, <1>7, <2>1, <2>4, StageOfStep, NextStage
  <2>5. QED
    BY <1>7, <2>2, <2>3, <2>4 DEF HostStep
<1>9. QED
  BY <1>4, <1>6, <1>7, <1>8

LEMMA AdvancesKeeps ==
  ASSUME Base, CleanInv, HostInv', step \notin {"idle", "ABORT", "BOOT_APP"}, Advances,
         AcceptableComes, SuffixOf(toHost', toHost),
         UNCHANGED <<session, acked, retry, toDevice>>
  PROVE  CleanInv'
<1>1. /\ step' # "idle" /\ UNCHANGED <<wanted, verdict, reopened>>
      /\ Stage < Stage'
      /\ step = "HELLO" => step' = "GET_DEVICE_INFO"
      /\ step = "GET_DEVICE_INFO" => step' = "BEGIN"
      /\ step \in {"BEGIN", "BEGIN_RECOVER"} =>
           step' = "SET_MANIFEST" \/ (step' = "DATA" /\ index' = 0)
      /\ step = "SET_MANIFEST" => step' = "DATA" /\ index' = 0
      /\ step = "DATA" => \/ step' = "DATA" /\ index' = index + 1
                          \/ step' = "COMMIT" /\ index + 1 = Len(wanted.image)
      /\ step \in {"COMMIT", "COMMIT_RECOVER"} => step' = "BOOT_APP"
  BY AdvancesTo DEF Base
<1>2. RunLine' /\ ~AcceptableComes'
  BY <1>1, LaterCommand
<1>3. step \in HostStep \ {"ABORT", "BOOT_APP"} /\ verdict = "running"
  BY DEF Base, HostInv, Place
<1>4. BeginsGone'
  <2>1. NoneOf("BEGIN")' <=> NoneOf("BEGIN")
    BY DEF NoneOf
  <2>2. step = "DATA" => NoneOf("BEGIN")
    <3>1. step = "DATA" => Opcode = "DATA" /\ AllAnswer
      BY AnswerIsLast, DataSends
    <3>2. QED
      BY <3>1 DEF AllAnswer, Answers, NoneOf
  <2>3. step \in {"COMMIT", "COMMIT_RECOVER"} => NoneOf("BEGIN")
    BY DEF CleanInv, BeginsGone
  <2>4. step \in {"HELLO", "GET_DEVICE_INFO", "BEGIN", "BEGIN_RECOVER", "SET_MANIFEST"} =>
          step' \notin {"COMMIT", "COMMIT_RECOVER", "BOOT_APP"} /\ ~(step' = "DATA" /\ index' > 0)
    BY <1>1
  <2>5. QED
    BY <1>1, <1>3, <2>1, <2>2, <2>3, <2>4 DEF BeginsGone, HostStep
<1>5. /\ \A n : Held(n) => Held(n)'
      /\ session.state # "OPEN" => \A n : Held(n)'
      /\ Installed => Installed'
  BY <1>1 DEF Held, Installed
<1>6. /\ step \in {"BEGIN", "BEGIN_RECOVER", "SET_MANIFEST"} => Held(0)
      /\ step = "DATA" => Held(index + 1)
      /\ step \in {"COMMIT", "COMMIT_RECOVER"} => Installed
  <2>1. /\ step \in {"BEGIN", "BEGIN_RECOVER", "SET_MANIFEST"} => Held(0)
        /\ step \in {"COMMIT", "COMMIT_RECOVER"} => Installed
    BY DEF CleanInv, SessionAgrees, SuccessAgrees
  <2>2. step = "DATA" => Held(index + 1)
    BY DEF CleanInv, ChunkAgrees, Held
  <2>3. QED
    BY <2>1, <2>2
<1>7. ChunkAgrees'
  <2> SUFFICES ASSUME step' = "DATA" PROVE Held(index)'
    BY <1>2 DEF ChunkAgrees
  <2>1. CASE step = "DATA"
    BY <1>1, <1>5, <1>6, <2>1
  <2>2. CASE step # "DATA"
    <3>1. step \in {"BEGIN", "BEGIN_RECOVER", "SET_MANIFEST"} /\ index' = 0
      BY <1>1, <1>3, <2>2 DEF HostStep
    <3>2. QED
      BY <1>5, <1>6, <3>1
  <2>3. QED
    BY <2>1, <2>2
<1>8. SessionAgrees'
  <2>1. step' = "SET_MANIFEST" => Held(0)'
    BY <1>1, <1>3, <1>5, <1>6 DEF HostStep
  <2>2. step' = "COMMIT" => Held(Len(wanted.image))'
    BY <1>1, <1>3, <1>5, <1>6 DEF HostStep
  <2>3. step' # "BEGIN_RECOVER"
    BY <1>1, <1>3 DEF HostStep
  <2>4. QED
    BY <1>2, <2>1, <2>2, <2>3 DEF SessionAgrees
<1>9. SuccessAgrees'
  <2>1. step' = "BOOT_APP" => Installed'
    BY <1>1, <1>3, <1>5, <1>6 DEF HostStep
  <2>2. verdict' # "ok"
    BY <1>1, <1>3
  <2>3. QED
    BY <1>2, <2>1, <2>2 DEF SuccessAgrees
<1>10. QED
  BY <1>2, <1>4, <1>7, <1>8, <1>9 DEF CleanInv

\* After a reconnection the tool asks for the state, and no answer is there yet.
LEMMA ReconnectsKeeps ==
  ASSUME Base, CleanInv, HostInv', UNCHANGED <<vars, toDevice>>, NEW s, NEW rest,
         \/ step = "BEGIN" /\ s = "BEGIN_RECOVER"
         \/ step = "COMMIT" /\ s = "COMMIT_RECOVER",
         Reconnects(s, rest), SuffixOf(toHost', toHost)
  PROVE  CleanInv'
<1>1. CASE Finish("failed")
  BY <1>1, FinishFailedKeeps
<1>2. CASE ~Finish("failed")
  <2>1. step' = s /\ reopened' = TRUE /\ UNCHANGED <<wanted, verdict>>
    BY <1>2 DEF Reconnects
  <2>2. Stage < Stage'
    <3>1. wanted \in Requests /\ Len(wanted.image) \in Nat
      BY RequestTyped DEF Base, HostInv, Place
    <3>2. QED
      BY <2>1, <3>1, StageOfStep, NextStage DEF Base
  <2>3. RunLine' /\ ~AcceptableComes'
    BY <2>1, <2>2, LaterCommand
  <2>4. BeginsGone'
    BY <2>1 DEF CleanInv, BeginsGone, NoneOf
  <2>5. verdict' = "running"
    BY <2>1 DEF Base, HostInv, Place
  <2>6. QED
    BY <2>1, <2>3, <2>4, <2>5 DEF CleanInv, ChunkAgrees, SessionAgrees, SuccessAgrees
<1>3. QED
  BY <1>1, <1>2

LEMMA UnavailableKeeps ==
  ASSUME Base, CleanInv, HostInv', step # "idle", UNCHANGED <<vars, toDevice>>, NEW rest,
         Unavailable(rest), SuffixOf(toHost', toHost)
  PROVE  CleanInv'
<1>1. CASE step = "BEGIN"
  BY <1>1, ReconnectsKeeps DEF Unavailable
<1>2. CASE step = "COMMIT"
  BY <1>2, ReconnectsKeeps DEF Unavailable
<1>3. CASE step = "BOOT_APP"
  <2>1. Finish("ok") /\ Installed /\ NoneOf("BEGIN")
    BY <1>3 DEF Unavailable, CleanInv, SuccessAgrees, BeginsGone
  <2>2. QED
    BY <2>1, FinishOkKeeps DEF vars
<1>4. CASE step \notin {"BEGIN", "COMMIT", "BOOT_APP"}
  BY <1>4, FailsKeeps DEF Unavailable
<1>5. QED
  BY <1>1, <1>2, <1>3, <1>4

LEMMA NoUsableAnswerKeeps ==
  ASSUME Base, CleanInv, HostInv', step # "idle", UNCHANGED <<vars, toDevice>>, NEW rest,
         NoUsableAnswer(rest), SuffixOf(toHost', toHost)
  PROVE  CleanInv'
<1>1. CASE attempt < Retries
  <2>1. SuffixOf(toDevice', toDevice)
    BY SuffixesAre DEF Base, Lines
  <2>2. UNCHANGED <<step, index, wanted, reopened, verdict, session, retry, acked>>
    BY <1>1 DEF NoUsableAnswer, vars
  <2>3. Installed => Installed'
    BY <2>2 DEF Installed
  <2>4. QED
    BY <2>1, <2>2, <2>3, ShrinkKeeps
<1>2. CASE ~(attempt < Retries) /\ mismatch
  BY <1>2, FailsKeeps DEF NoUsableAnswer
<1>3. CASE ~(attempt < Retries) /\ ~mismatch
  BY <1>3, UnavailableKeeps DEF NoUsableAnswer
<1>4. QED
  BY <1>1, <1>2, <1>3

\* The answer read is the present command's, and nothing older is left.
LEMMA HostReadsKeeps ==
  ASSUME Base, CleanInv, HostInv', HostReads
  PROVE  CleanInv'
<1>1. /\ step # "idle" /\ toHost # <<>> /\ toHost' = Tail(toHost) /\ toDevice' = toDevice
      /\ UNCHANGED <<vars, session, retry, acked>>
  BY DEF HostReads, Base, HostInv, Place, vars
<1>2. SuffixOf(toHost', toHost) /\ SuffixOf(toDevice', toDevice)
  BY <1>1, SuffixesAre DEF Base, Lines
<1>3. CASE ~Answers(Head(toHost))
  <2>1. UNCHANGED <<step, index, wanted, reopened, verdict>>
    BY <1>3 DEF HostReads
  <2>2. Installed => Installed'
    BY <1>1, <2>1 DEF Installed
  <2>3. QED
    BY <1>1, <1>2, <2>1, <2>2, ShrinkKeeps
<1>4. CASE Answers(Head(toHost))
  <2> DEFINE answer == Head(toHost)
  <2>1. Concludes(answer)
    BY <1>4 DEF HostReads
  <2>2. Acceptable(answer) => AcceptableComes
    <3>1. 1 \in 1 .. Len(toHost) /\ Head(toHost) = toHost[1]
      BY <1>1, LenProperties, EmptySeq DEF Base, Lines
    <3>2. QED
      BY <1>4, <3>1 DEF AcceptableComes
  <2> HIDE DEF answer
  <2>3. CASE step = "ABORT"
    BY <2>1, <2>3, FinishFailedKeeps DEF Concludes
  <2>4. CASE step # "ABORT" /\ ~Acceptable(answer)
    BY <1>1, <1>2, <2>1, <2>4, FailsKeeps DEF Concludes
  <2>5. CASE step # "ABORT" /\ Acceptable(answer)
    <3>1. \/ Finish("ok") /\ step \in {"BOOT_APP", "COMMIT", "COMMIT_RECOVER"}
          \/ Advances /\ step # "BOOT_APP"
      BY <2>1, <2>5 DEF Concludes
    <3>2. CASE Finish("ok") /\ step \in {"BOOT_APP", "COMMIT", "COMMIT_RECOVER"}
      <4>1. Installed /\ NoneOf("BEGIN")
        BY <2>2, <2>5, <3>2 DEF CleanInv, SuccessAgrees, BeginsGone
      <4>2. QED
        BY <1>1, <3>2, <4>1, FinishOkKeeps
    <3>3. CASE Advances /\ step # "BOOT_APP"
      BY <1>1, <1>2, <2>2, <2>5, <3>3, AdvancesKeeps
    <3>4. QED
      BY <3>1, <3>2, <3>3
  <2>6. QED
    BY <2>3, <2>4, <2>5
<1>5. QED
  BY <1>3, <1>4

\* Starting the tool with nothing under way.
LEMMA HostStartsKeeps ==
  ASSUME Base, NEW req \in Requests, HostStarts(req), CleanStart
  PROVE  CleanInv'
<1>1. /\ step' = "HELLO" /\ verdict' = "running" /\ step' # "idle"
      /\ toDevice = <<>> /\ toHost = <<>> /\ toDevice' = toDevice
      /\ toHost' \in Suffixes(toHost)
  BY DEF HostStarts, CleanStart
<1>2. Len(toDevice') = 0 /\ Len(toHost') = 0
  <2>1. PICK k \in 0 .. Len(toHost) : Len(toHost') = Len(toHost) - k
    BY <1>1, SuffixesAre DEF SuffixOf, Base, Lines
  <2>2. Len(toHost) = 0 /\ Len(toDevice) = 0
    BY <1>1, EmptySeq
  <2>3. QED
    BY <1>1, <2>1, <2>2
<1>3. 1 .. Len(toDevice') = {} /\ 1 .. Len(toHost') = {}
  BY <1>2
<1>4. RunLine' /\ BeginsGone'
  BY <1>3 DEF RunLine, Line, BeginsGone, NoneOf
<1>5. QED
  BY <1>1, <1>4 DEF CleanInv, ChunkAgrees, SessionAgrees, SuccessAgrees

-----------------------------------------------------------------------------
(* The steps of the device. *)

\* What the device did with a frame: power lost while it ran, or it answers.
LEMMA HandlesEffect ==
  ASSUME TypeOK, NEW f \in HostFrames, Handles(f)
  PROVE  /\ mode' = "auto" => session' = NoSession
         /\ session.state # "OPEN" /\ f.op # "BEGIN" =>
              (session' = session \/ session' = NoSession) /\ acked' = acked
<1>1. /\ f.seq \in Seqs
      /\ f.op = "BEGIN" => f.body \in Requests
      /\ f.op = "DATA" => f.body \in DataPayload
      /\ f.op = "COMMIT" => f.body \in CommitPayload
  BY DEF HostFrames
<1>2. CASE f.op \in {"HELLO", "GET_DEVICE_INFO", "GET_STATUS", "BOOT_APP", "ABORT"}
  BY <1>2, OtherEffect DEF Handles
<1>3. CASE f.op = "BEGIN"
  <2>1. BeginSession(f.body)
    BY <1>3 DEF Handles
  <2>2. QED
    BY <1>3, <2>1, BeginEffect
<1>4. CASE f.op = "SET_MANIFEST"
  <2>1. SetManifest(f.body)
    BY <1>4 DEF Handles
  <2>2. QED
    BY <2>1, ManifestEffect
<1>5. CASE f.op = "DATA"
  <2>1. WriteData(f.seq, f.body) \/ RepeatedFrame(DataFrame(f.seq, f.body))
    BY <1>5 DEF Handles
  <2>2. QED
    BY <1>1, <1>5, <2>1, DataEffect
<1>6. CASE f.op = "COMMIT"
  <2>1. CommitSession(f.seq, f.body) \/ RepeatedFrame(CommitFrame(f.seq, f.body))
    BY <1>6 DEF Handles
  <2>2. QED
    BY <1>1, <1>6, <2>1, CommitEffect
<1>7. QED
  BY <1>2, <1>3, <1>4, <1>5, <1>6 DEF Handles

\* A session stays as it is under every frame of its run but the chunk it
\* waits for, and a BEGIN only starts it anew.
LEMMA HeldKept ==
  ASSUME Base, NEW f \in HostFrames, step # "idle", SentBy(wanted, f), Handles(f),
         NEW n \in Nat, Held(n), UNCHANGED <<wanted, reopened>>,
         f.op = "BEGIN" => n = 0,
         f.op = "DATA" => f.seq - FirstData(wanted) # n
  PROVE  Held(n)'
<1>1. /\ f.seq \in Seqs /\ TypeOK
      /\ f.op = "DATA" => f.body \in DataPayload
      /\ f.op = "COMMIT" => f.body \in CommitPayload
  BY DEF HostFrames, Base, DeviceInv
<1>2. /\ session' = session => Held(n)'
      /\ session'.state # "OPEN" => Held(n)'
      /\ session' = NoSession => Held(n)'
  BY DEF Held, NoSession
<1>3. CASE f.op \in {"HELLO", "GET_DEVICE_INFO", "GET_STATUS", "BOOT_APP", "ABORT"}
  BY <1>2, <1>3, OtherEffect DEF Handles
<1>4. CASE f.op = "BEGIN"
  <2>1. BeginSession(wanted) /\ n = 0
    BY <1>4 DEF Handles, SentBy
  <2>2. CASE \/ session' = OpenSession(wanted)
             \/ session' = [OpenSession(wanted) EXCEPT !.erased = TRUE]
    <3>1. session'.req = wanted /\ session'.running = <<>>
      BY <2>2 DEF OpenSession
    <3>2. Len(session'.running) = 0
      BY <3>1, EmptySeq
    <3>3. QED
      BY <2>1, <3>1, <3>2 DEF Held
  <2>3. QED
    BY <1>2, <2>1, <2>2, BeginEffect
<1>5. CASE f.op = "SET_MANIFEST"
  <2>1. SetManifest(f.body)
    BY <1>5 DEF Handles
  <2>2. CASE session.state = "OPEN" /\ session' = [session EXCEPT !.erased = TRUE]
    <3>1. session'.req = session.req /\ session'.running = session.running
      BY <1>1, <2>2 DEF TypeOK
    <3>2. QED
      BY <2>2, <3>1 DEF Held
  <2>3. QED
    BY <1>2, <2>1, <2>2, ManifestEffect
<1>6. CASE f.op = "DATA"
  <2>1. WriteData(f.seq, f.body) \/ RepeatedFrame(DataFrame(f.seq, f.body))
    BY <1>6 DEF Handles
  <2>2. f.body.offset # n
    BY <1>6 DEF SentBy, ChunkOf
  <2>3. ~(session.state = "OPEN" /\ Len(session.running) = f.body.offset)
    BY <2>2 DEF Held
  <2>4. QED
    BY <1>1, <1>2, <1>6, <2>1, <2>3, DataEffect
<1>7. CASE f.op = "COMMIT"
  <2>1. CommitSession(f.seq, f.body) \/ RepeatedFrame(CommitFrame(f.seq, f.body))
    BY <1>7 DEF Handles
  <2>2. QED
    BY <1>1, <1>2, <1>7, <2>1, CommitEffect
<1>8. QED
  BY <1>3, <1>4, <1>5, <1>6, <1>7 DEF Handles

\* The state just after the device has taken and answered the oldest frame.
DeviceAnswers(f, y) ==
  /\ toDevice # <<>> /\ f = Head(toDevice) /\ Handles(f)
  /\ toDevice' = Tail(toDevice) /\ toHost' = Append(toHost, y)
  /\ y = StatusAnswer(f)
  /\ mode' # "auto"
  /\ UNCHANGED host

\* The chunk under way is written at most once, and only once is it accepted.
LEMMA AnswerKeepsChunk ==
  ASSUME Base, DeviceInv', CleanInv, NEW f \in HostFrames, NEW y, DeviceAnswers(f, y),
         step = "DATA", SentBy(wanted, f),
         AcceptableComes' => AcceptableComes \/ (Answers(f) /\ Acceptable(y)),
         AllAnswer => AllAnswer'
  PROVE  ChunkAgrees'
<1>1. /\ UNCHANGED <<step, index, wanted, reopened>> /\ index \in Nat
      /\ Sequence' = Sequence /\ Body' = Body
  BY SameCommand DEF DeviceAnswers, host, Base, HostInv, Place
<1>2. /\ toDevice # <<>> /\ f = Head(toDevice) /\ Handles(f) /\ mode' # "auto"
      /\ Len(toDevice) \in Nat /\ 1 \in 1 .. Len(toDevice) /\ f = toDevice[1]
  BY LenProperties, EmptySeq DEF DeviceAnswers, Base, Lines
<1>3. /\ Opcode = "DATA" /\ Sequence = FirstData(wanted) + index
      /\ FirstData(wanted) \in {4, 5}
  BY DataSends DEF FirstData
<1>4. f.op = "DATA" => f.seq \in Nat
  <2>1. Len(wanted.image) \in Nat
    BY RequestTyped DEF Base, HostInv, Place
  <2>2. QED
    BY <1>3, <2>1 DEF SentBy, OfRun
<1>5. y.err = lastError'
  BY DEF DeviceAnswers, StatusAnswer
<1>6. CASE ~Answers(f)
  <2>1. Held(index) /\ (AcceptableComes => session.state # "OPEN")
    BY <1>2, <1>6 DEF CleanInv, ChunkAgrees, AllAnswer
  <2>2. ~AcceptableComes'
    BY <1>2, <1>6, AnswerIsLast DEF AllAnswer
  <2>3. f.op = "DATA" => f.seq - FirstData(wanted) # index
    BY <1>3, <1>4, <1>6 DEF Answers
  <2>4. f.op = "BEGIN" => index = 0
    BY <1>1, <1>2 DEF CleanInv, BeginsGone, NoneOf
  <2>5. Held(index)'
    <3>1. \A n \in Nat : n = index => Held(n)'
      BY <1>1, <1>2, <2>1, <2>3, <2>4, HeldKept
    <3>2. Held(index)' <=> \A n \in Nat : n = index => Held(n)'
      BY <1>1 DEF Held
    <3>3. QED
      BY <3>1, <3>2
  <2>6. QED
    BY <2>2, <2>5 DEF ChunkAgrees
<1>7. CASE Answers(f)
  <2> DEFINE d == f.body
  <2>1. /\ f.op = "DATA" /\ f.seq = Sequence /\ f.seq \in Seqs /\ d \in DataPayload
        /\ AllAnswer'
    BY <1>2, <1>3, <1>7, AnswerIsLast DEF Answers, HostFrames
  <2>2. d = ChunkOf(wanted, index) /\ d = Body /\ d.offset = index
    <3>1. d = ChunkOf(wanted, f.seq - FirstData(wanted))
      BY <2>1 DEF SentBy
    <3>2. f.seq - FirstData(wanted) = index
      BY <1>1, <1>3, <2>1
    <3>3. d = ChunkOf(wanted, index)
      BY <3>1, <3>2
    <3>4. QED
      BY <3>3 DEF ChunkOf, Body, Upload
  <2>3. WriteData(f.seq, d) \/ RepeatedFrame(DataFrame(f.seq, d))
    BY <1>2, <2>1 DEF Handles
  <2> HIDE DEF d
  <2>4. \/ Held(index) /\ (AcceptableComes => session.state # "OPEN")
        \/ Held(index + 1) /\ FrameIsRetry(DataFrame(f.seq, d)) /\ AllAnswer
    BY <2>1, <2>2 DEF CleanInv, ChunkAgrees
  <2>5. FrameIsRetry(DataFrame(f.seq, d)) =>
          session.state = "OPEN" /\ Len(session.running) = index + 1
    BY <2>2 DEF FrameIsRetry, DataFrame, Frame, Base, DeviceInv, RetryStillTrue
  <2>6. CASE UNCHANGED <<session, retry>> /\ FrameIsRetry(DataFrame(f.seq, d))
    <3>1. Held(index + 1)
      BY <1>1, <2>4, <2>5, <2>6 DEF Held
    <3>2. Held(index + 1)' /\ FrameIsRetry(DataFrame(Sequence, Body))'
      BY <1>1, <2>1, <2>2, <2>6, <3>1 DEF Held, FrameIsRetry
    <3>3. QED
      BY <2>1, <3>2 DEF ChunkAgrees
  <2>7. CASE session' = session /\ lastError' # "NONE" /\ ~FrameIsRetry(DataFrame(f.seq, d))
    <3>1. ~Acceptable(y)
      BY <1>5, <2>7 DEF Acceptable
    <3>2. Held(index)' /\ (AcceptableComes' => session'.state # "OPEN")
      BY <1>1, <2>4, <2>7, <3>1 DEF Held
    <3>3. QED
      BY <3>2 DEF ChunkAgrees
  <2>8. CASE session' = NoSession
    BY <2>8 DEF ChunkAgrees, Held, NoSession
  <2>9. CASE /\ session.state = "OPEN" /\ Len(session.running) = d.offset
             /\ session'.state = "OPEN" /\ session'.req = session.req
             /\ Len(session'.running) = d.offset + 1
             /\ retry' = DataFrame(f.seq, d)
    <3>1. Held(index)
      BY <1>1, <2>2, <2>4, <2>5, <2>9
    <3>2. Held(index + 1)'
      BY <1>1, <2>2, <2>9, <3>1 DEF Held
    <3>3. FrameIsRetry(DataFrame(Sequence, Body))'
      BY <1>1, <2>1, <2>2, <2>9 DEF FrameIsRetry, DataFrame, Frame
    <3>4. QED
      BY <2>1, <3>2, <3>3 DEF ChunkAgrees
  <2>10. TypeOK
    BY DEF Base, DeviceInv
  <2>11. QED
    BY <2>1, <2>3, <2>6, <2>7, <2>8, <2>9, <2>10, DataEffect
<1>8. QED
  BY <1>6, <1>7

\* What the device then says of the session is so, and it is where the tool
\* thinks it is.
LEMMA AnswerKeepsSession ==
  ASSUME Base, DeviceInv', CleanInv, NEW f \in HostFrames, NEW y, DeviceAnswers(f, y),
         step # "idle", SentBy(wanted, f), StageOf(wanted, f) <= Stage,
         AcceptableComes' => AcceptableComes \/ (Answers(f) /\ Acceptable(y))
  PROVE  SessionAgrees'
<1>1. /\ UNCHANGED <<step, index, wanted, reopened>> /\ wanted \in Requests
      /\ Len(wanted.image) \in Nat \ {0} /\ FirstData(wanted) \in {4, 5}
  BY RequestTyped DEF DeviceAnswers, host, Base, HostInv, Place, FirstData
<1>2. /\ toDevice # <<>> /\ f = Head(toDevice) /\ Handles(f) /\ mode' # "auto"
      /\ 1 \in 1 .. Len(toDevice) /\ f = toDevice[1]
  BY LenProperties, EmptySeq DEF DeviceAnswers, Base, Lines
<1>3. AcceptableComes' => Answers(f)
  BY <1>2, AnswerIsLast DEF AllAnswer
<1>4. y.err = lastError' /\ y.written = session'.running
  BY DEF DeviceAnswers, StatusAnswer
<1>5. ASSUME step = "BEGIN", AcceptableComes' PROVE Held(0)'
  <2>1. f.op = "BEGIN" /\ BeginSession(wanted)
    BY <1>2, <1>3, <1>5, FixedSends DEF Answers, Handles, SentBy
  <2>2. CASE session' = session /\ lastError' # "NONE"
    <3>1. ~Acceptable(y)
      BY <1>4, <1>5, <2>2 DEF Acceptable
    <3>2. Held(0)
      BY <1>5, <3>1 DEF CleanInv, SessionAgrees
    <3>3. QED
      BY <1>1, <2>2, <3>2 DEF Held
  <2>3. CASE \/ session' = OpenSession(wanted)
             \/ session' = [OpenSession(wanted) EXCEPT !.erased = TRUE]
    <3>1. session'.req = wanted /\ session'.running = <<>>
      BY <2>3 DEF OpenSession
    <3>2. Len(session'.running) = 0
      BY <3>1, EmptySeq
    <3>3. QED
      BY <1>1, <3>1, <3>2 DEF Held
  <2>4. CASE session' = NoSession
    BY <2>4 DEF Held, NoSession
  <2>5. QED
    BY <2>1, <2>2, <2>3, <2>4, BeginEffect
<1>6. ASSUME step = "BEGIN_RECOVER", AcceptableComes' PROVE Held(0)'
  <2>1. f.op = "GET_STATUS" /\ session' = session
    BY <1>2, <1>3, <1>6, FixedSends, OtherEffect DEF Answers, Handles
  <2>2. CASE AcceptableComes
    <3>1. Held(0)
      BY <1>6, <2>2 DEF CleanInv, SessionAgrees
    <3>2. QED
      BY <1>1, <2>1, <3>1 DEF Held
  <2>3. CASE Acceptable(y)
    <3>1. session'.running = <<>>
      BY <1>4, <1>6, <2>3 DEF Acceptable
    <3>2. reopened
      BY <1>6 DEF CleanInv, SessionAgrees
    <3>3. QED
      BY <1>1, <3>1, <3>2, EmptySeq DEF Held
  <2>4. QED
    BY <1>6, <2>2, <2>3
<1>7. ASSUME step = "SET_MANIFEST" PROVE Held(0)'
  <2>1. Stage = 5
    BY <1>7, StageOfStep DEF Base
  <2>2. f.op # "DATA"
    BY <1>1, <2>1, StageOfOp DEF SentBy, OfRun
  <2>3. Held(0)
    BY <1>7 DEF CleanInv, SessionAgrees
  <2>4. QED
    BY <1>1, <1>2, <1>7, <2>2, <2>3, HeldKept
<1>8. ASSUME step = "COMMIT" PROVE Held(Len(wanted.image))'
  <2>1. f.op # "BEGIN"
    BY <1>2, <1>8 DEF CleanInv, BeginsGone, NoneOf
  <2>2. f.op = "DATA" => f.seq - FirstData(wanted) # Len(wanted.image)
    BY <1>1 DEF SentBy, OfRun
  <2>3. Held(Len(wanted.image))
    BY <1>8 DEF CleanInv, SessionAgrees
  <2>4. \A n \in Nat : n = Len(wanted.image) => Held(n)'
    BY <1>1, <1>2, <1>8, <2>1, <2>2, <2>3, HeldKept
  <2>5. QED
    BY <1>1, <2>4 DEF Held
<1>9. step = "BEGIN_RECOVER" => reopened
  BY DEF CleanInv, SessionAgrees
<1>10. QED
  BY <1>1, <1>5, <1>6, <1>7, <1>8, <1>9 DEF SessionAgrees

\* The success the tool is about to believe is so, and stays so.
LEMMA AnswerKeepsSuccess ==
  ASSUME Base, DeviceInv', CleanInv, NEW f \in HostFrames, NEW y, DeviceAnswers(f, y),
         step # "idle" => SentBy(wanted, f),
         AcceptableComes' => AcceptableComes \/ (Answers(f) /\ Acceptable(y))
  PROVE  SuccessAgrees'
<1>1. UNCHANGED <<step, index, wanted, reopened, verdict>> /\ TypeOK
  BY DEF DeviceAnswers, host, Base, DeviceInv
<1>2. /\ toDevice # <<>> /\ f = Head(toDevice) /\ Handles(f) /\ mode' # "auto"
      /\ 1 \in 1 .. Len(toDevice) /\ f = toDevice[1]
  BY LenProperties, EmptySeq DEF DeviceAnswers, Base, Lines
<1>3. Installed /\ f.op # "BEGIN" => Installed'
  BY <1>1, <1>2, HandlesEffect DEF Installed, NoSession
<1>4. (step \in {"COMMIT", "COMMIT_RECOVER", "BOOT_APP"} \/ verdict = "ok") => f.op # "BEGIN"
  BY <1>2 DEF CleanInv, BeginsGone, NoneOf
<1>5. (step = "BOOT_APP" \/ verdict = "ok") => Installed'
  BY <1>3, <1>4 DEF CleanInv, SuccessAgrees
<1>6. /\ y.err = lastError' /\ y.status = status' /\ y.written = session'.running
  BY DEF DeviceAnswers, StatusAnswer
<1>7. ASSUME step = "COMMIT", AcceptableComes' PROVE Installed'
  <2>1. CASE AcceptableComes
    BY <1>3, <1>4, <1>7, <2>1 DEF CleanInv, SuccessAgrees
  <2>2. CASE Answers(f) /\ Acceptable(y)
    <3>1. f.op = "COMMIT" /\ f.seq \in Seqs /\ f.body = wanted.image /\ f.body \in CommitPayload
      BY <1>7, <2>2, CommitSends DEF Answers, SentBy, HostFrames
    <3>2. CommitSession(f.seq, f.body) \/ RepeatedFrame(CommitFrame(f.seq, f.body))
      BY <1>2, <3>1 DEF Handles
    <3>3. lastError' = "NONE"
      BY <1>6, <1>7, <2>2 DEF Acceptable
    <3>4. CASE UNCHANGED <<session, acked>> /\ FrameIsRetry(CommitFrame(f.seq, f.body))
      <4>1. /\ session.state = "DONE" /\ acked # None /\ acked.req = session.req
            /\ f.body = session.req.image
        BY <3>4 DEF FrameIsRetry, CommitFrame, Frame, Base, DeviceInv, RetryStillTrue
      <4>2. QED
        BY <1>1, <3>1, <3>4, <4>1 DEF Installed
    <3>5. CASE /\ f.body = session.req.image /\ session'.state = "DONE"
               /\ acked' # None /\ acked'.req = session.req
      BY <1>1, <3>1, <3>5 DEF Installed
    <3>6. QED
      BY <1>1, <1>2, <3>1, <3>2, <3>3, <3>4, <3>5, CommitEffect
  <2>3. QED
    BY <1>7, <2>1, <2>2
<1>8. ASSUME step = "COMMIT_RECOVER", AcceptableComes' PROVE Installed'
  <2>1. CASE AcceptableComes
    BY <1>3, <1>4, <1>8, <2>1 DEF CleanInv, SuccessAgrees
  <2>2. CASE Answers(f) /\ Acceptable(y)
    <3>1. status' = "COMMITTED" /\ session'.running = wanted.image
      BY <1>6, <1>8, <2>2 DEF Acceptable
    <3>2. session'.state = "DONE" /\ acked' # None /\ acked'.req = session'.req
      BY <3>1 DEF DeviceInv, StatusTruthful
    <3>3. session'.req.image = wanted.image
      BY <3>1, <3>2 DEF DeviceInv, DoneIsWhole
    <3>4. QED
      BY <1>1, <3>2, <3>3 DEF Installed
  <2>3. QED
    BY <1>8, <2>1, <2>2
<1>9. QED
  BY <1>1, <1>5, <1>7, <1>8 DEF SuccessAgrees

\* So a device that takes a frame and answers it keeps the whole.
LEMMA DeviceAnswersKeeps ==
  ASSUME Base, DeviceInv', CleanInv, NEW f, NEW y, DeviceAnswers(f, y)
  PROVE  CleanInv'
<1>1. /\ toDevice # <<>> /\ f = Head(toDevice) /\ f \in HostFrames
      /\ toDevice' = Tail(toDevice) /\ toHost' = Append(toHost, y)
      /\ UNCHANGED <<step, index, wanted, reopened, verdict>>
      /\ 1 \in 1 .. Len(toDevice) /\ f = toDevice[1]
  BY LenProperties, EmptySeq, HeadTailProperties DEF DeviceAnswers, Base, Lines, host
<1>2. y \in HostAnswers /\ y.op = f.op /\ y.seq = f.seq
  <2>1. TypeOK'
    BY DEF DeviceInv
  <2>2. StatusAnswer(f) \in HostAnswers
    BY <1>1, <2>1, StatusAnswerTyped
  <2>3. QED
    BY <2>2 DEF DeviceAnswers, StatusAnswer
<1>3. /\ Stage' = Stage /\ (\A x : Answers(x)' <=> Answers(x))
      /\ \A x : Acceptable(x)' <=> Acceptable(x)
  BY <1>1, SameCommand
<1>4. SuffixOf(toDevice', toDevice)
  BY <1>1, SuffixesAre DEF Base, Lines
<1>5. \A j \in 1 .. Len(toDevice') : \E k \in 1 .. Len(toDevice) : toDevice'[j] = toDevice[k]
  BY <1>4, SuffixElements DEF Base, Lines
<1>6. AllAnswer => AllAnswer'
  BY <1>3, <1>5 DEF AllAnswer
<1>7. BeginsGone'
  BY <1>1, <1>5 DEF CleanInv, BeginsGone, NoneOf
<1>8. AcceptableComes' => AcceptableComes \/ (Answers(f) /\ Acceptable(y))
  <2>1. /\ Len(toHost) \in Nat /\ Len(toHost') = Len(toHost) + 1
        /\ toHost'[Len(toHost) + 1] = y
        /\ \A i \in 1 .. Len(toHost) : toHost'[i] = toHost[i]
    BY <1>1, <1>2, LenProperties, AppendProperties DEF Base, Lines
  <2>2. ASSUME NEW i \in 1 .. Len(toHost'), Answers(toHost'[i]), Acceptable(toHost'[i])
        PROVE  AcceptableComes \/ (Answers(f) /\ Acceptable(y))
    <3>1. CASE i = Len(toHost) + 1
      BY <1>2, <2>1, <2>2, <3>1 DEF Answers
    <3>2. CASE i \in 1 .. Len(toHost)
      BY <2>1, <2>2, <3>2 DEF AcceptableComes
    <3>3. QED
      BY <2>1, <3>1, <3>2
  <2>3. QED
    BY <1>3, <2>2 DEF AcceptableComes
<1>9. step # "idle" => SentBy(wanted, f) /\ StageOf(wanted, f) <= Stage
  BY <1>1 DEF CleanInv, RunLine, Line
<1>10. RunLine'
  <2> SUFFICES ASSUME step # "idle" PROVE Line(wanted, toHost', toDevice', Stage)
    BY <1>1, <1>3 DEF RunLine
  <2>1. Line(wanted, toHost, toDevice, Stage) /\ wanted \in Requests /\ Stage \in Nat
    BY CurrentOfRun DEF CleanInv, RunLine, Base, HostInv, Place
  <2>2. QED
    BY <1>1, <1>2, <2>1, LineAnswers DEF Base, Lines
<1>11. ChunkAgrees'
  <2>1. CASE step = "DATA"
    BY <1>1, <1>6, <1>8, <1>9, <2>1, AnswerKeepsChunk
  <2>2. CASE step # "DATA"
    BY <1>1, <2>2 DEF ChunkAgrees
  <2>3. QED
    BY <2>1, <2>2
<1>12. SessionAgrees'
  <2>1. CASE step # "idle"
    BY <1>1, <1>8, <1>9, <2>1, AnswerKeepsSession
  <2>2. CASE step = "idle"
    BY <1>1, <2>2 DEF SessionAgrees
  <2>3. QED
    BY <2>1, <2>2
<1>13. SuccessAgrees'
  BY <1>1, <1>8, <1>9, AnswerKeepsSuccess
<1>14. QED
  BY <1>7, <1>10, <1>11, <1>12, <1>13 DEF CleanInv

\* A device that is reset, or starts the application, and a line that loses
\* something, keep it.
LEMMA DeviceHandlesKeeps ==
  ASSUME Base, DeviceInv', CleanInv, DeviceHandles
  PROVE  CleanInv'
<1>1. /\ toDevice # <<>> /\ Handles(Head(toDevice)) /\ Head(toDevice) \in HostFrames
      /\ Len(toDevice) \in Nat /\ 1 \in 1 .. Len(toDevice) /\ Head(toDevice) = toDevice[1]
      /\ TypeOK
  BY LenProperties, EmptySeq, HeadTailProperties DEF DeviceHandles, Base, Lines, DeviceInv
<1>2. CASE mode' = "auto"
  <2>1. /\ UNCHANGED <<step, index, wanted, reopened, verdict>>
        /\ toDevice' = <<>> /\ toHost' \in {<<>>, toHost}
    BY <1>2 DEF DeviceHandles, Resets
  <2>2. SuffixOf(toHost', toHost) /\ SuffixOf(toDevice', toDevice)
    BY <2>1, SuffixesAre DEF Base, Lines
  <2>3. session' = NoSession
    BY <1>1, <1>2, HandlesEffect
  <2>4. Installed /\ NoneOf("BEGIN") => Installed'
    <3>1. NoneOf("BEGIN") => Head(toDevice).op # "BEGIN"
      BY <1>1 DEF NoneOf
    <3>2. QED
      BY <1>1, <2>1, <2>3, <3>1, HandlesEffect DEF Installed, NoSession
  <2>5. QED
    BY <2>1, <2>2, <2>3, <2>4, ShrinkKeeps
<1>3. CASE mode' # "auto"
  <2>1. DeviceAnswers(Head(toDevice), StatusAnswer(Head(toDevice)))
    BY <1>3 DEF DeviceHandles, DeviceAnswers
  <2>2. PICK f : f = Head(toDevice)
    OBVIOUS
  <2>3. PICK y : y = StatusAnswer(Head(toDevice))
    OBVIOUS
  <2>4. QED
    BY <2>1, <2>2, <2>3, DeviceAnswersKeeps
<1>4. QED
  BY <1>2, <1>3

LEMMA RestKeeps ==
  ASSUME Base, CleanInv,
         \/ AppIgnores \/ DevicePolls \/ AutoBootEnds \/ DeviceResets \/ DevicePowerCycles
         \/ FrameLost \/ AnswerLost \/ UNCHANGED linkVars
  PROVE  CleanInv'
<1>1. /\ SuffixOf(toHost, toHost) /\ SuffixOf(<<>>, toHost)
      /\ toHost # <<>> => SuffixOf(Tail(toHost), toHost)
      /\ SuffixOf(toDevice, toDevice) /\ SuffixOf(<<>>, toDevice)
      /\ toDevice # <<>> => SuffixOf(Tail(toDevice), toDevice)
  BY SuffixesAre DEF Base, Lines
<1>2. /\ toHost' \in {toHost, <<>>} \/ (toHost # <<>> /\ toHost' = Tail(toHost))
      /\ toDevice' \in {toDevice, <<>>} \/ (toDevice # <<>> /\ toDevice' = Tail(toDevice))
      /\ UNCHANGED <<step, index, wanted, reopened, verdict>>
  BY DEF AppIgnores, DevicePolls, AutoBootEnds, DeviceResets, DevicePowerCycles, FrameLost,
         AnswerLost, Resets, host, linkVars
<1>3. acked' = acked /\ (session' = NoSession \/ UNCHANGED <<session, retry>>)
  <2>1. CASE DevicePolls \/ AutoBootEnds \/ DeviceResets \/ DevicePowerCycles
    BY <2>1 DEF DevicePolls, AutoBootEnds, DeviceResets, DevicePowerCycles, Poll, TryBootApp,
                AppResets, PowerCycle, PowerUp
  <2>2. CASE AppIgnores \/ FrameLost \/ AnswerLost \/ UNCHANGED linkVars
    BY <2>2 DEF AppIgnores, FrameLost, AnswerLost, linkVars, vars
  <2>3. QED
    BY <2>1, <2>2
<1>4. Installed => Installed'
  BY <1>2, <1>3 DEF Installed, NoSession
<1>5. QED
  BY <1>1, <1>2, <1>3, <1>4, ShrinkKeeps

LEMMA NextClean ==
  Base /\ Base' /\ CleanInv /\ [LinkNext]_linkVars /\ [CleanStart]_linkVars => CleanInv'
<1> SUFFICES ASSUME Base, Base', CleanInv, [LinkNext]_linkVars, [CleanStart]_linkVars
             PROVE  CleanInv'
  OBVIOUS
<1>1. CleanStart
  BY DEF CleanStart, linkVars, host
<1>2. HostInv' /\ DeviceInv' /\ SuffixOf(toHost, toHost)
      /\ (toHost # <<>> => SuffixOf(Tail(toHost), toHost))
  BY SuffixesAre DEF Base, Lines
<1>3. \A rest, t : t \in Suffixes(rest) /\ rest = toHost => SuffixOf(t, toHost)
  BY SuffixesAre DEF Base, Lines
<1>4. \A rest, t :
        t \in Suffixes(rest) /\ toHost # <<>> /\ rest = Tail(toHost) => SuffixOf(t, toHost)
  BY SuffixesAre DEF Base, Lines
<1>5. ASSUME NEW rest, Unavailable(rest) \/ NoUsableAnswer(rest),
             rest = toHost \/ (toHost # <<>> /\ rest = Tail(toHost))
      PROVE  SuffixOf(toHost', toHost)
  <2>1. toHost' = rest \/ toHost' \in Suffixes(rest)
    BY <1>5 DEF Unavailable, NoUsableAnswer, Reconnects
  <2>2. QED
    BY <1>2, <1>3, <1>4, <1>5, <2>1
<1>6. CASE \E req \in Requests : HostStarts(req)
  BY <1>1, <1>6, HostStartsKeeps
<1>7. CASE HostSends
  BY <1>7, HostSendsKeeps
<1>8. CASE HostReads
  BY <1>2, <1>8, HostReadsKeeps
<1>9. CASE HostTimesOut
  <2>1. step # "idle" /\ UNCHANGED <<vars, toDevice>> /\ NoUsableAnswer(toHost)
    BY <1>9 DEF HostTimesOut, Base, HostInv, Place
  <2>2. QED
    BY <1>2, <1>5, <2>1, NoUsableAnswerKeeps
<1>10. CASE AnswerDamaged
  <2>1. /\ step # "idle" /\ UNCHANGED <<vars, toDevice>>
        /\ toHost # <<>> /\ NoUsableAnswer(Tail(toHost))
    BY <1>10 DEF AnswerDamaged, Base, HostInv, Place
  <2>2. QED
    BY <1>2, <1>5, <2>1, NoUsableAnswerKeeps
<1>11. CASE HostPortFails
  <2>1. step # "idle" /\ UNCHANGED <<vars, toDevice>> /\ Unavailable(toHost)
    BY <1>11 DEF HostPortFails
  <2>2. QED
    BY <1>2, <1>5, <2>1, UnavailableKeeps
<1>12. CASE HostKilled
  BY <1>12, FinishFailedKeeps DEF HostKilled
<1>13. CASE DeviceHandles
  BY <1>2, <1>13, DeviceHandlesKeeps
<1>14. CASE AppIgnores \/ DevicePolls \/ AutoBootEnds \/ DeviceResets \/ DevicePowerCycles
            \/ FrameLost \/ AnswerLost \/ UNCHANGED linkVars
  BY <1>14, RestKeeps
<1>15. QED
  BY <1>6, <1>7, <1>8, <1>9, <1>10, <1>11, <1>12, <1>13, <1>14 DEF LinkNext

LEMMA BaseHolds == LinkSpec => []Base
  BY LinesHold, DeviceInvHolds, PTL DEF Base

LEMMA CleanInvHolds == LinkSpec /\ [][CleanStart]_linkVars => []CleanInv
<1>1. LinkInit => CleanInv
  BY DEF LinkInit, CleanInv, RunLine, BeginsGone, ChunkAgrees, SessionAgrees, SuccessAgrees
<1>2. LinkSpec => LinkInit /\ [][LinkNext]_linkVars
  BY PTL DEF LinkSpec
<1>3. QED
  BY <1>1, <1>2, NextClean, BaseHolds, PTL

\* Host and device agree on how far the update is, whatever is lost, damaged,
\* late or sent twice, and whatever the device's power does, for every image,
\* number of tries and number of runs, as long as each run of the tool starts
\* on an empty line (main drops what is in its input buffer before it sends).
THEOREM CleanRunsAgree == LinkSpec /\ [][CleanStart]_linkVars => []HostAndDeviceAgree
<1>1. Base /\ CleanInv => HostAndDeviceAgree
  <2> SUFFICES ASSUME Base, CleanInv, step \in {"DATA", "COMMIT"}, session.state = "OPEN"
               PROVE  /\ reopened \/ session.req = wanted
                      /\ Len(session.running) \in
                           IF step = "DATA" THEN {index, index + 1} ELSE {Chunks}
                      /\ step = "DATA" /\ Len(session.running) = index + 1 =>
                           FrameIsRetry(DataFrame(Sequence, Body))
    BY DEF HostAndDeviceAgree
  <2>1. index \in Nat
    BY DEF Base, HostInv, Place
  <2>2. CASE step = "DATA"
    BY <2>1, <2>2 DEF CleanInv, ChunkAgrees, Held
  <2>3. CASE step = "COMMIT"
    BY <2>3 DEF CleanInv, SessionAgrees, Held, Chunks
  <2>4. QED
    BY <2>2, <2>3
<1>2. QED
  BY <1>1, BaseHolds, CleanInvHolds, PTL

-----------------------------------------------------------------------------
(* The tool and the device implement the abstract installation. *)

\* What the tool can do to the abstract state.
LEMMA HostStepsService ==
  ASSUME \/ HostSends \/ HostReads \/ HostTimesOut \/ HostPortFails \/ HostKilled
         \/ AnswerDamaged
  PROVE  /\ UNCHANGED <<vars, wanted>>
         /\ verdict' = verdict \/ verdict' \in {"ok", "failed"}
<1>1. Fails => UNCHANGED wanted /\ (verdict' = verdict \/ verdict' \in {"ok", "failed"})
  BY DEF Fails, Finish, GoTo
<1>2. Advances => UNCHANGED <<wanted, verdict>>
  BY DEF Advances, GoTo
<1>3. \A a : Concludes(a) =>
               UNCHANGED wanted /\ (verdict' = verdict \/ verdict' \in {"ok", "failed"})
  BY <1>1, <1>2 DEF Concludes, Finish
<1>4. \A r : Unavailable(r) =>
               UNCHANGED wanted /\ (verdict' = verdict \/ verdict' \in {"ok", "failed"})
  BY <1>1 DEF Unavailable, Reconnects, Finish
<1>5. \A r : NoUsableAnswer(r) =>
               UNCHANGED wanted /\ (verdict' = verdict \/ verdict' \in {"ok", "failed"})
  BY <1>1, <1>4 DEF NoUsableAnswer
<1>6. CASE HostReads
  BY <1>3, <1>6 DEF HostReads
<1>7. CASE HostTimesOut \/ AnswerDamaged \/ HostPortFails
  BY <1>4, <1>5, <1>7 DEF HostTimesOut, AnswerDamaged, HostPortFails
<1>8. CASE HostSends \/ HostKilled
  BY <1>8 DEF HostSends, HostKilled, Finish
<1>9. QED
  BY <1>6, <1>7, <1>8

\* Every step is one of the abstract installation's, or leaves it alone.
LEMMA LinkNextService ==
  Base /\ Base' /\ CleanInv /\ CleanInv' /\ [LinkNext]_linkVars
    => [Service!Next]_Service!vars
<1> SUFFICES ASSUME Base, Base', CleanInv, CleanInv', [LinkNext]_linkVars
             PROVE  [Service!Next]_Service!vars
  OBVIOUS
<1>1. /\ wanted \in Requests \cup {None} /\ (step # "idle" => wanted \in Requests)
      /\ step = "idle" => verdict # "running"
      /\ step # "idle" => verdict = "running"
      /\ acked' \in Meta \cup {None}
      /\ None \notin Requests
  BY SecurityAssumption DEF Base, HostInv, Place, DeviceInv, TypeOK
<1>2. verdict = "ok" => Installed
  BY DEF CleanInv, SuccessAgrees
<1>3. verdict' = "ok" => Installed'
  BY DEF CleanInv, SuccessAgrees
<1>4. ASSUME NEW req \in Requests, HostStarts(req) PROVE Service!Next
  <2>1. step = "idle" /\ wanted' = req /\ verdict' = "running" /\ acked' = acked /\ req # None
    BY <1>1, <1>4 DEF HostStarts, vars
  <2>2. InstalledImage' = InstalledImage
    BY <2>1 DEF InstalledImage
  <2>3. Service!Ask(req.image)
    BY <1>1, <2>1, <2>2 DEF Service!Ask
  <2>4. req.image \in {r.image : r \in Requests}
    OBVIOUS
  <2>5. QED
    BY <2>3, <2>4 DEF Service!Next
<1>5. CASE HostSends \/ HostReads \/ HostTimesOut \/ HostPortFails \/ HostKilled \/ AnswerDamaged
  <2>1. UNCHANGED <<wanted, acked>> /\ (verdict' = verdict \/ verdict' \in {"ok", "failed"})
    BY <1>5, HostStepsService DEF vars
  <2>2. InstalledImage' = InstalledImage
    BY <2>1 DEF InstalledImage
  <2>3. step # "idle" /\ verdict = "running" /\ wanted \in Requests /\ wanted # None
    BY <1>1, <1>5 DEF HostSends, HostReads, HostTimesOut, HostPortFails, HostKilled,
                      AnswerDamaged, Base, HostInv, Place
  <2>4. CASE verdict' = verdict
    BY <2>1, <2>2, <2>4 DEF Service!vars
  <2>5. CASE verdict' = "failed"
    BY <2>1, <2>2, <2>3, <2>5 DEF Service!GiveUp, Service!Next
  <2>6. CASE verdict' = "ok"
    <3>1. InstalledImage = wanted.image
      BY <1>3, <2>1, <2>6 DEF Installed, InstalledImage
    <3>2. Service!Succeed
      BY <2>1, <2>2, <2>3, <2>6, <3>1 DEF Service!Succeed
    <3>3. QED
      BY <3>2 DEF Service!Next
  <2>7. QED
    BY <2>1, <2>4, <2>5, <2>6
<1>6. CASE DeviceHandles \/ AppIgnores \/ DevicePolls \/ AutoBootEnds \/ DeviceResets
           \/ DevicePowerCycles \/ FrameLost \/ AnswerLost \/ UNCHANGED linkVars
  <2>1. UNCHANGED <<wanted, verdict>>
    BY <1>6 DEF DeviceHandles, AppIgnores, DevicePolls, AutoBootEnds, DeviceResets,
                DevicePowerCycles, FrameLost, AnswerLost, Resets, host, linkVars
  <2>2. CASE verdict = "ok"
    <3>1. InstalledImage = wanted.image /\ InstalledImage' = wanted.image
      BY <1>2, <1>3, <2>1, <2>2 DEF Installed, InstalledImage
    <3>2. QED
      BY <2>1, <3>1 DEF Service!vars
  <2>3. CASE verdict # "ok" /\ acked' = None
    <3>1. InstalledImage' = None
      BY <2>3 DEF InstalledImage
    <3>2. Service!Wipe
      BY <2>1, <2>3, <3>1 DEF Service!Wipe
    <3>3. QED
      BY <3>2 DEF Service!Next
  <2>4. CASE verdict # "ok" /\ acked' # None
    <3>1. InstalledImage' = acked'.req.image /\ acked'.req \in Requests
      BY <1>1, <2>4 DEF InstalledImage, Meta
    <3>2. acked'.req.image \in {r.image : r \in Requests}
      BY <3>1
    <3>3. Service!Install(acked'.req.image)
      BY <2>1, <2>4, <3>1 DEF Service!Install
    <3>4. QED
      BY <3>2, <3>3 DEF Service!Next
  <2>5. QED
    BY <2>2, <2>3, <2>4
<1>7. QED
  BY <1>4, <1>5, <1>6 DEF LinkNext

\* The tool reports success only when the device has committed the image it was
\* run for and would start it, and nothing touches that image until the tool
\* runs again: the tool, the line and the bootloader implement Installation,
\* whatever the line and the power do, as long as each run of the tool starts
\* on an empty line.
THEOREM SuccessIsTrue == LinkSpec /\ [][CleanStart]_linkVars => ImplementsInstallation
<1>1. LinkInit => Service!Init
  BY DEF LinkInit, Init, Service!Init, InstalledImage
<1>2. LinkSpec => LinkInit /\ [][LinkNext]_linkVars
  BY PTL DEF LinkSpec
<1>3. QED
  BY <1>1, <1>2, LinkNextService, BaseHolds, CleanInvHolds, PTL
     DEF ImplementsInstallation, Service!Spec

==============================================================================
