----------------------------- MODULE Bootloader -----------------------------
(***************************************************************************)
(* bootloader.c: the update session.  One action per command, and one per  *)
(* step of the main loop and of the world around it: the auto-boot check,  *)
(* the deferred jump or reset, a power cycle, the application's reset.     *)
(*                                                                         *)
(* A command runs to its answer in one step; what can go wrong inside it,  *)
(* a failed flash operation or a loss of power between or during two flash *)
(* operations, is the choice of one of its flash outcomes (BootFlash).     *)
(* RAM is lost when power goes or the MCU resets.  Framing and transport   *)
(* are not in this module: a frame arrives whole.                          *)
(***************************************************************************)
EXTENDS BootSecurity

CONSTANTS
  Seqs,              \* the sequence numbers of frames
  Shapes,            \* the lengths DATA payloads have (see DataPayload)
  LegacyFloors,      \* rollback floors an older layout may have left (None: none)
  PreserveOnClear,   \* AFFINE_BOOT_PRESERVE_SECURITY_STATE_ON_CLEAR_METADATA
  MaxInterruptions   \* bound: flash operations that fail or are cut short

ASSUME BootloaderAssumption ==
  /\ LegacyFloors \subseteq Nat \cup {None}
  /\ Shapes \subseteq {"NONE", "RANGE", "ALIGNMENT"}
  /\ PreserveOnClear \in BOOLEAN
  /\ MaxInterruptions \in Nat

VARIABLES
  session,        \* ctx->session
  security,       \* g_security
  status,         \* ctx->status
  lastError,      \* ctx->last_error
  retry,          \* ctx->retry_*: the last DATA or COMMIT that ran and succeeded
  pending,        \* ctx->pending_action, with the metadata BOOT_APP verified
  bootRequested,  \* ctx->boot_requested
  mode,           \* "auto": no frame seen yet, auto-boot window open;
                  \* "bl": main loop; "app": jumped to the application
  app,            \* flash: the application slot
  copies,         \* flash: the metadata copies
  launched,       \* history: the metadata verified for the jump to the application
  acked,          \* history: metadata of the last acknowledged COMMIT that no
                  \* later erase has touched
  interruptions   \* history: flash operations that failed or were cut short

flash == <<app, copies>>
vars == <<session, security, status, lastError, retry, pending, bootRequested, mode,
          app, copies, launched, acked, interruptions>>

ReadOnlyOps == {"HELLO", "GET_STATUS", "GET_DIAG", "GET_METADATA", "GET_DEVICE_INFO",
                "VERIFY_IMAGE"}

\* The commands refused for the length of their payload (DATA: see DataPayload),
\* and the opcodes the bootloader does not know.
Refusable == {"BEGIN", "SET_MANIFEST", "COMMIT", "CLEAR_METADATA", "REBOOT", "VERIFY_IMAGE",
              "GET_METADATA", "GET_DEVICE_INFO", "UNKNOWN"}

Error == {"NONE", "BAD_STATE", "BAD_TARGET", "IMAGE_TOO_LARGE", "UNSUPPORTED", "SIGNATURE",
          "ROLLBACK", "UPGRADE_PATH", "MANIFEST", "RANGE", "ALIGNMENT", "FLASH",
          "IMAGE_CRC", "NO_VALID_APP"}

\* A session: running is what was written (written_size chunks of it, whose
\* CRC is running_crc32).
NoSession == [state |-> "IDLE", req |-> None, running |-> <<>>, erased |-> FALSE]
OpenSession(req) == [state |-> "OPEN", req |-> req, running |-> <<>>, erased |-> FALSE]

\* A frame, as bootloader_frame_is_retry compares it: opcode, sequence, payload
\* (by its CRC).  Only a DATA or COMMIT is ever remembered, so of the other
\* commands the opcode is enough.
Frame(op, seq, payload) == [op |-> op, seq |-> seq, payload |-> payload]
DataFrame(seq, d) == Frame("DATA", seq, d)
CommitFrame(seq, image) == Frame("COMMIT", seq, image)
Command(op) == Frame(op, 0, None)
NoFrame == Command("NONE")

NoPending == [action |-> "NONE", meta |-> None]

\* The DATA payloads hosts send: a chunk for an offset; shape is the error
\* its length earns, "NONE" for a whole, aligned chunk.
DataPayload == [offset: 0 .. SlotChunks, chunk: Chunk, shape: Shapes]

\* The COMMIT payloads: the size and CRC of some image.
CommitPayload == {req.image : req \in Requests}

-----------------------------------------------------------------------------
(* Frames and answers *)

\* bootloader_frame_is_retry
FrameIsRetry(f) ==
  /\ retry.op = f.op
  /\ retry.seq = f.seq
  /\ retry.payload = f.payload

Fresh(f) == mode # "app" /\ ~FrameIsRetry(f)

\* Mutation: only a failed command forgets the last DATA or COMMIT.
NoteFrameRunForgetful(f, err) ==
  IF f.op \in {"DATA", "COMMIT"} /\ err = "NONE" THEN f
    ELSE IF err = "NONE" THEN retry ELSE NoFrame

\* Mutation: no frame is remembered.
NoteFrameRunNever(f, err) == NoFrame

\* bootloader_note_frame_run
NoteFrameRun(f, err) ==
  IF f.op \in {"DATA", "COMMIT"} /\ err = "NONE" THEN f
    ELSE IF f.op \in ReadOnlyOps THEN retry ELSE NoFrame

\* The end of bootloader_handle_frame, then note_frame_run.
Answer(f, err, okStatus) ==
  /\ lastError' = err
  /\ status' = IF err = "NONE" THEN okStatus ELSE "ERROR"
  /\ retry' = NoteFrameRun(f, err)
  /\ mode' = "bl"
  /\ UNCHANGED <<bootRequested, launched>>

\* bootloader_init after a reset; the request word is read and cleared here.
PowerUp(requested) ==
  /\ session' = NoSession
  /\ security' = NoSecurity
  /\ status' = "READY"
  /\ lastError' = "NONE"
  /\ retry' = NoFrame
  /\ pending' = NoPending
  /\ bootRequested' = requested
  /\ mode' = "auto"
  /\ launched' = None

Spend(res) ==
  /\ res # "ok" => interruptions < MaxInterruptions
  /\ interruptions' = IF res = "ok" THEN interruptions ELSE interruptions + 1

-----------------------------------------------------------------------------
(* BEGIN, SET_MANIFEST *)

EffectiveRollbackFloor ==
  IF SelectFloor(copies) # None THEN SelectFloor(copies)
  ELSE IF SelectMeta(copies) # None THEN SelectMeta(copies).req.secver
  ELSE None

CurrentFeatureVersion ==
  IF SelectMeta(copies) # None THEN SelectMeta(copies).req.version ELSE None

BeginError(req) ==
  IF ~req.target THEN "BAD_TARGET"
  ELSE IF Len(req.image) = 0 \/ Len(req.image) > SlotChunks THEN "IMAGE_TOO_LARGE"
  ELSE SecurityBeginError(req, EffectiveRollbackFloor, CurrentFeatureVersion)

\* Mutation: a scheduled jump outlives the erase of its target.
EraseKeepingPending(f, s, k) ==
  \E o \in EraseOutcomes(app, Len(s.req.image)) :
    /\ app' = o.app
    /\ acked' = None
    /\ Spend(o.res)
    /\ UNCHANGED copies
    /\ o.res = "ok"
    /\ session' = [s EXCEPT !.erased = TRUE]
    /\ security' = k
    /\ UNCHANGED pending
    /\ Answer(f, "NONE", "RECEIVING")

\* bootloader_erase_session_app for a session s with security context k.
EraseSessionApp(f, s, k) ==
  \E o \in EraseOutcomes(app, Len(s.req.image)) :
    /\ app' = o.app
    /\ acked' = None
    /\ Spend(o.res)
    /\ UNCHANGED copies
    /\ \/ /\ o.res = "ok"
          /\ session' = [s EXCEPT !.erased = TRUE]
          /\ security' = k
          /\ pending' = NoPending
          /\ Answer(f, "NONE", "RECEIVING")
       \/ /\ o.res = "fault"
          /\ session' = NoSession
          /\ security' = NoSecurity
          /\ pending' = NoPending
          /\ Answer(f, "FLASH", status)
       \/ /\ o.res = "cut"
          /\ PowerUp(FALSE)

\* Mutation: the security context is reset before the request is checked.
BeginRejectedAfterReset(req) ==
  /\ BeginError(req) # "NONE"
  /\ security' = NoSecurity
  /\ Answer(Command("BEGIN"), BeginError(req), status)
  /\ UNCHANGED <<session, pending, flash, acked, interruptions>>

BeginRejected(req) ==
  /\ BeginError(req) # "NONE"
  /\ Answer(Command("BEGIN"), BeginError(req), status)
  /\ UNCHANGED <<session, security, pending, flash, acked, interruptions>>

\* Mutation: a signed BEGIN erases the application at once.
BeginSignedErasing(req) ==
  /\ BeginError(req) = "NONE"
  /\ "sig" \in req.flags
  /\ EraseSessionApp(Command("BEGIN"), OpenSession(req), NewSecurity(req))

BeginSigned(req) ==
  /\ BeginError(req) = "NONE"
  /\ "sig" \in req.flags
  /\ session' = OpenSession(req)
  /\ security' = NewSecurity(req)
  /\ Answer(Command("BEGIN"), "NONE", "RECEIVING")
  /\ UNCHANGED <<pending, flash, acked, interruptions>>

BeginUnsigned(req) ==
  /\ BeginError(req) = "NONE"
  /\ "sig" \notin req.flags
  /\ EraseSessionApp(Command("BEGIN"), OpenSession(req), NewSecurity(req))

BeginSession(req) ==
  /\ mode # "app"
  /\ \/ BeginRejected(req)
     \/ BeginSigned(req)
     \/ BeginUnsigned(req)

ManifestError(m) ==
  IF session.state # "OPEN" THEN "BAD_STATE" ELSE SecurityManifestError(security, m)

\* A manifest refused, or the accepted one repeated.
SetManifestOnly(m) ==
  /\ ManifestError(m) # "NONE" \/ session.erased
  /\ security' = IF ManifestError(m) = "NONE" THEN WithManifest(security, m) ELSE security
  /\ Answer(Command("SET_MANIFEST"), ManifestError(m), status)
  /\ UNCHANGED <<session, pending, flash, acked, interruptions>>

\* Mutation: the erase goes ahead whatever the security session says of the
\* manifest.
SetManifestErasingFirst(m) ==
  /\ session.state = "OPEN"
  /\ ~session.erased
  /\ EraseSessionApp(Command("SET_MANIFEST"), session,
                     IF ManifestError(m) = "NONE" THEN WithManifest(security, m) ELSE security)

SetManifestErasing(m) ==
  /\ ManifestError(m) = "NONE"
  /\ ~session.erased
  /\ EraseSessionApp(Command("SET_MANIFEST"), session, WithManifest(security, m))

SetManifest(m) ==
  /\ mode # "app"
  /\ SetManifestOnly(m) \/ SetManifestErasing(m)

-----------------------------------------------------------------------------
(* DATA, COMMIT *)

\* Mutation: the room left is checked one chunk too late.
DataErrorOffByOne(d) ==
  IF session.state # "OPEN" THEN "BAD_STATE"
  ELSE IF d.offset # Len(session.running) \/ d.shape = "RANGE" THEN "RANGE"
  ELSE IF Len(session.running) > Len(session.req.image) THEN "RANGE"
  ELSE IF d.shape = "ALIGNMENT" THEN "ALIGNMENT"
  ELSE IF TransformError(security) # "NONE" THEN TransformError(security)
  ELSE IF ~session.erased THEN "BAD_STATE"
  ELSE "NONE"

DataError(d) ==
  IF session.state # "OPEN" THEN "BAD_STATE"
  ELSE IF d.offset # Len(session.running) \/ d.shape = "RANGE" THEN "RANGE"
  ELSE IF Len(session.running) >= Len(session.req.image) THEN "RANGE"
  ELSE IF d.shape = "ALIGNMENT" THEN "ALIGNMENT"
  ELSE IF TransformError(security) # "NONE" THEN TransformError(security)
  ELSE IF ~session.erased THEN "BAD_STATE"
  ELSE "NONE"

DataRejected(seq, d) ==
  /\ DataError(d) # "NONE"
  /\ Answer(DataFrame(seq, d), DataError(d), status)
  /\ UNCHANGED <<session, security, pending, flash, acked, interruptions>>

\* Mutation: a chunk is hashed before it is known to be written.
DataHashedFirst(seq, d) ==
  LET chunk == Plaintext(security, d.offset, d.chunk)
  IN /\ DataError(d) = "NONE"
     /\ security' = WithPlaintext(security, chunk)
     /\ \E o \in WriteOutcomes(app, d.offset, chunk) :
          /\ o.res \in {"ok", "fault"}
          /\ app' = o.app
          /\ Spend(o.res)
          /\ session' = IF o.res = "ok" THEN [session EXCEPT !.running = Append(@, chunk)]
                                       ELSE session
          /\ Answer(DataFrame(seq, d), IF o.res = "ok" THEN "NONE" ELSE "FLASH", status)
          /\ UNCHANGED <<copies, acked, pending>>

DataWritten(seq, d) ==
  LET chunk == Plaintext(security, d.offset, d.chunk)
  IN /\ DataError(d) = "NONE"
     /\ \E o \in WriteOutcomes(app, d.offset, chunk) :
          /\ app' = o.app
          /\ Spend(o.res)
          /\ UNCHANGED <<copies, acked>>
          /\ \/ /\ o.res = "ok"
                /\ session' = [session EXCEPT !.running = Append(@, chunk)]
                /\ security' = WithPlaintext(security, chunk)
                /\ Answer(DataFrame(seq, d), "NONE", status)
                /\ UNCHANGED pending
             \/ /\ o.res = "fault"
                /\ Answer(DataFrame(seq, d), "FLASH", status)
                /\ UNCHANGED <<session, security, pending>>
             \/ /\ o.res = "cut"
                /\ PowerUp(FALSE)

WriteData(seq, d) ==
  /\ Fresh(DataFrame(seq, d))
  /\ DataRejected(seq, d) \/ DataWritten(seq, d)

\* The checks of bootloader_commit_session before the hash is finalised; the
\* last is the one boot_security_finalize_metadata begins with.
CommitError(image) ==
  IF session.state # "OPEN" THEN "BAD_STATE"
  ELSE IF Len(image) # Len(session.req.image) THEN "RANGE"
  ELSE IF image # session.req.image THEN "IMAGE_CRC"
  ELSE IF Len(session.running) # Len(session.req.image) THEN "RANGE"
  ELSE IF session.running # session.req.image THEN "IMAGE_CRC"
  ELSE TransformError(security)

\* bootloader_verify_metadata_image, against the floor a candidate state
\* brings (None: no candidate, the one in flash counts).
VerifyError(meta, candidate) ==
  LET size == Len(meta.req.image)
      floor == IF candidate # None THEN candidate ELSE SelectFloor(copies)
  IN IF Reads(app[0]) \notin VectorOk THEN "NO_VALID_APP"
     ELSE IF HasEcc /\ HasTorn(app, size) THEN "FLASH"
     ELSE IF ~AppReads(app, meta.req.image) THEN "IMAGE_CRC"
     ELSE SecurityVerifyError(app, meta, floor)

\* The state COMMIT stores: the raised floor of a protected update, or None.
CandidateFloor(req) ==
  IF ~NeedsFloor(req.flags) THEN None
  ELSE IF SelectFloor(copies) # None /\ SelectFloor(copies) > req.secver
         THEN SelectFloor(copies)
         ELSE req.secver

\* Mutation: the raised floor is not the one stored.
FloorToStoreStale(req) == SelectFloor(copies)

\* Mutation: an unprotected update stores no state.
FloorToStoreDropped(req) == CandidateFloor(req)

FloorToStore(req) ==
  IF CandidateFloor(req) # None THEN CandidateFloor(req) ELSE SelectFloor(copies)

CommitRejected(seq, image) ==
  /\ CommitError(image) # "NONE"
  /\ Answer(CommitFrame(seq, image), CommitError(image), status)
  /\ UNCHANGED <<session, security, pending, flash, acked, interruptions>>

CommitFinalError ==
  IF FinalizeError(security) # "NONE" THEN FinalizeError(security)
  ELSE VerifyError(FinalMeta(security, session.req), CandidateFloor(session.req))

\* The digest or the read-back of the image is wrong: nothing is stored.
CommitRefused(seq, image) ==
  /\ CommitError(image) = "NONE"
  /\ CommitFinalError # "NONE"
  /\ security' = Finalized(security)
  /\ Answer(CommitFrame(seq, image), CommitFinalError, status)
  /\ UNCHANGED <<session, pending, flash, acked, interruptions>>

CommitStored(seq, image) ==
  LET meta == FinalMeta(security, session.req)
  IN /\ CommitError(image) = "NONE"
     /\ CommitFinalError = "NONE"
     /\ \E o \in StoreOutcomes(copies, meta, FloorToStore(session.req)) :
          /\ copies' = o.copies
          /\ Spend(o.res)
          /\ UNCHANGED app
          /\ \/ /\ o.res = "ok"
                /\ session' = [session EXCEPT !.state = "DONE"]
                /\ security' = Finalized(security)
                /\ acked' = meta
                /\ Answer(CommitFrame(seq, image), "NONE", "COMMITTED")
                /\ UNCHANGED pending
             \/ /\ o.res = "fault"
                /\ security' = Finalized(security)
                /\ Answer(CommitFrame(seq, image), "FLASH", status)
                /\ UNCHANGED <<session, pending, acked>>
             \/ /\ o.res = "cut"
                /\ PowerUp(FALSE)
                /\ UNCHANGED acked

CommitSession(seq, image) ==
  /\ Fresh(CommitFrame(seq, image))
  /\ \/ CommitRejected(seq, image)
     \/ CommitRefused(seq, image)
     \/ CommitStored(seq, image)

-----------------------------------------------------------------------------
(* The other commands *)

\* Mutation: ABORT leaves the status alone.
AbortQuietly ==
  /\ mode # "app"
  /\ session' = NoSession
  /\ security' = NoSecurity
  /\ pending' = NoPending
  /\ Answer(Command("ABORT"), "NONE", status)
  /\ UNCHANGED <<flash, acked, interruptions>>

Abort ==
  /\ mode # "app"
  /\ session' = NoSession
  /\ security' = NoSecurity
  /\ pending' = NoPending
  /\ Answer(Command("ABORT"), "NONE", "READY")
  /\ UNCHANGED <<flash, acked, interruptions>>

ClearRejected ==
  /\ session.state = "OPEN"
  /\ Answer(Command("CLEAR_METADATA"), "BAD_STATE", status)
  /\ UNCHANGED <<session, security, pending, flash, acked, interruptions>>

ClearErasing ==
  /\ session.state # "OPEN"
  /\ \E o \in ClearOutcomes(copies, IF PreserveOnClear THEN SelectFloor(copies) ELSE None) :
       /\ copies' = o.copies
       /\ acked' = None
       /\ Spend(o.res)
       /\ UNCHANGED app
       /\ \/ /\ o.res = "ok"
             /\ session' = NoSession
             /\ security' = NoSecurity
             /\ Answer(Command("CLEAR_METADATA"), "NONE", "READY")
             /\ UNCHANGED pending
          \/ /\ o.res = "fault"
             /\ Answer(Command("CLEAR_METADATA"), "FLASH", status)
             /\ UNCHANGED <<session, security, pending>>
          \/ /\ o.res = "cut"
             /\ PowerUp(FALSE)

ClearMetadata ==
  /\ mode # "app"
  /\ ClearRejected \/ ClearErasing

Reboot ==
  /\ mode # "app"
  /\ Answer(Command("REBOOT"), "NONE", status)
  /\ pending' = [action |-> "REBOOT", meta |-> None]
  /\ UNCHANGED <<session, security, flash, acked, interruptions>>

InstalledError ==
  IF SelectMeta(copies) = None THEN "NO_VALID_APP"
  ELSE VerifyError(SelectMeta(copies), None)

\* VERIFY_IMAGE answers with its own report; its status is READY or ERROR
\* whatever the session is doing.
VerifyImage ==
  /\ mode # "app"
  /\ Answer(Command("VERIFY_IMAGE"), InstalledError, "READY")
  /\ UNCHANGED <<session, security, pending, flash, acked, interruptions>>

BootApp ==
  /\ mode # "app"
  /\ \/ /\ InstalledError = "NONE"
        /\ pending' = [action |-> "BOOT_APP", meta |-> SelectMeta(copies)]
        /\ Answer(Command("BOOT_APP"), "NONE", status)
     \/ /\ InstalledError # "NONE"
        /\ Answer(Command("BOOT_APP"), "NO_VALID_APP", status)
        /\ UNCHANGED pending
  /\ UNCHANGED <<session, security, flash, acked, interruptions>>

\* A query answered from the state; only the auto-boot window notices it.
Query ==
  /\ mode = "auto"
  /\ mode' = "bl"
  /\ UNCHANGED <<session, security, status, lastError, retry, pending, bootRequested,
                 flash, launched, acked, interruptions>>

\* A command whose length is wrong, or an unknown one.
Malformed(op) ==
  /\ mode # "app"
  /\ Answer(Command(op), IF op = "UNKNOWN" THEN "UNSUPPORTED" ELSE "RANGE", status)
  /\ UNCHANGED <<session, security, pending, flash, acked, interruptions>>

\* An exact repeat of the last DATA or COMMIT that ran and succeeded is
\* answered and not run.
RepeatedFrame(f) ==
  /\ mode # "app"
  /\ FrameIsRetry(f)
  /\ lastError' = "NONE"
  /\ mode' = "bl"
  /\ UNCHANGED <<session, security, status, retry, pending, bootRequested, flash,
                 launched, acked, interruptions>>

-----------------------------------------------------------------------------
(* The main loop, resets *)

\* bootloader_poll once the deferred action is due.
Poll ==
  /\ mode # "app"
  /\ \/ /\ pending.action = "REBOOT"
        /\ PowerUp(FALSE)
     \/ /\ pending.action = "BOOT_APP"
        /\ mode' = "app"
        /\ launched' = pending.meta
        /\ pending' = NoPending
        /\ UNCHANGED <<session, security, status, lastError, retry, bootRequested>>
  /\ UNCHANGED <<flash, acked, interruptions>>

\* The auto-boot window ends with no frame: bootloader_try_boot_app.
TryBootApp ==
  /\ mode = "auto"
  /\ \/ /\ bootRequested
        /\ mode' = "bl"
        /\ UNCHANGED <<status, lastError, launched>>
     \/ /\ ~bootRequested
        /\ InstalledError # "NONE"
        /\ mode' = "bl"
        /\ lastError' = InstalledError
        /\ status' = "ERROR"
        /\ UNCHANGED launched
     \/ /\ ~bootRequested
        /\ InstalledError = "NONE"
        /\ mode' = "app"
        /\ launched' = SelectMeta(copies)
        /\ UNCHANGED <<status, lastError>>
  /\ UNCHANGED <<session, security, retry, pending, bootRequested, flash, acked,
                 interruptions>>

\* The application resets the MCU, asking for the bootloader or not.
AppResets(requested) ==
  /\ mode = "app"
  /\ PowerUp(requested)
  /\ UNCHANGED <<flash, acked, interruptions>>

PowerCycle ==
  /\ PowerUp(FALSE)
  /\ UNCHANGED <<flash, acked, interruptions>>

-----------------------------------------------------------------------------
Init ==
  /\ session = NoSession
  /\ security = NoSecurity
  /\ status = "READY"
  /\ lastError = "NONE"
  /\ retry = NoFrame
  /\ pending = NoPending
  /\ bootRequested = FALSE
  /\ mode = "auto"
  /\ app = [i \in Slots |-> Erased]
  /\ \E f \in LegacyFloors : copies = [c \in Copies |-> [EmptyCopy EXCEPT !.legacy = f]]
  /\ launched = None
  /\ acked = None
  /\ interruptions = 0

Next ==
  \/ \E req \in Requests : BeginSession(req)
  \/ \E m \in Manifests : SetManifest(m)
  \/ \E seq \in Seqs, d \in DataPayload : WriteData(seq, d)
  \/ \E seq \in Seqs, d \in DataPayload : RepeatedFrame(DataFrame(seq, d))
  \/ \E seq \in Seqs, image \in CommitPayload : CommitSession(seq, image)
  \/ \E seq \in Seqs, image \in CommitPayload : RepeatedFrame(CommitFrame(seq, image))
  \/ Abort
  \/ ClearMetadata
  \/ Reboot
  \/ VerifyImage
  \/ BootApp
  \/ \E op \in Refusable : Malformed(op)
  \/ Query
  \/ Poll
  \/ TryBootApp
  \/ \E requested \in BOOLEAN : AppResets(requested)
  \/ PowerCycle

Spec == Init /\ [][Next]_vars

-----------------------------------------------------------------------------
(* Properties *)

Copy == [meta: Meta \cup {None}, state: Nat \cup {None}, legacy: Nat \cup {None}]
Status == {"READY", "RECEIVING", "COMMITTED", "ERROR"}

\* Every variable has its type.  An answered command never leaves the status
\* at ERASING or VERIFYING (set while bootloader_erase_session_app,
\* bootloader_clear_metadata and bootloader_commit_session run), and a session
\* never holds more than the size BEGIN announced.
TypeOK ==
  /\ session \in [state: {"IDLE", "OPEN", "DONE"}, req: Requests \cup {None},
                  running: Seq(Chunk), erased: BOOLEAN]
  /\ session.state # "IDLE" =>
       /\ session.req \in Requests
       /\ Len(session.req.image) \in 1 .. SlotChunks
       /\ Len(session.running) <= Len(session.req.image)
  /\ security \in [active: BOOLEAN, required: BOOLEAN, valid: BOOLEAN,
                   begin: Requests \cup {None}, manifest: Manifests \cup {None},
                   hashed: Seq(Chunk), final: BOOLEAN]
  /\ status \in Status
  /\ lastError \in Error
  /\ retry.op \in {"NONE", "DATA", "COMMIT"}
  /\ pending.action \in {"NONE", "REBOOT", "BOOT_APP"}
  /\ pending.meta \in Meta \cup {None}
  /\ bootRequested \in BOOLEAN
  /\ mode \in {"auto", "bl", "app"}
  /\ app \in [Slots -> Cell]
  /\ copies \in [Copies -> Copy]
  /\ launched \in Meta \cup {None}
  /\ acked \in Meta \cup {None}
  /\ interruptions \in 0 .. MaxInterruptions

\* The session in ctx and the security context in g_security, two objects
\* that different calls set and reset, are about the same update: an open
\* session has an active context begun by the same request, which has hashed
\* exactly what was written; and the pages of a signed session are erased
\* only once a manifest for this very request has verified.
SessionMatchesSecurity ==
  session.state = "OPEN" =>
    /\ security.active
    /\ security.begin = session.req
    /\ security.required <=> "sig" \in session.req.flags
    /\ security.hashed = session.running
    /\ security.valid => security.manifest.req = session.req /\ security.manifest.signed
    /\ session.erased /\ security.required => security.valid

\* What bootloader_write_data counted as written is what flash holds (or reads
\* as torn), and what is still to be written is not old content.
FlashHoldsWritten ==
  session.state = "OPEN" /\ session.erased =>
    \A i \in 0 .. Len(session.req.image) - 1 :
      app[i] \in {Torn, IF i < Len(session.running) THEN session.running[i + 1] ELSE Erased}

\* An acknowledged COMMIT is bootable: until a later command erases the
\* application or the metadata, bootloader_try_boot_app after any reset, and
\* BOOT_APP at any time, select its metadata and find the image valid.
AckedBoots ==
  acked # None => SelectMeta(copies) = acked /\ VerifyError(acked, None) = "NONE"

\* Answering a repeated DATA or COMMIT without running it is right: the frame
\* bootloader_frame_is_retry would recognise is still the last thing that
\* happened to the session, and its effect is still there.
RetryStillTrue ==
  /\ retry.op = "DATA" =>
       /\ session.state = "OPEN"
       /\ Len(session.running) = retry.payload.offset + 1
       /\ session.running[Len(session.running)] =
            Plaintext(security, retry.payload.offset, retry.payload.chunk)
  /\ retry.op = "COMMIT" =>
       /\ session.state = "DONE"
       /\ acked # None
       /\ acked.req = session.req
       /\ retry.payload = session.req.image

Runnable(meta) ==
  /\ meta # None
  /\ Reads(app[0]) \in VectorOk
  /\ AppReads(app, meta.req.image)
  /\ RequireSigned => meta.signed

\* A jump lands in the image that was verified for it: nothing between the
\* BOOT_APP that checked it and the jump 100 ms later changes that image, and
\* under AFFINE_BOOT_REQUIRE_SIGNED_UPDATES it was signed.
JumpTargetVerified ==
  /\ pending.action = "BOOT_APP" => Runnable(pending.meta)
  /\ mode = "app" => Runnable(launched)

\* The status GET_STATUS reports is true: COMMITTED only while the session is
\* done and its image bootable, RECEIVING only while a session is open and, if
\* unsigned, its pages are erased.
StatusTruthful ==
  /\ status = "COMMITTED" =>
       session.state = "DONE" /\ acked # None /\ acked.req = session.req
  /\ status = "RECEIVING" =>
       session.state = "OPEN" /\ (session.erased \/ "sig" \in session.req.flags)

SessionComplete ==
  /\ session.state = "OPEN"
  /\ session.erased
  /\ session.running = session.req.image
  /\ session.req.image[1] \in VectorOk
  /\ ~HasTorn(app, Len(session.req.image))

\* BEGIN and SET_MANIFEST refuse early whatever COMMIT would refuse: once the
\* announced image is received and flash reads back, the first COMMIT is not
\* refused, whatever failed and was retried on the way.
CompleteSessionCommits ==
  SessionComplete /\ ~security.final => CommitFinalError = "NONE"

\* The comment at bootloader.c:1011 says of a DATA or COMMIT "A failed one runs
\* again: the retry may succeed": it may, also after a COMMIT that failed.
FailedCommitMaySucceed ==
  SessionComplete => CommitFinalError = "NONE"

\* boot_security_state_select_valid takes the first copy that reads valid:
\* that is the highest floor any copy still holds.
SelectedFloorIsHighest ==
  \A c \in Copies :
    \A f \in {copies[c].state, copies[c].legacy} \ {None} : f <= SelectFloor(copies)

FloorLowered ==
  /\ SelectFloor(copies) # None
  /\ \/ SelectFloor(copies') = None
     \/ SelectFloor(copies') < SelectFloor(copies)

FloorRedundant ==
  \A c \in Copies :
    IF copies[c].state # None THEN copies[c].state = SelectFloor(copies)
                              ELSE copies[c].legacy = SelectFloor(copies)

\* With two copies that both hold the rollback floor, no COMMIT lowers it,
\* wherever in bootloader_store_metadata a flash operation fails or the power
\* goes.
CommitKeepsRedundantFloor ==
  [][FloorLowered /\ FloorRedundant => ClearErasing]_vars

\* Without a failed or interrupted flash operation nothing lowers the rollback
\* floor, on a target with one metadata copy too.
FloorKeptUninterrupted ==
  [][interruptions' = interruptions => ~FloorLowered]_vars

\* README: "CLEAR_METADATA does not clear this state by default, so clearing
\* app metadata cannot reset the rollback floor."
ClearKeepsFloor ==
  [][ClearErasing => ~FloorLowered]_vars

\* README: CLEAR_METADATA leaves the device in bootloader mode; BOOT_APP jumps
\* "to the committed application if it validates".
JumpsToCommittedApp ==
  [][mode # "app" /\ mode' = "app" => SelectMeta(copies) # None]_vars

VerifiesFor(m, req) == m.signed /\ m.req = req

\* Where unsigned updates are refused, a chunk of the application changes only
\* in an open session, and only by two commands: SET_MANIFEST with a manifest
\* that verifies for this session, or DATA after one has (the comment in
\* bootloader_begin_session: "otherwise any host could wipe the application
\* with a BEGIN alone"; bootloader_set_manifest).  A forged manifest changes
\* nothing, nor does another BEGIN in a session whose manifest has verified.
NothingErasedUnsigned ==
  [][UnsignedRefused /\ app' # app =>
       /\ session.state = "OPEN"
       /\ \/ \E m \in Manifests : VerifiesFor(m, session.req) /\ SetManifest(m)
          \/ /\ security.valid /\ VerifiesFor(security.manifest, session.req)
             /\ \E seq \in Seqs, d \in DataPayload : WriteData(seq, d)]_vars

==============================================================================
