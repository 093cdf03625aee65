-------------------------- MODULE BootloaderProofs --------------------------
(***************************************************************************)
(* Theorems about Bootloader, for every slot size, page layout, number of  *)
(* metadata copies, set of requests and manifests, policy and number of    *)
(* failures: type correctness, and what can lower the rollback floor.      *)
(***************************************************************************)
EXTENDS Bootloader, SequenceTheorems, TLAPS

Result == {"ok"} \cup Stopped

-----------------------------------------------------------------------------
(* What flash work leaves is typed, however it ends. *)

\* Erasing leaves cells, and reports one of the three results.
LEMMA EraseTyped ==
  ASSUME NEW A \in [Slots -> Cell], NEW n \in 1 .. SlotChunks, NEW o \in EraseOutcomes(A, n)
  PROVE  o.app \in [Slots -> Cell] /\ o.res \in Result
  BY FlashAssumption DEF EraseOutcomes, Slots, Cell, Result, Stopped

\* Writing a chunk leaves cells.
LEMMA WriteTyped ==
  ASSUME NEW A \in [Slots -> Cell], NEW i \in Slots, NEW c \in Chunk,
         NEW o \in WriteOutcomes(A, i, c)
  PROVE  o.app \in [Slots -> Cell] /\ o.res \in Result
  BY DEF WriteOutcomes, Cell, Result, Stopped

\* What is left of a copy is a copy.
LEMMA TearingsTyped ==
  ASSUME NEW c \in Copy
  PROVE  Tearings(c) \subseteq Copy
  BY DEF Tearings, Copy

\* Storing leaves copies.
LEMMA StoreTyped ==
  ASSUME NEW C \in [Copies -> Copy], NEW m \in Meta, NEW f \in Nat \cup {None},
         NEW o \in StoreOutcomes(C, m, f)
  PROVE  o.copies \in [Copies -> Copy] /\ o.res \in Result
<1> DEFINE full == [meta |-> m, state |-> f, legacy |-> None]
           At(k, p) == [c \in Copies |-> IF c < k THEN full ELSE IF c = k THEN p ELSE C[c]]
<1>1. full \in Copy /\ [full EXCEPT !.state = None] \in Copy
  BY DEF Copy
<1>2. ASSUME NEW k \in Copies, NEW p \in Copy
      PROVE  At(k, p) \in [Copies -> Copy]
  BY <1>1
<1>3. CASE o = [copies |-> [c \in Copies |-> full], res |-> "ok"]
  BY <1>1, <1>3 DEF Result
<1>4. CASE \E k \in Copies :
             \E p \in Tearings(C[k]) \cup {[full EXCEPT !.state = None]}, r \in Stopped :
               o = [copies |-> At(k, p), res |-> r]
  BY <1>1, <1>2, <1>4, TearingsTyped DEF Result
<1>5. QED
  BY <1>3, <1>4 DEF StoreOutcomes

\* Clearing leaves copies.
LEMMA ClearTyped ==
  ASSUME NEW C \in [Copies -> Copy], NEW f \in Nat \cup {None}, NEW o \in ClearOutcomes(C, f)
  PROVE  o.copies \in [Copies -> Copy] /\ o.res \in Result
<1> DEFINE kept == [EmptyCopy EXCEPT !.state = f]
           Erasing(k, p) ==
             [c \in Copies |-> IF c < k THEN EmptyCopy ELSE IF c = k THEN p ELSE C[c]]
           Writing(k) == [c \in Copies |-> IF c < k THEN kept ELSE EmptyCopy]
<1>1. kept \in Copy /\ EmptyCopy \in Copy
  BY DEF Copy, EmptyCopy
<1>2. ASSUME NEW k \in Copies, NEW p \in Copy
      PROVE  Erasing(k, p) \in [Copies -> Copy] /\ Writing(k) \in [Copies -> Copy]
  BY <1>1
<1>3. CASE o = [copies |-> [c \in Copies |-> kept], res |-> "ok"]
  BY <1>1, <1>3 DEF Result
<1>4. CASE \E k \in Copies : \E p \in Tearings(C[k]), r \in Stopped :
             o = [copies |-> Erasing(k, p), res |-> r]
  BY <1>1, <1>2, <1>4, TearingsTyped DEF Result
<1>5. CASE \E k \in Copies, r \in Stopped : o = [copies |-> Writing(k), res |-> r]
  BY <1>1, <1>2, <1>5 DEF Result
<1>6. \/ o = [copies |-> [c \in Copies |-> kept], res |-> "ok"]
      \/ \E k \in Copies : \E p \in Tearings(C[k]), r \in Stopped :
           o = [copies |-> Erasing(k, p), res |-> r]
      \/ \E k \in Copies, r \in Stopped : o = [copies |-> Writing(k), res |-> r]
  BY SMTT(30) DEF ClearOutcomes
<1>7. QED
  BY <1>3, <1>4, <1>5, <1>6

-----------------------------------------------------------------------------
(* What the handlers compute is typed. *)

\* Every check ends in an error code of the protocol.
LEMMA ErrorsTyped ==
  /\ \A req : BeginError(req) \in Error
  /\ \A m : ManifestError(m) \in Error
  /\ \A d : DataError(d) \in Error
  /\ \A image : CommitError(image) \in Error
  /\ \A meta, floor : VerifyError(meta, floor) \in Error
  /\ CommitFinalError \in Error
  /\ InstalledError \in Error
<1>1. \A req, f, i : SecurityBeginError(req, f, i) \in Error
  BY DEF SecurityBeginError, Error
<1>2. \A k, m : SecurityManifestError(k, m) \in Error
  BY DEF SecurityManifestError, Error
<1>3. \A k : TransformError(k) \in Error /\ FinalizeError(k) \in Error
  BY DEF TransformError, FinalizeError, Error
<1>4. \A A, m, f : SecurityVerifyError(A, m, f) \in Error
  BY DEF SecurityVerifyError, Error
<1>5. \A req : BeginError(req) \in Error
  BY <1>1 DEF BeginError, Error
<1>6. \A m : ManifestError(m) \in Error
  BY <1>2 DEF ManifestError, Error
<1>7. \A d : DataError(d) \in Error
  BY <1>3 DEF DataError, Error
<1>8. \A image : CommitError(image) \in Error
  BY <1>3 DEF CommitError, Error
<1>9. \A meta, floor : VerifyError(meta, floor) \in Error
  BY <1>4 DEF VerifyError, Error
<1>10. CommitFinalError \in Error /\ InstalledError \in Error
  BY <1>3, <1>9 DEF CommitFinalError, InstalledError, Error
<1>11. QED
  BY <1>5, <1>6, <1>7, <1>8, <1>9, <1>10

\* The selected metadata and the selected floor are absent or of their type.
LEMMA SelectTyped ==
  ASSUME NEW C \in [Copies -> Copy]
  PROVE  SelectMeta(C) \in Meta \cup {None} /\ SelectFloor(C) \in Nat \cup {None}
<1>1. C[1] \in Copy /\ C[CopyCount] \in Copy
  BY FlashAssumption DEF Copies
<1>2. QED
  BY <1>1 DEF SelectMeta, SelectFloor, Copy

\* An answer leaves the variables it sets typed.
LEMMA AnswerTyped ==
  ASSUME TypeOK, NEW f, NEW err \in Error, NEW okStatus \in Status, Answer(f, err, okStatus)
  PROVE  /\ status' \in Status
         /\ lastError' \in Error
         /\ retry'.op \in {"NONE", "DATA", "COMMIT"}
         /\ mode' \in {"auto", "bl", "app"}
         /\ bootRequested' \in BOOLEAN
         /\ launched' \in Meta \cup {None}
<1>1. status' \in Status /\ lastError' \in Error
  BY DEF Answer, Status
<1>2. retry'.op \in {"NONE", "DATA", "COMMIT"}
  BY DEF Answer, NoteFrameRun, NoFrame, Command, Frame, TypeOK
<1>3. QED
  BY <1>1, <1>2 DEF Answer, TypeOK

\* A power-up with typed flash is typed.
LEMMA PowerUpTyped ==
  ASSUME NEW r \in BOOLEAN, PowerUp(r), app' \in [Slots -> Cell],
         copies' \in [Copies -> Copy], acked' \in Meta \cup {None},
         interruptions' \in 0 .. MaxInterruptions
  PROVE  TypeOK'
  BY EmptySeq DEF PowerUp, TypeOK, NoSession, NoSecurity, NoFrame, Command, Frame,
     NoPending, Status, Error

\* The count of failed or interrupted flash operations stays within its bound.
LEMMA SpendTyped ==
  ASSUME TypeOK, NEW res, Spend(res)
  PROVE  interruptions' \in 0 .. MaxInterruptions
  BY BootloaderAssumption DEF Spend, TypeOK

-----------------------------------------------------------------------------
(* Type correctness, action by action. *)

\* A session that can be opened: its image has chunks and fits the slot.
FitsSlot(s) ==
  /\ s \in [state: {"OPEN"}, req: Requests, running: Seq(Chunk), erased: BOOLEAN]
  /\ Len(s.req.image) \in 1 .. SlotChunks
  /\ Len(s.running) <= Len(s.req.image)

Security == [active: BOOLEAN, required: BOOLEAN, valid: BOOLEAN, begin: Requests \cup {None},
             manifest: Manifests \cup {None}, hashed: Seq(Chunk), final: BOOLEAN]

\* A request that BEGIN accepts opens a session that fits the slot.
LEMMA OpenFits ==
  ASSUME NEW req \in Requests, BeginError(req) = "NONE"
  PROVE  FitsSlot(OpenSession(req)) /\ NewSecurity(req) \in Security
<1>1. req.image \in Seq(Chunk)
  BY SecurityAssumption DEF RequestType
<1>2. Len(req.image) \in 1 .. SlotChunks
  BY <1>1, LenProperties, FlashAssumption DEF BeginError
<1>3. <<>> \in Seq(Chunk) /\ Len(<<>>) = 0
  BY EmptySeq
<1>4. Len(<<>>) <= Len(req.image)
  BY <1>2, <1>3, FlashAssumption
<1>5. FitsSlot(OpenSession(req))
  BY <1>2, <1>3, <1>4 DEF FitsSlot, OpenSession
<1>6. ("sig" \in req.flags) \in BOOLEAN
  OBVIOUS
<1>7. NewSecurity(req) \in Security
  BY <1>3, <1>6 DEF NewSecurity, NoSecurity, Security
<1>8. QED
  BY <1>5, <1>7

\* bootloader_erase_session_app keeps types, however it ends.
LEMMA EraseSessionAppTyped ==
  ASSUME TypeOK, NEW f, NEW s, FitsSlot(s), NEW k \in Security, EraseSessionApp(f, s, k)
  PROVE  TypeOK'
<1>1. PICK o \in EraseOutcomes(app, Len(s.req.image)) : EraseSessionApp(f, s, k)!(o)
  BY DEF EraseSessionApp
<1>2. app' \in [Slots -> Cell]
  BY <1>1, EraseTyped DEF TypeOK, FitsSlot
<1>3. /\ copies' \in [Copies -> Copy]
      /\ acked' \in Meta \cup {None}
      /\ interruptions' \in 0 .. MaxInterruptions
  BY <1>1, SpendTyped DEF TypeOK
<1>4. CASE o.res = "ok"
  <2>1. Answer(f, "NONE", "RECEIVING")
    BY <1>1, <1>4
  <2>2. session' = [s EXCEPT !.erased = TRUE] /\ security' = k /\ pending' = NoPending
    BY <1>1, <1>4
  <2>3. QED
    BY <1>2, <1>3, <2>1, <2>2, AnswerTyped DEF TypeOK, FitsSlot, Security, NoPending, Error, Status
<1>5. CASE o.res = "fault"
  <2>1. Answer(f, "FLASH", status) /\ status \in Status
    BY <1>1, <1>5 DEF TypeOK
  <2>2. session' = NoSession /\ security' = NoSecurity /\ pending' = NoPending
    BY <1>1, <1>5
  <2>3. QED
    BY <1>2, <1>3, <2>1, <2>2, AnswerTyped, EmptySeq
       DEF TypeOK, NoSession, NoSecurity, NoPending, Error
<1>6. CASE o.res = "cut"
  BY <1>1, <1>2, <1>3, <1>6, PowerUpTyped
<1>7. QED
  BY <1>1, <1>4, <1>5, <1>6

\* BEGIN keeps types.
LEMMA BeginTyped ==
  ASSUME TypeOK, NEW req \in Requests, BeginSession(req)
  PROVE  TypeOK'
<1>1. BeginError(req) \in Error /\ status \in Status /\ "NONE" \in Error
      /\ "RECEIVING" \in Status
  BY ErrorsTyped DEF TypeOK, Error, Status
<1>2. CASE BeginRejected(req)
  BY <1>1, <1>2, AnswerTyped DEF BeginRejected, flash, TypeOK
<1>3. CASE BeginSigned(req)
  BY <1>1, <1>3, AnswerTyped, OpenFits DEF BeginSigned, flash, TypeOK, FitsSlot, Security
<1>4. CASE BeginUnsigned(req)
  BY <1>4, OpenFits, EraseSessionAppTyped DEF BeginUnsigned
<1>5. QED
  BY <1>2, <1>3, <1>4 DEF BeginSession

\* SET_MANIFEST keeps types.
LEMMA SetManifestTyped ==
  ASSUME TypeOK, NEW m \in Manifests, SetManifest(m)
  PROVE  TypeOK'
<1>1. ManifestError(m) \in Error /\ status \in Status
  BY ErrorsTyped DEF TypeOK
<1>2. WithManifest(security, m) \in Security
  BY DEF WithManifest, TypeOK, Security
<1>3. CASE SetManifestOnly(m)
  BY <1>1, <1>2, <1>3, AnswerTyped DEF SetManifestOnly, flash, TypeOK, Security
<1>4. CASE SetManifestErasing(m)
  <2>1. FitsSlot(session)
    BY <1>4 DEF SetManifestErasing, ManifestError, TypeOK, FitsSlot
  <2>2. QED
    BY <1>2, <1>4, <2>1, EraseSessionAppTyped DEF SetManifestErasing
<1>5. QED
  BY <1>3, <1>4 DEF SetManifest

\* A chunk that DATA accepts is written inside the session's part of the slot,
\* and its plaintext is a chunk.
LEMMA DataInSlot ==
  ASSUME TypeOK, NEW d \in DataPayload, DataError(d) = "NONE"
  PROVE  /\ session.state = "OPEN" /\ session.erased
         /\ d.offset = Len(session.running) /\ d.offset \in Slots
         /\ Len(session.running) < Len(session.req.image)
         /\ Plaintext(security, d.offset, d.chunk) \in Chunk
<1>1. /\ session.state = "OPEN" /\ session.erased
      /\ d.offset = Len(session.running)
      /\ ~(Len(session.running) >= Len(session.req.image))
  BY DEF DataError, TransformError
<1>2. /\ Len(session.running) \in Nat
      /\ Len(session.req.image) \in 1 .. SlotChunks
  BY <1>1, LenProperties DEF TypeOK
<1>3. d.offset \in Slots /\ Len(session.running) < Len(session.req.image)
  BY <1>1, <1>2, FlashAssumption DEF Slots
<1>4. Plaintext(security, d.offset, d.chunk) \in Chunk
  BY <1>3, SecurityAssumption DEF Plaintext, DataPayload
<1>5. QED
  BY <1>1, <1>3, <1>4

\* DATA keeps types.
LEMMA WriteDataTyped ==
  ASSUME TypeOK, NEW seq \in Seqs, NEW d \in DataPayload, WriteData(seq, d)
  PROVE  TypeOK'
<1>1. DataError(d) \in Error /\ status \in Status /\ {"NONE", "FLASH"} \subseteq Error
  BY ErrorsTyped DEF TypeOK, Error
<1>2. CASE DataRejected(seq, d)
  BY <1>1, <1>2, AnswerTyped DEF DataRejected, flash, TypeOK
<1>3. CASE DataWritten(seq, d)
  <2> DEFINE chunk == Plaintext(security, d.offset, d.chunk)
  <2>1. DataError(d) = "NONE"
    BY <1>3 DEF DataWritten
  <2>2. /\ session.state = "OPEN" /\ d.offset \in Slots /\ chunk \in Chunk
        /\ Len(session.running) < Len(session.req.image)
    BY <2>1, DataInSlot
  <2>3. PICK o \in WriteOutcomes(app, d.offset, chunk) : DataWritten(seq, d)!1!2!(o)
    BY <1>3 DEF DataWritten
  <2>4. /\ app' \in [Slots -> Cell]
        /\ copies' \in [Copies -> Copy]
        /\ acked' \in Meta \cup {None}
        /\ interruptions' \in 0 .. MaxInterruptions
    BY <2>2, <2>3, WriteTyped, SpendTyped DEF TypeOK
  <2>5. CASE o.res = "ok"
    <3>1. Answer(DataFrame(seq, d), "NONE", status) /\ pending' = pending
      BY <2>3, <2>5
    <3>2. session' = [session EXCEPT !.running = Append(session.running, chunk)]
      BY <2>3, <2>5
    <3>3. security' = [security EXCEPT !.hashed = Append(security.hashed, chunk)]
      BY <2>3, <2>5 DEF WithPlaintext
    <3>4. /\ Append(session.running, chunk) \in Seq(Chunk)
          /\ Len(Append(session.running, chunk)) = Len(session.running) + 1
          /\ Append(security.hashed, chunk) \in Seq(Chunk)
      BY <2>2, AppendProperties DEF TypeOK
    <3>5. Len(session.running) + 1 <= Len(session.req.image)
      BY <2>2, LenProperties DEF TypeOK
    <3>6. QED
      BY <1>1, <2>2, <2>4, <3>1, <3>2, <3>3, <3>4, <3>5, AnswerTyped DEF TypeOK
  <2>6. CASE o.res = "fault"
    BY <1>1, <2>3, <2>4, <2>6, AnswerTyped DEF TypeOK
  <2>7. CASE o.res = "cut"
    BY <2>3, <2>4, <2>7, PowerUpTyped
  <2>8. QED
    BY <2>3, <2>5, <2>6, <2>7
<1>4. QED
  BY <1>2, <1>3 DEF WriteData

\* The metadata and the floor that COMMIT stores are typed.
LEMMA FinalMetaTyped ==
  ASSUME TypeOK, session.state = "OPEN"
  PROVE  /\ FinalMeta(security, session.req) \in Meta
         /\ FloorToStore(session.req) \in Nat \cup {None}
<1>1. Digest(security) \in Seq(Chunk) \cup {BadDigest}
  BY DEF Digest, TypeOK
<1>2. (security.valid /\ security.manifest.signed) \in BOOLEAN
  OBVIOUS
<1>3. FinalMeta(security, session.req) \in Meta
  BY <1>1, <1>2 DEF FinalMeta, Meta, TypeOK
<1>4. session.req.secver \in Nat
  BY SecurityAssumption DEF TypeOK, RequestType
<1>5. FloorToStore(session.req) \in Nat \cup {None}
  BY <1>4, SelectTyped DEF FloorToStore, CandidateFloor, TypeOK
<1>6. QED
  BY <1>3, <1>5

\* COMMIT keeps types.
LEMMA CommitTyped ==
  ASSUME TypeOK, NEW seq \in Seqs, NEW image \in CommitPayload, CommitSession(seq, image)
  PROVE  TypeOK'
<1>1. /\ CommitError(image) \in Error /\ CommitFinalError \in Error
      /\ status \in Status /\ "COMMITTED" \in Status /\ {"NONE", "FLASH"} \subseteq Error
  BY ErrorsTyped DEF TypeOK, Error, Status
<1>2. Finalized(security) \in Security
  BY DEF Finalized, TypeOK, Security
<1>3. CASE CommitRejected(seq, image)
  BY <1>1, <1>3, AnswerTyped DEF CommitRejected, flash, TypeOK
<1>4. CASE CommitRefused(seq, image)
  BY <1>1, <1>2, <1>4, AnswerTyped DEF CommitRefused, flash, TypeOK, Security
<1>5. CASE CommitStored(seq, image)
  <2> DEFINE meta == FinalMeta(security, session.req)
  <2>1. session.state = "OPEN"
    BY <1>5 DEF CommitStored, CommitError
  <2>2. meta \in Meta /\ FloorToStore(session.req) \in Nat \cup {None}
    BY <2>1, FinalMetaTyped
  <2>3. PICK o \in StoreOutcomes(copies, meta, FloorToStore(session.req)) :
               CommitStored(seq, image)!1!3!(o)
    BY <1>5 DEF CommitStored
  <2>4. /\ app' \in [Slots -> Cell]
        /\ copies' \in [Copies -> Copy]
        /\ interruptions' \in 0 .. MaxInterruptions
    BY <2>2, <2>3, StoreTyped, SpendTyped DEF TypeOK
  <2>5. CASE o.res = "ok"
    <3>1. Answer(CommitFrame(seq, image), "NONE", "COMMITTED") /\ pending' = pending
      BY <2>3, <2>5
    <3>2. /\ session' = [session EXCEPT !.state = "DONE"]
          /\ security' = Finalized(security)
          /\ acked' = meta
      BY <2>3, <2>5
    <3>3. QED
      BY <1>1, <1>2, <2>1, <2>2, <2>4, <3>1, <3>2, AnswerTyped DEF TypeOK, Security
  <2>6. CASE o.res = "fault"
    BY <1>1, <1>2, <2>3, <2>4, <2>6, AnswerTyped DEF TypeOK, Security
  <2>7. CASE o.res = "cut"
    BY <2>3, <2>4, <2>7, PowerUpTyped DEF TypeOK
  <2>8. QED
    BY <2>3, <2>5, <2>6, <2>7
<1>6. QED
  BY <1>3, <1>4, <1>5 DEF CommitSession

\* CLEAR_METADATA keeps types.
LEMMA ClearMetadataTyped ==
  ASSUME TypeOK, ClearMetadata
  PROVE  TypeOK'
<1>1. /\ status \in Status /\ "READY" \in Status
      /\ {"NONE", "FLASH", "BAD_STATE"} \subseteq Error
  BY DEF TypeOK, Error, Status
<1>2. CASE ClearRejected
  BY <1>1, <1>2, AnswerTyped DEF ClearRejected, flash, TypeOK
<1>3. CASE ClearErasing
  <2> DEFINE floor == IF PreserveOnClear THEN SelectFloor(copies) ELSE None
  <2>1. floor \in Nat \cup {None}
    BY SelectTyped DEF TypeOK
  <2>2. PICK o \in ClearOutcomes(copies, floor) : ClearErasing!2!(o)
    BY <1>3 DEF ClearErasing
  <2>3. /\ app' \in [Slots -> Cell]
        /\ copies' \in [Copies -> Copy]
        /\ acked' \in Meta \cup {None}
        /\ interruptions' \in 0 .. MaxInterruptions
    BY <2>1, <2>2, ClearTyped, SpendTyped DEF TypeOK
  <2>4. CASE o.res = "ok"
    <3>1. Answer(Command("CLEAR_METADATA"), "NONE", "READY")
      BY <2>2, <2>4
    <3>2. session' = NoSession /\ security' = NoSecurity /\ pending' = pending
      BY <2>2, <2>4
    <3>3. QED
      BY <1>1, <2>3, <3>1, <3>2, AnswerTyped, EmptySeq DEF TypeOK, NoSession, NoSecurity
  <2>5. CASE o.res = "fault"
    BY <1>1, <2>2, <2>3, <2>5, AnswerTyped DEF TypeOK
  <2>6. CASE o.res = "cut"
    BY <2>2, <2>3, <2>6, PowerUpTyped
  <2>7. QED
    BY <2>2, <2>4, <2>5, <2>6
<1>4. QED
  BY <1>2, <1>3 DEF ClearMetadata

\* The commands that touch no flash keep types.
LEMMA CommandTyped ==
  ASSUME TypeOK,
         Abort \/ Reboot \/ VerifyImage \/ BootApp \/ (\E op \in Refusable : Malformed(op))
  PROVE  TypeOK'
<1>1. /\ status \in Status /\ "READY" \in Status
      /\ {"NONE", "NO_VALID_APP", "UNSUPPORTED", "RANGE"} \subseteq Error
      /\ InstalledError \in Error
  BY ErrorsTyped DEF TypeOK, Error, Status
<1>2. CASE Abort
  BY <1>1, <1>2, AnswerTyped, EmptySeq
     DEF Abort, flash, TypeOK, NoSession, NoSecurity, NoPending
<1>3. CASE Reboot
  BY <1>1, <1>3, AnswerTyped DEF Reboot, flash, TypeOK
<1>4. CASE VerifyImage
  BY <1>1, <1>4, AnswerTyped DEF VerifyImage, flash, TypeOK
<1>5. CASE BootApp
  <2>1. SelectMeta(copies) \in Meta \cup {None}
    BY SelectTyped DEF TypeOK
  <2>2. pending' = pending \/ pending' = [action |-> "BOOT_APP", meta |-> SelectMeta(copies)]
    BY <1>5 DEF BootApp
  <2>3. pending'.action \in {"NONE", "REBOOT", "BOOT_APP"} /\ pending'.meta \in Meta \cup {None}
    BY <2>1, <2>2 DEF TypeOK
  <2>4. \E err \in Error : Answer(Command("BOOT_APP"), err, status)
    BY <1>1, <1>5 DEF BootApp
  <2>5. QED
    BY <1>1, <1>5, <2>3, <2>4, AnswerTyped DEF BootApp, flash, TypeOK
<1>6. CASE \E op \in Refusable : Malformed(op)
  <2>1. PICK op \in Refusable : Malformed(op)
    BY <1>6
  <2>2. \E err \in Error : Answer(Command(op), err, status)
    BY <1>1, <2>1 DEF Malformed
  <2>3. QED
    BY <1>1, <2>1, <2>2, AnswerTyped DEF Malformed, flash, TypeOK
<1>7. QED
  BY <1>2, <1>3, <1>4, <1>5, <1>6

\* A query and a repeated frame keep types.
LEMMA UnchangingTyped ==
  ASSUME TypeOK, Query \/ (\E f : RepeatedFrame(f))
  PROVE  TypeOK'
  BY DEF Query, RepeatedFrame, flash, TypeOK, Error

\* The main loop's own steps and the resets keep types.
LEMMA LoopTyped ==
  ASSUME TypeOK,
         Poll \/ TryBootApp \/ (\E r \in BOOLEAN : AppResets(r)) \/ PowerCycle
  PROVE  TypeOK'
<1>1. ASSUME NEW r \in BOOLEAN, PowerUp(r), UNCHANGED <<flash, acked, interruptions>>
      PROVE  TypeOK'
  BY <1>1, PowerUpTyped DEF flash, TypeOK
<1>2. CASE Poll
  <2>1. CASE PowerUp(FALSE)
    BY <1>1, <1>2, <2>1 DEF Poll
  <2>2. CASE ~PowerUp(FALSE)
    <3>1. /\ mode' = "app" /\ launched' = pending.meta /\ pending' = NoPending
          /\ UNCHANGED <<session, security, status, lastError, retry, bootRequested>>
          /\ UNCHANGED <<app, copies, acked, interruptions>>
      BY <1>2, <2>2 DEF Poll, flash
    <3>2. QED
      BY <3>1 DEF TypeOK, NoPending
  <2>3. QED
    BY <2>1, <2>2
<1>3. CASE TryBootApp
  BY <1>3, ErrorsTyped, SelectTyped DEF TryBootApp, flash, TypeOK, Status
<1>4. CASE \E r \in BOOLEAN : AppResets(r)
  BY <1>1, <1>4 DEF AppResets
<1>5. CASE PowerCycle
  BY <1>1, <1>5 DEF PowerCycle
<1>6. QED
  BY <1>2, <1>3, <1>4, <1>5

\* Before the first frame every variable has its type.
LEMMA InitTyped == Init => TypeOK
<1> SUFFICES ASSUME Init PROVE TypeOK
  OBVIOUS
<1>1. copies \in [Copies -> Copy]
  BY BootloaderAssumption DEF Init, Copy, EmptyCopy
<1>2. app \in [Slots -> Cell] /\ interruptions \in 0 .. MaxInterruptions
  BY BootloaderAssumption DEF Init, Cell
<1>3. /\ session = NoSession /\ security = NoSecurity /\ retry = NoFrame /\ pending = NoPending
      /\ status \in Status /\ lastError \in Error /\ mode = "auto" /\ bootRequested = FALSE
      /\ launched = None /\ acked = None
  BY DEF Init, Status, Error
<1>4. QED
  BY <1>1, <1>2, <1>3, EmptySeq
     DEF TypeOK, NoSession, NoSecurity, NoFrame, Command, Frame, NoPending

\* Every step of the bootloader keeps every variable in its type.
LEMMA NextTyped == TypeOK /\ [Next]_vars => TypeOK'
<1> SUFFICES ASSUME TypeOK, [Next]_vars PROVE TypeOK'
  OBVIOUS
<1>1. CASE UNCHANGED vars
  BY <1>1 DEF vars, flash, TypeOK
<1>2. CASE Next
  BY <1>2, BeginTyped, SetManifestTyped, WriteDataTyped, CommitTyped, ClearMetadataTyped,
     CommandTyped, UnchangingTyped, LoopTyped DEF Next
<1>3. QED
  BY <1>1, <1>2

\* Every variable always has its type: in particular a session never counts
\* more than the size BEGIN announced as written, and an answered command never
\* leaves the device status at ERASING or VERIFYING.
THEOREM TypeCorrect == Spec => []TypeOK
  BY InitTyped, NextTyped, PTL DEF Spec

-----------------------------------------------------------------------------
(* The first copy holds the highest floor.                                 *)
(*                                                                         *)
(* boot_security_state_select_valid takes the first copy that reads valid. *)
(* That it is the highest is not inductive: an erase cut short can take    *)
(* the first copy's state away, and leave a legacy floor above the second  *)
(* copy's state.  The strengthening orders the copies: bootloader_store_   *)
(* metadata writes the first copy first, and erases its legacy floor.      *)

\* The floors a copy holds.
FloorsOf(copy) == {copy.state, copy.legacy} \ {None}

\* The copies C hold their floors in order.
Ordered(C) ==
  LET first == C[1]
      last == C[CopyCount]
  IN /\ \A c \in Copies : C[c].state = None \/ C[c].legacy = None
     /\ first.state # None => \A f \in FloorsOf(last) : f <= first.state
     /\ first.legacy # None => last.state = None /\ last.legacy \in {None, first.legacy}

FloorsOrdered == Ordered(copies)

\* There are one or two copies: the first and the last.
LEMMA FirstAndLast ==
  /\ 1 \in Copies /\ CopyCount \in Copies
  /\ \A c \in Copies : c = 1 \/ c = CopyCount
  BY FlashAssumption DEF Copies

\* Copies in order select the highest floor.
LEMMA OrderedIsHighest ==
  ASSUME TypeOK, FloorsOrdered
  PROVE  \A c \in Copies : \A f \in FloorsOf(copies[c]) :
           SelectFloor(copies) \in Nat /\ f <= SelectFloor(copies)
<1> SUFFICES ASSUME NEW c \in Copies, NEW f \in FloorsOf(copies[c])
             PROVE  SelectFloor(copies) \in Nat /\ f <= SelectFloor(copies)
  OBVIOUS
<1>1. copies[1] \in Copy /\ copies[CopyCount] \in Copy
  BY FirstAndLast DEF TypeOK
<1>2. QED
  BY <1>1, FirstAndLast, FlashAssumption DEF FloorsOrdered, Ordered, FloorsOf, SelectFloor, Copy

-----------------------------------------------------------------------------
(* What metadata work leaves of the floors. *)

\* A copy q that holds no floor p does not hold.
LosesFloors(q, p) == q.state \in {p.state, None} /\ q.legacy \in {p.legacy, None}

\* Losing floors keeps the copies in order.
LEMMA TornOrdered ==
  ASSUME NEW C, Ordered(C), NEW D, \A c \in Copies : LosesFloors(D[c], C[c])
  PROVE  Ordered(D)
<1>1. LosesFloors(D[1], C[1]) /\ LosesFloors(D[CopyCount], C[CopyCount])
  BY FirstAndLast
<1>2. \A c \in Copies : D[c].state = None \/ D[c].legacy = None
  BY DEF Ordered, LosesFloors
<1>3. D[1].state # None => \A f \in FloorsOf(D[CopyCount]) : f <= D[1].state
  BY <1>1 DEF Ordered, LosesFloors, FloorsOf
<1>4. D[1].legacy # None
        => D[CopyCount].state = None /\ D[CopyCount].legacy \in {None, D[1].legacy}
  BY <1>1 DEF Ordered, LosesFloors
<1>5. QED
  BY <1>2, <1>3, <1>4 DEF Ordered

\* How bootloader_store_metadata can end: every copy written; the first copy
\* torn; or the first written and the last torn.
LEMMA StoreCases ==
  ASSUME NEW C \in [Copies -> Copy], NEW m, NEW F, NEW o \in StoreOutcomes(C, m, F)
  PROVE  \/ o.res = "ok" /\ \A c \in Copies : o.copies[c].state = F /\ o.copies[c].legacy = None
         \/ /\ o.res # "ok"
            /\ LosesFloors(o.copies[1], C[1])
            /\ \A c \in Copies : c # 1 => o.copies[c] = C[c]
         \/ /\ o.res # "ok"
            /\ CopyCount = 2
            /\ o.copies[1].state = F /\ o.copies[1].legacy = None
            /\ LosesFloors(o.copies[2], C[2])
<1> DEFINE full == [meta |-> m, state |-> F, legacy |-> None]
           Partial(k) == Tearings(C[k]) \cup {[full EXCEPT !.state = None]}
           StoppedAt(k, p) ==
             [c \in Copies |-> IF c < k THEN full ELSE IF c = k THEN p ELSE C[c]]
<1>1. CASE o = [copies |-> [c \in Copies |-> full], res |-> "ok"]
  BY <1>1
<1>2. ASSUME NEW k \in Copies, NEW p \in Partial(k), NEW r \in Stopped,
             o = [copies |-> StoppedAt(k, p), res |-> r]
      PROVE  /\ o.res # "ok" /\ LosesFloors(o.copies[k], C[k])
             /\ \A c \in Copies : c < k => o.copies[c] = full
             /\ \A c \in Copies : c > k => o.copies[c] = C[c]
  <2>1. o.res = r /\ o.copies = StoppedAt(k, p) /\ r # "ok"
    BY <1>2 DEF Stopped
  <2>2. LosesFloors(p, C[k])
    BY DEF Tearings, LosesFloors
  <2>3. QED
    BY <2>1, <2>2 DEF Copies
<1>3. CASE \E k \in Copies : \E p \in Partial(k), r \in Stopped :
             o = [copies |-> StoppedAt(k, p), res |-> r]
  <2>1. PICK k \in Copies : /\ o.res # "ok" /\ LosesFloors(o.copies[k], C[k])
                            /\ \A c \in Copies : c < k => o.copies[c] = full
                            /\ \A c \in Copies : c > k => o.copies[c] = C[c]
    BY <1>2, <1>3
  <2>2. CASE k = 1
    BY <2>1, <2>2 DEF Copies
  <2>3. CASE k # 1
    <3>1. k = 2 /\ CopyCount = 2 /\ 1 \in Copies /\ 1 < k
      BY <2>3, FlashAssumption DEF Copies
    <3>2. o.copies[1] = full
      BY <2>1, <3>1
    <3>3. QED
      BY <2>1, <3>1, <3>2
  <2>4. QED
    BY <2>2, <2>3
<1>4. QED
  BY <1>1, <1>3 DEF StoreOutcomes

\* How bootloader_clear_metadata can end: the floor F in every copy; copies
\* torn; or F in the copies before one, and nothing in the others.
LEMMA ClearCases ==
  ASSUME NEW C \in [Copies -> Copy], NEW F, NEW o \in ClearOutcomes(C, F)
  PROVE  \/ o.res = "ok" /\ \A c \in Copies : o.copies[c].state = F /\ o.copies[c].legacy = None
         \/ o.res # "ok" /\ \A c \in Copies : LosesFloors(o.copies[c], C[c])
         \/ /\ o.res # "ok"
            /\ o.copies[1].state \in {F, None}
            /\ \A c \in Copies : o.copies[c].legacy = None
            /\ o.copies[CopyCount].state = None
<1> DEFINE kept == [EmptyCopy EXCEPT !.state = F]
           ErasingAt(k, p) ==
             [c \in Copies |-> IF c < k THEN EmptyCopy ELSE IF c = k THEN p ELSE C[c]]
           WritingAt(k) == [c \in Copies |-> IF c < k THEN kept ELSE EmptyCopy]
<1>1. CASE o = [copies |-> [c \in Copies |-> kept], res |-> "ok"]
  BY <1>1 DEF EmptyCopy
<1>2. ASSUME NEW k \in Copies, NEW p \in Tearings(C[k]), NEW r \in Stopped,
             o = [copies |-> ErasingAt(k, p), res |-> r]
      PROVE  o.res # "ok" /\ \A c \in Copies : LosesFloors(o.copies[c], C[c])
  <2>1. o.res = r /\ o.copies = ErasingAt(k, p) /\ r # "ok"
    BY <1>2 DEF Stopped
  <2>2. LosesFloors(p, C[k])
    BY DEF Tearings, LosesFloors
  <2>3. QED
    BY <2>1, <2>2 DEF EmptyCopy, LosesFloors
<1>3. ASSUME NEW k \in Copies, NEW r \in Stopped, o = [copies |-> WritingAt(k), res |-> r]
      PROVE  /\ o.res # "ok"
             /\ o.copies[1].state \in {F, None}
             /\ \A c \in Copies : o.copies[c].legacy = None
             /\ o.copies[CopyCount].state = None
  <2>1. o.res = r /\ o.copies = WritingAt(k) /\ r # "ok" /\ ~(CopyCount < k)
    BY <1>3, FlashAssumption DEF Stopped, Copies
  <2>2. QED
    BY <2>1, FirstAndLast DEF EmptyCopy
<1> DEFINE Erasings == UNION {{[copies |-> ErasingAt(k, p), res |-> r] :
                                 p \in Tearings(C[k]), r \in Stopped} : k \in Copies}
           Writings == {[copies |-> WritingAt(k), res |-> r] :
                          k \in (IF F = None THEN {} ELSE Copies), r \in Stopped}
<1>4. CASE o \in Erasings
  <2>1. PICK k \in Copies : o \in {[copies |-> ErasingAt(k, p), res |-> r] :
                                    p \in Tearings(C[k]), r \in Stopped}
    BY <1>4
  <2>2. PICK p \in Tearings(C[k]), r \in Stopped : o = [copies |-> ErasingAt(k, p), res |-> r]
    BY <2>1
  <2>3. QED
    BY <1>2, <2>2
<1>5. CASE o \in Writings
  <2>1. PICK k \in Copies, r \in Stopped : o = [copies |-> WritingAt(k), res |-> r]
    BY <1>5
  <2>2. QED
    BY <1>3, <2>1
<1>6. ClearOutcomes(C, F) =
        {[copies |-> [c \in Copies |-> kept], res |-> "ok"]} \cup Erasings \cup Writings
  BY DEF ClearOutcomes
<1>7. QED
  <2> HIDE DEF Erasings, Writings
  <2>1. \/ o = [copies |-> [c \in Copies |-> kept], res |-> "ok"]
        \/ o \in Erasings \/ o \in Writings
    BY <1>6
  <2>2. QED
    BY <1>1, <1>4, <1>5, <2>1

-----------------------------------------------------------------------------
(* Every step keeps the copies in order. *)

\* Every copy holding the same state and no legacy floor, or the first holding
\* the highest and the last nothing but what a floor F covers, is in order.
LEMMA WrittenOrdered ==
  ASSUME NEW D, \A c \in Copies : D[c].legacy = None, NEW F \in Nat \cup {None},
         \A c \in Copies : D[c].state \in {F, None},
         D[1].state = F \/ D[CopyCount].state = None
  PROVE  Ordered(D)
<1>1. \A f \in FloorsOf(D[CopyCount]) : f = F /\ f \in Nat
  BY FirstAndLast DEF FloorsOf
<1>2. \A f \in FloorsOf(D[CopyCount]) : D[1].state # None => f <= D[1].state
  BY <1>1, FirstAndLast
<1>3. QED
  BY <1>2, FirstAndLast DEF Ordered

\* The floor COMMIT stores is at least the one in flash.
LEMMA StoredFloorIsHigh ==
  ASSUME TypeOK, session.state = "OPEN", SelectFloor(copies) # None
  PROVE  /\ FloorToStore(session.req) \in Nat
         /\ SelectFloor(copies) <= FloorToStore(session.req)
<1>1. SelectFloor(copies) \in Nat
  BY SelectTyped DEF TypeOK
<1>2. session.req.secver \in Nat
  BY SecurityAssumption DEF TypeOK, RequestType
<1>3. QED
  BY <1>1, <1>2, FlashAssumption DEF FloorToStore, CandidateFloor

\* What a COMMIT leaves in the metadata copies.
LEMMA CommitStoresFloor ==
  ASSUME TypeOK, NEW seq, NEW image, CommitStored(seq, image)
  PROVE  /\ session.state = "OPEN"
         /\ \E o \in StoreOutcomes(copies, FinalMeta(security, session.req),
                                   FloorToStore(session.req)) :
              copies' = o.copies /\ Spend(o.res)
  BY DEF CommitStored, CommitError

\* COMMIT keeps the copies in order, wherever it stops.
LEMMA CommitOrdered ==
  ASSUME TypeOK, FloorsOrdered, NEW seq, NEW image, CommitStored(seq, image)
  PROVE  FloorsOrdered'
<1> DEFINE F == FloorToStore(session.req)
<1>1. session.state = "OPEN"
  BY CommitStoresFloor
<1>2. PICK o \in StoreOutcomes(copies, FinalMeta(security, session.req), F) :
             copies' = o.copies
  BY CommitStoresFloor
<1>3. F \in Nat \cup {None}
  BY <1>1, FinalMetaTyped
<1>4. copies \in [Copies -> Copy]
  BY DEF TypeOK
<1>5. CASE \A c \in Copies : o.copies[c].state = F /\ o.copies[c].legacy = None
  BY <1>2, <1>3, <1>5, FirstAndLast, WrittenOrdered DEF FloorsOrdered
<1>6. CASE /\ LosesFloors(o.copies[1], copies[1])
           /\ \A c \in Copies : c # 1 => o.copies[c] = copies[c]
  <2>1. \A c \in Copies : LosesFloors(o.copies[c], copies[c])
    BY <1>6 DEF LosesFloors
  <2>2. QED
    BY <1>2, <2>1, TornOrdered DEF FloorsOrdered
<1>7. CASE /\ CopyCount = 2
           /\ o.copies[1].state = F /\ o.copies[1].legacy = None
           /\ LosesFloors(o.copies[2], copies[2])
  <2>1. \A f \in FloorsOf(copies[2]) : SelectFloor(copies) \in Nat /\ f <= SelectFloor(copies)
    BY <1>7, FirstAndLast, OrderedIsHighest
  <2>2. \A f \in FloorsOf(copies[2]) : f \in Nat
    BY <1>4, <1>7, FirstAndLast DEF FloorsOf, Copy
  <2>3. \A f \in FloorsOf(copies[2]) : F \in Nat /\ f <= F
    BY <1>1, <2>1, <2>2, StoredFloorIsHigh, FlashAssumption
  <2>4. \A f \in FloorsOf(o.copies[2]) : f \in FloorsOf(copies[2])
    BY <1>7 DEF FloorsOf, LosesFloors
  <2>5. \A c \in Copies : o.copies[c].state = None \/ o.copies[c].legacy = None
    BY <1>7, FirstAndLast DEF FloorsOrdered, Ordered, LosesFloors
  <2>6. QED
    BY <1>2, <1>7, <2>3, <2>4, <2>5 DEF FloorsOrdered, Ordered
<1>8. QED
  BY <1>4, <1>5, <1>6, <1>7, StoreCases

\* CLEAR_METADATA keeps the copies in order, wherever it stops.
LEMMA ClearOrdered ==
  ASSUME TypeOK, FloorsOrdered, ClearErasing
  PROVE  FloorsOrdered'
<1> DEFINE F == IF PreserveOnClear THEN SelectFloor(copies) ELSE None
<1>1. PICK o \in ClearOutcomes(copies, F) : copies' = o.copies
  BY DEF ClearErasing
<1>2. copies \in [Copies -> Copy] /\ F \in Nat \cup {None}
  BY SelectTyped DEF TypeOK
<1>3. CASE \A c \in Copies : LosesFloors(o.copies[c], copies[c])
  BY <1>1, <1>3, TornOrdered DEF FloorsOrdered
<1>4. CASE \A c \in Copies : o.copies[c].state = F /\ o.copies[c].legacy = None
  BY <1>1, <1>2, <1>4, FirstAndLast, WrittenOrdered DEF FloorsOrdered
<1>5. CASE /\ o.copies[1].state \in {F, None}
           /\ \A c \in Copies : o.copies[c].legacy = None
           /\ o.copies[CopyCount].state = None
  BY <1>1, <1>2, <1>5, FirstAndLast, WrittenOrdered DEF FloorsOrdered
<1>6. QED
  BY <1>2, <1>3, <1>4, <1>5, ClearCases

\* Only COMMIT and CLEAR_METADATA change the metadata copies.
LEMMA WhoChangesCopies ==
  ASSUME Next, copies' # copies
  PROVE  \/ \E seq \in Seqs, image \in CommitPayload : CommitStored(seq, image)
         \/ ClearErasing
<1>1. ASSUME NEW req \in Requests, BeginSession(req)
      PROVE  FALSE
  BY <1>1 DEF BeginSession, BeginRejected, BeginSigned, BeginUnsigned, EraseSessionApp, flash
<1>2. ASSUME NEW m \in Manifests, SetManifest(m)
      PROVE  FALSE
  BY <1>2 DEF SetManifest, SetManifestOnly, SetManifestErasing, EraseSessionApp, flash
<1>3. ASSUME NEW seq \in Seqs, NEW d \in DataPayload, WriteData(seq, d)
      PROVE  FALSE
  BY <1>3 DEF WriteData, DataRejected, DataWritten, flash
<1>4. ASSUME NEW seq \in Seqs, NEW image \in CommitPayload, CommitSession(seq, image)
      PROVE  CommitStored(seq, image)
  BY <1>4 DEF CommitSession, CommitRejected, CommitRefused, flash
<1>5. ASSUME ClearMetadata
      PROVE  ClearErasing
  BY <1>5 DEF ClearMetadata, ClearRejected, flash
<1>6. ~(Abort \/ Reboot \/ VerifyImage \/ BootApp
          \/ (\E op \in Refusable : Malformed(op)) \/ Query \/ (\E f : RepeatedFrame(f)))
  BY DEF Abort, Reboot, VerifyImage, BootApp, Malformed, Query, RepeatedFrame, flash
<1>7. ~(Poll \/ TryBootApp \/ (\E r \in BOOLEAN : AppResets(r)) \/ PowerCycle)
  BY DEF Poll, TryBootApp, AppResets, PowerCycle, flash
<1>8. QED
  BY <1>1, <1>2, <1>3, <1>4, <1>5, <1>6, <1>7 DEF Next

\* Every step keeps the copies in order.
LEMMA NextOrdered == TypeOK /\ FloorsOrdered /\ [Next]_vars => FloorsOrdered'
<1> SUFFICES ASSUME TypeOK, FloorsOrdered, [Next]_vars PROVE FloorsOrdered'
  OBVIOUS
<1>1. CASE copies' = copies
  BY <1>1 DEF FloorsOrdered
<1>2. CASE copies' # copies
  BY <1>2, WhoChangesCopies, CommitOrdered, ClearOrdered DEF vars, flash
<1>3. QED
  BY <1>1, <1>2

\* The copies are in order in every reachable state.
LEMMA FloorsAreOrdered == Spec => [](TypeOK /\ FloorsOrdered)
<1>1. Init => FloorsOrdered
  BY FirstAndLast DEF Init, FloorsOrdered, Ordered, EmptyCopy, FloorsOf
<1>2. QED
  BY <1>1, NextOrdered, TypeCorrect, PTL DEF Spec

\* The floor boot_security_state_select_valid selects is the highest any copy
\* still holds, whatever was torn or left by an older layout.
THEOREM SelectedIsHighest == Spec => []SelectedFloorIsHighest
<1>1. TypeOK /\ FloorsOrdered => SelectedFloorIsHighest
  BY OrderedIsHighest DEF SelectedFloorIsHighest, FloorsOf
<1>2. QED
  BY <1>1, FloorsAreOrdered, PTL

-----------------------------------------------------------------------------
(* What can lower the floor. *)

\* Where every copy holds the state F, that is the floor.
LEMMA AllHold ==
  ASSUME NEW D, NEW F, F # None, \A c \in Copies : D[c].state = F
  PROVE  SelectFloor(D) = F
  BY FirstAndLast DEF SelectFloor

\* A floor at least as high is not lowered.
LEMMA NotLowered ==
  ASSUME TypeOK, NEW F \in Nat, SelectFloor(copies) <= F, SelectFloor(copies') = F
  PROVE  ~FloorLowered
  BY SelectTyped, FlashAssumption DEF FloorLowered, TypeOK

\* COMMIT with redundant floors lowers none, wherever it stops.
LEMMA CommitKeepsFloor ==
  ASSUME TypeOK, FloorsOrdered, CopyCount = 2, FloorRedundant, SelectFloor(copies) # None,
         NEW seq, NEW image, CommitStored(seq, image)
  PROVE  ~FloorLowered
<1> DEFINE F == FloorToStore(session.req)
           floor == SelectFloor(copies)
<1>1. F \in Nat /\ floor <= F /\ floor \in Nat /\ F # None
  BY CommitStoresFloor, StoredFloorIsHigh, SelectTyped, FlashAssumption DEF TypeOK
<1>2. PICK o \in StoreOutcomes(copies, FinalMeta(security, session.req), F) :
             copies' = o.copies
  BY CommitStoresFloor
<1>3. copies \in [Copies -> Copy]
  BY DEF TypeOK
<1>4. CASE \A c \in Copies : o.copies[c].state = F /\ o.copies[c].legacy = None
  BY <1>1, <1>2, <1>4, AllHold, NotLowered
<1>5. CASE /\ LosesFloors(o.copies[1], copies[1])
           /\ \A c \in Copies : c # 1 => o.copies[c] = copies[c]
  <2>1. copies'[2] = copies[2]
    BY <1>2, <1>5, FirstAndLast
  <2>2. /\ copies'[1].state \in {copies[1].state, None}
        /\ copies'[1].legacy \in {copies[1].legacy, None}
    BY <1>2, <1>5 DEF LosesFloors
  <2>3. /\ IF copies[1].state # None THEN copies[1].state = floor ELSE copies[1].legacy = floor
        /\ IF copies[2].state # None THEN copies[2].state = floor ELSE copies[2].legacy = floor
        /\ copies[1].state = None \/ copies[1].legacy = None
    BY FirstAndLast DEF FloorRedundant, FloorsOrdered, Ordered
  <2>4. SelectFloor(copies') = floor
    BY <2>1, <2>2, <2>3 DEF SelectFloor
  <2>5. QED
    BY <1>1, <2>4, NotLowered
<1>6. CASE o.copies[1].state = F
  <2>1. SelectFloor(copies') = F
    BY <1>1, <1>2, <1>6 DEF SelectFloor
  <2>2. QED
    BY <1>1, <2>1, NotLowered
<1>7. QED
  BY <1>3, <1>4, <1>5, <1>6, StoreCases

\* With two copies that both hold the rollback floor, no COMMIT lowers it,
\* wherever in bootloader_store_metadata a flash operation fails or the power
\* goes.
THEOREM RedundantFloorIsKept == CopyCount = 2 => (Spec => CommitKeepsRedundantFloor)
<1> SUFFICES ASSUME CopyCount = 2 PROVE Spec => CommitKeepsRedundantFloor
  OBVIOUS
<1>1. TypeOK /\ FloorsOrdered /\ [Next]_vars
        => [FloorLowered /\ FloorRedundant => ClearErasing]_vars
  <2> SUFFICES ASSUME TypeOK, FloorsOrdered, Next, FloorLowered, FloorRedundant
               PROVE  ClearErasing
    BY DEF vars
  <2>1. copies' # copies /\ SelectFloor(copies) # None
    BY SelectTyped DEF FloorLowered, TypeOK
  <2>2. QED
    BY <2>1, WhoChangesCopies, CommitKeepsFloor
<1>2. QED
  BY <1>1, FloorsAreOrdered, PTL DEF Spec, CommitKeepsRedundantFloor

\* Metadata work that no failure cut short lowers no floor.
LEMMA WholeStepKeepsFloor ==
  ASSUME PreserveOnClear, TypeOK, Next, interruptions' = interruptions
  PROVE  ~FloorLowered
<1> SUFFICES ASSUME SelectFloor(copies) # None, copies' # copies PROVE ~FloorLowered
  BY SelectTyped DEF FloorLowered, TypeOK
<1>1. \A res : Spend(res) => res = "ok"
  BY DEF Spend, TypeOK
<1>2. copies \in [Copies -> Copy] /\ SelectFloor(copies) \in Nat
  BY SelectTyped DEF TypeOK
<1>3. ASSUME NEW seq, NEW image, CommitStored(seq, image)
      PROVE  ~FloorLowered
  <2> DEFINE F == FloorToStore(session.req)
  <2>1. PICK o \in StoreOutcomes(copies, FinalMeta(security, session.req), F) :
               copies' = o.copies /\ Spend(o.res)
    BY <1>3, CommitStoresFloor
  <2>2. \A c \in Copies : o.copies[c].state = F
    BY <1>1, <1>2, <2>1, StoreCases
  <2>3. F \in Nat /\ F # None /\ SelectFloor(copies) <= F
    BY <1>3, CommitStoresFloor, StoredFloorIsHigh, FlashAssumption
  <2>4. QED
    BY <2>1, <2>2, <2>3, AllHold, NotLowered
<1>4. ASSUME ClearErasing
      PROVE  ~FloorLowered
  <2> DEFINE F == SelectFloor(copies)
  <2>1. PICK o \in ClearOutcomes(copies, F) : copies' = o.copies /\ Spend(o.res)
    BY <1>4 DEF ClearErasing
  <2>2. \A c \in Copies : o.copies[c].state = F
    BY <1>1, <1>2, <2>1, ClearCases
  <2>3. QED
    BY <1>2, <2>1, <2>2, AllHold, NotLowered
<1>5. QED
  BY <1>3, <1>4, WhoChangesCopies

\* Where CLEAR_METADATA preserves the state, nothing lowers the rollback floor
\* without a failed or interrupted flash operation, on a target with one
\* metadata copy too.
THEOREM FloorIsKeptUninterrupted == PreserveOnClear => (Spec => FloorKeptUninterrupted)
<1> SUFFICES ASSUME PreserveOnClear PROVE Spec => FloorKeptUninterrupted
  OBVIOUS
<1>1. TypeOK /\ [Next]_vars => [interruptions' = interruptions => ~FloorLowered]_vars
  BY WholeStepKeepsFloor
<1>2. QED
  BY <1>1, TypeCorrect, PTL DEF Spec, FloorKeptUninterrupted

==============================================================================
