---------------------------- MODULE SessionProofs ----------------------------
(***************************************************************************)
(* Safety theorems about Bootloader, for every value of its constants.     *)
(* Each invariant is proved from type correctness (BootloaderProofs) and,  *)
(* where it is not inductive by itself, from the strengthening stated with *)
(* it.  The session and the security context are about the same update, an *)
(* acknowledged COMMIT boots, a repeated frame is answered truly, the      *)
(* written chunks are in flash, the status is true, a jump lands in the    *)
(* verified image, a complete session commits, and nothing is erased for   *)
(* an update nobody signed.                                                *)
(***************************************************************************)
EXTENDS BootloaderProofs

-----------------------------------------------------------------------------
(* The session and the security context are about the same update. *)

\* SessionMatchesSecurity of a session s and a context k.
Matches(s, k) ==
  s.state = "OPEN" =>
    /\ k.active
    /\ k.begin = s.req
    /\ k.required <=> "sig" \in s.req.flags
    /\ k.hashed = s.running
    /\ k.valid => k.manifest.req = s.req /\ k.manifest.signed
    /\ s.erased /\ k.required => k.valid

\* A request just accepted, unerased, or erased if it is unsigned.
LEMMA OpenMatches ==
  ASSUME NEW req
  PROVE  /\ Matches(OpenSession(req), NewSecurity(req))
         /\ "sig" \notin req.flags =>
              Matches([OpenSession(req) EXCEPT !.erased = TRUE], NewSecurity(req))
  BY DEF Matches, OpenSession, NewSecurity, NoSecurity

\* A session that matches is still matched once its manifest has been accepted,
\* erased or not.
LEMMA ManifestMatches ==
  ASSUME TypeOK, SessionMatchesSecurity, NEW m \in Manifests, ManifestError(m) = "NONE"
  PROVE  /\ Matches(session, WithManifest(security, m))
         /\ Matches([session EXCEPT !.erased = TRUE], WithManifest(security, m))
<1>1. /\ session.state = "OPEN" /\ security.active /\ security.required
      /\ security.valid => m = security.manifest
      /\ ~security.valid => m.req = security.begin /\ m.signed
  BY DEF ManifestError, SecurityManifestError
<1>2. m.req = session.req /\ m.signed
  BY <1>1 DEF SessionMatchesSecurity
<1>3. QED
  BY <1>1, <1>2 DEF Matches, SessionMatchesSecurity, WithManifest, TypeOK

\* bootloader_erase_session_app sets or resets both.
LEMMA EraseSessionAppMatches ==
  ASSUME NEW f, NEW s, NEW k, Matches([s EXCEPT !.erased = TRUE], k), EraseSessionApp(f, s, k)
  PROVE  SessionMatchesSecurity'
<1>1. \/ session' = [s EXCEPT !.erased = TRUE] /\ security' = k
      \/ session' = NoSession
  BY DEF EraseSessionApp, PowerUp
<1>2. \A k1 : Matches(NoSession, k1)
  BY DEF Matches, NoSession
<1>3. Matches(session', security')
  BY <1>1, <1>2
<1>4. QED
  BY <1>3 DEF Matches, SessionMatchesSecurity

\* A step that leaves both alone, or closes the session.
LEMMA ClosedMatches ==
  ASSUME SessionMatchesSecurity,
         UNCHANGED <<session, security>> \/ session' = NoSession
  PROVE  SessionMatchesSecurity'
  BY DEF SessionMatchesSecurity, NoSession

\* DATA hashes what it writes, and only that.
LEMMA WriteDataMatches ==
  ASSUME TypeOK, SessionMatchesSecurity, NEW seq, NEW d \in DataPayload, DataWritten(seq, d)
  PROVE  SessionMatchesSecurity'
<1> DEFINE chunk == Plaintext(security, d.offset, d.chunk)
<1>1. \/ /\ session' = [session EXCEPT !.running = Append(session.running, chunk)]
         /\ security' = [security EXCEPT !.hashed = Append(security.hashed, chunk)]
      \/ UNCHANGED <<session, security>>
      \/ session' = NoSession
  BY DEF DataWritten, PowerUp, WithPlaintext
<1>2. CASE /\ session' = [session EXCEPT !.running = Append(session.running, chunk)]
           /\ security' = [security EXCEPT !.hashed = Append(security.hashed, chunk)]
  <2>1. /\ session'.state = session.state /\ session'.req = session.req
        /\ session'.erased = session.erased
        /\ session'.running = Append(session.running, chunk)
    BY <1>2 DEF TypeOK
  <2>2. /\ security'.active = security.active /\ security'.begin = security.begin
        /\ security'.required = security.required /\ security'.valid = security.valid
        /\ security'.manifest = security.manifest
        /\ security'.hashed = Append(security.hashed, chunk)
    BY <1>2 DEF TypeOK
  <2>3. QED
    BY <2>1, <2>2 DEF SessionMatchesSecurity
<1>3. QED
  BY <1>1, <1>2, ClosedMatches

\* COMMIT finalises the hash or ends the session.
LEMMA CommitMatches ==
  ASSUME TypeOK, SessionMatchesSecurity, NEW seq, NEW image, CommitSession(seq, image)
  PROVE  SessionMatchesSecurity'
<1>1. \/ session' = session /\ security' = Finalized(security)
      \/ session' = [session EXCEPT !.state = "DONE"]
      \/ UNCHANGED <<session, security>>
      \/ session' = NoSession
  BY DEF CommitSession, CommitRejected, CommitRefused, CommitStored, PowerUp
<1>2. QED
  BY <1>1, ClosedMatches DEF SessionMatchesSecurity, Finalized, TypeOK

\* Every step keeps the session and the security context matched.
LEMMA NextMatches == TypeOK /\ SessionMatchesSecurity /\ [Next]_vars => SessionMatchesSecurity'
<1> SUFFICES ASSUME TypeOK, SessionMatchesSecurity, [Next]_vars
             PROVE  SessionMatchesSecurity'
  OBVIOUS
<1>1. ASSUME NEW req \in Requests, BeginSession(req)
      PROVE  SessionMatchesSecurity'
  <2>1. CASE BeginRejected(req)
    BY <2>1, ClosedMatches DEF BeginRejected
  <2>2. CASE BeginSigned(req)
    BY <2>2, OpenMatches DEF BeginSigned, Matches, SessionMatchesSecurity
  <2>3. CASE BeginUnsigned(req)
    BY <2>3, OpenMatches, EraseSessionAppMatches DEF BeginUnsigned
  <2>4. QED
    BY <1>1, <2>1, <2>2, <2>3 DEF BeginSession
<1>2. ASSUME NEW m \in Manifests, SetManifest(m)
      PROVE  SessionMatchesSecurity'
  <2>1. CASE SetManifestOnly(m)
    BY <2>1, ManifestMatches, ClosedMatches
       DEF SetManifestOnly, Matches, SessionMatchesSecurity
  <2>2. CASE SetManifestErasing(m)
    BY <2>2, ManifestMatches, EraseSessionAppMatches DEF SetManifestErasing
  <2>3. QED
    BY <1>2, <2>1, <2>2 DEF SetManifest
<1>3. ASSUME NEW seq \in Seqs, NEW d \in DataPayload, WriteData(seq, d)
      PROVE  SessionMatchesSecurity'
  BY <1>3, WriteDataMatches, ClosedMatches DEF WriteData, DataRejected
<1>4. ASSUME NEW seq \in Seqs, NEW image \in CommitPayload, CommitSession(seq, image)
      PROVE  SessionMatchesSecurity'
  BY <1>4, CommitMatches
<1>5. CASE Abort \/ ClearMetadata \/ Reboot \/ VerifyImage \/ BootApp
           \/ (\E op \in Refusable : Malformed(op)) \/ Query \/ (\E f : RepeatedFrame(f))
  BY <1>5, ClosedMatches
     DEF Abort, ClearMetadata, ClearRejected, ClearErasing, Reboot, VerifyImage, BootApp,
         Malformed, Query, RepeatedFrame, PowerUp
<1>6. CASE Poll \/ TryBootApp \/ (\E r \in BOOLEAN : AppResets(r)) \/ PowerCycle
  BY <1>6, ClosedMatches DEF Poll, TryBootApp, AppResets, PowerCycle, PowerUp
<1>7. CASE UNCHANGED vars
  BY <1>7, ClosedMatches DEF vars
<1>8. QED
  BY <1>1, <1>2, <1>3, <1>4, <1>5, <1>6, <1>7 DEF Next

\* The session in ctx and the security context g_security are always about the
\* same update: begun by the same request, with exactly the written chunks
\* hashed, and erased under a signed session only after its manifest verified.
THEOREM SessionAndSecurityAgree == Spec => []SessionMatchesSecurity
<1>1. Init => SessionMatchesSecurity
  BY DEF Init, NoSession, SessionMatchesSecurity
<1>2. QED
  BY <1>1, NextMatches, TypeCorrect, PTL DEF Spec

-----------------------------------------------------------------------------
(* An acknowledged COMMIT boots.                                           *)
(*                                                                         *)
(* AckedBoots is not inductive: it says nothing of an open session, whose  *)
(* DATA frames write the application and whose COMMIT may stop half-way    *)
(* through the metadata.  The strengthening: no chunk is written before    *)
(* the erase, and the erase took the acknowledgement back.                 *)

ErasedBeforeWritten ==
  session.state = "OPEN" =>
    /\ session.running # <<>> => session.erased
    /\ session.erased => acked = None

BootInv == TypeOK /\ ErasedBeforeWritten /\ AckedBoots

\* The empty sequence is the one of length 0.
LEMMA NonEmptyRunning ==
  ASSUME TypeOK, session.state = "OPEN", session.running = session.req.image
  PROVE  session.running # <<>>
  BY EmptySeq, LenProperties DEF TypeOK

\* A step that leaves flash and the acknowledgement alone, or takes it back.
LEMMA AckKept ==
  ASSUME AckedBoots, acked' = None \/ UNCHANGED <<app, copies, acked>>
  PROVE  AckedBoots'
  BY DEF AckedBoots, VerifyError

\* A step that leaves the session and the acknowledgement alone, or closes the
\* session.
LEMMA ErasedBeforeWrittenKept ==
  ASSUME ErasedBeforeWritten,
         \/ UNCHANGED <<session, acked>>
         \/ session'.state # "OPEN"
  PROVE  ErasedBeforeWritten'
  BY DEF ErasedBeforeWritten

\* bootloader_erase_session_app takes the acknowledgement back.
LEMMA EraseSessionAppBoots ==
  ASSUME BootInv, NEW f, NEW s, FitsSlot(s), NEW k, EraseSessionApp(f, s, k)
  PROVE  ErasedBeforeWritten' /\ AckedBoots'
<1>1. acked' = None
  BY DEF EraseSessionApp
<1>2. \/ session' = [s EXCEPT !.erased = TRUE]
      \/ session' = NoSession
  BY DEF EraseSessionApp, PowerUp
<1>3. ErasedBeforeWritten'
  BY <1>1, <1>2 DEF ErasedBeforeWritten, FitsSlot, NoSession
<1>4. QED
  BY <1>1, <1>3, AckKept DEF BootInv

\* A DATA frame is written only where nothing is acknowledged.
LEMMA WriteDataBoots ==
  ASSUME BootInv, NEW seq, NEW d \in DataPayload, DataWritten(seq, d)
  PROVE  ErasedBeforeWritten' /\ AckedBoots'
<1>1. session.state = "OPEN" /\ session.erased /\ acked = None
  BY DataInSlot DEF DataWritten, BootInv, ErasedBeforeWritten
<1>2. acked' = None
  BY <1>1 DEF DataWritten
<1>3. \/ session' = session
      \/ session' = NoSession
      \/ \E r : session' = [session EXCEPT !.running = r]
  BY DEF DataWritten, PowerUp
<1>4. ErasedBeforeWritten'
  BY <1>1, <1>2, <1>3 DEF ErasedBeforeWritten, NoSession, BootInv, TypeOK
<1>5. QED
  BY <1>2, <1>4, AckKept DEF BootInv

\* What COMMIT verified against the floor it is about to store is what a later
\* check against the stored floor finds.
LEMMA StoredVerifies ==
  ASSUME TypeOK, session.state = "OPEN", CommitFinalError = "NONE",
         acked' = FinalMeta(security, session.req), app' = app,
         copies' = [c \in Copies |-> [meta |-> FinalMeta(security, session.req),
                                      state |-> FloorToStore(session.req),
                                      legacy |-> None]]
  PROVE  AckedBoots'
<1> DEFINE meta == FinalMeta(security, session.req)
           floor == FloorToStore(session.req)
<1>1. 1 \in Copies /\ CopyCount \in Copies
  BY FlashAssumption DEF Copies
<1>2. meta \in Meta /\ meta # None
  BY FinalMetaTyped, SecurityAssumption
<1>3. SelectMeta(copies') = meta
  BY <1>1, <1>2 DEF SelectMeta
<1>4. SelectFloor(copies') = floor
  BY <1>1 DEF SelectFloor
<1>5. VerifyError(meta, CandidateFloor(session.req)) = "NONE"
  BY DEF CommitFinalError
<1>6. floor = (IF CandidateFloor(session.req) # None THEN CandidateFloor(session.req)
               ELSE SelectFloor(copies))
  BY DEF FloorToStore
<1>7. VerifyError(acked, None)' = "NONE"
  BY <1>4, <1>5, <1>6 DEF VerifyError
<1>8. QED
  BY <1>3, <1>7 DEF AckedBoots

\* COMMIT acknowledges only what then boots.
LEMMA CommitBoots ==
  ASSUME BootInv, NEW seq, NEW image, CommitSession(seq, image)
  PROVE  ErasedBeforeWritten' /\ AckedBoots'
<1>1. CASE CommitRejected(seq, image) \/ CommitRefused(seq, image)
  BY <1>1, AckKept, ErasedBeforeWrittenKept DEF CommitRejected, CommitRefused, flash, BootInv
<1>2. CASE CommitStored(seq, image)
  <2> DEFINE meta == FinalMeta(security, session.req)
             floor == FloorToStore(session.req)
             full == [meta |-> meta, state |-> floor, legacy |-> None]
  <2>1. session.state = "OPEN" /\ session.running = session.req.image
    BY <1>2 DEF CommitStored, CommitError
  <2>2. acked = None
    BY <2>1, NonEmptyRunning DEF BootInv, ErasedBeforeWritten
  <2>3. CommitFinalError = "NONE" /\ app' = app
    BY <1>2 DEF CommitStored
  <2>4. PICK o \in StoreOutcomes(copies, meta, floor) : CommitStored(seq, image)!1!3!(o)
    BY <1>2 DEF CommitStored
  <2>5. CASE o.res = "ok"
    <3>1. copies' = [c \in Copies |-> full]
      BY <2>4, <2>5 DEF StoreOutcomes, Stopped
    <3>2. acked' = meta /\ session'.state = "DONE"
      BY <2>4, <2>5 DEF BootInv, TypeOK
    <3>3. QED
      BY <2>1, <2>3, <3>1, <3>2, StoredVerifies DEF BootInv, ErasedBeforeWritten
  <2>6. CASE o.res # "ok"
    <3>1. acked' = None
      BY <2>2, <2>4, <2>6
    <3>2. session' = session \/ session' = NoSession
      BY <2>4, <2>6 DEF PowerUp
    <3>3. QED
      BY <2>2, <3>1, <3>2, AckKept, ErasedBeforeWrittenKept DEF BootInv, NoSession
  <2>7. QED
    BY <2>5, <2>6
<1>3. QED
  BY <1>1, <1>2 DEF CommitSession

\* Every step keeps an acknowledged image bootable.
LEMMA NextBoots == BootInv /\ [Next]_vars => ErasedBeforeWritten' /\ AckedBoots'
<1> SUFFICES ASSUME BootInv, [Next]_vars
             PROVE  ErasedBeforeWritten' /\ AckedBoots'
  OBVIOUS
<1> USE DEF BootInv
<1>1. ASSUME UNCHANGED <<app, copies, acked>>, session' = session \/ session' = NoSession
      PROVE  ErasedBeforeWritten' /\ AckedBoots'
  BY <1>1, AckKept, ErasedBeforeWrittenKept DEF NoSession
<1>2. ASSUME NEW req \in Requests, BeginSession(req)
      PROVE  ErasedBeforeWritten' /\ AckedBoots'
  <2>1. CASE BeginRejected(req)
    BY <1>1, <2>1 DEF BeginRejected, flash
  <2>2. CASE BeginSigned(req)
    BY <2>2, AckKept DEF BeginSigned, flash, OpenSession, ErasedBeforeWritten
  <2>3. CASE BeginUnsigned(req)
    BY <2>3, OpenFits, EraseSessionAppBoots DEF BeginUnsigned
  <2>4. QED
    BY <1>2, <2>1, <2>2, <2>3 DEF BeginSession
<1>3. ASSUME NEW m \in Manifests, SetManifest(m)
      PROVE  ErasedBeforeWritten' /\ AckedBoots'
  <2>1. CASE SetManifestOnly(m)
    BY <1>1, <2>1 DEF SetManifestOnly, flash
  <2>2. CASE SetManifestErasing(m)
    <3>1. FitsSlot(session)
      BY <2>2 DEF SetManifestErasing, ManifestError, TypeOK, FitsSlot
    <3>2. QED
      BY <2>2, <3>1, EraseSessionAppBoots DEF SetManifestErasing
  <2>3. QED
    BY <1>3, <2>1, <2>2 DEF SetManifest
<1>4. ASSUME NEW seq \in Seqs, NEW d \in DataPayload, WriteData(seq, d)
      PROVE  ErasedBeforeWritten' /\ AckedBoots'
  BY <1>1, <1>4, WriteDataBoots DEF WriteData, DataRejected, flash
<1>5. ASSUME NEW seq \in Seqs, NEW image \in CommitPayload, CommitSession(seq, image)
      PROVE  ErasedBeforeWritten' /\ AckedBoots'
  BY <1>5, CommitBoots
<1>6. CASE ClearMetadata
  <2>1. CASE ClearRejected
    BY <1>1, <2>1 DEF ClearRejected, flash
  <2>2. CASE ClearErasing
    <3>1. acked' = None /\ (session' = session \/ session' = NoSession)
      BY <2>2 DEF ClearErasing, PowerUp
    <3>2. session' = session => session.state # "OPEN"
      BY <2>2 DEF ClearErasing
    <3>3. QED
      BY <3>1, <3>2, AckKept, ErasedBeforeWrittenKept DEF NoSession
  <2>3. QED
    BY <1>6, <2>1, <2>2 DEF ClearMetadata
<1>7. CASE Abort \/ Reboot \/ VerifyImage \/ BootApp
           \/ (\E op \in Refusable : Malformed(op)) \/ Query \/ (\E f : RepeatedFrame(f))
  BY <1>1, <1>7 DEF Abort, Reboot, VerifyImage, BootApp, Malformed, Query, RepeatedFrame, flash
<1>8. CASE Poll \/ TryBootApp \/ (\E r \in BOOLEAN : AppResets(r)) \/ PowerCycle
  BY <1>1, <1>8 DEF Poll, TryBootApp, AppResets, PowerCycle, PowerUp, flash
<1>9. CASE UNCHANGED vars
  BY <1>1, <1>9 DEF vars, flash
<1>10. QED
  BY <1>2, <1>3, <1>4, <1>5, <1>6, <1>7, <1>8, <1>9 DEF Next

\* An acknowledged COMMIT is bootable: whatever resets, power cuts and failed
\* flash operations follow, until a later command erases the application or the
\* metadata, bootloader_try_boot_app and BOOT_APP select its metadata and find
\* the image valid.
THEOREM AcknowledgedImageBoots == Spec => []AckedBoots
<1>1. Init => ErasedBeforeWritten /\ AckedBoots
  BY DEF Init, NoSession, ErasedBeforeWritten, AckedBoots
<1>2. QED
  BY <1>1, NextBoots, TypeCorrect, PTL DEF Spec, BootInv

-----------------------------------------------------------------------------
(* A repeated frame is answered from memory only while it is still true. *)

\* After a command that is neither read-only nor a DATA or COMMIT that
\* succeeded, no frame is remembered.
LEMMA AnswerForgets ==
  ASSUME NEW f, f.op \notin ReadOnlyOps, NEW err, NEW okStatus, Answer(f, err, okStatus),
         f.op \notin {"DATA", "COMMIT"} \/ err # "NONE"
  PROVE  RetryStillTrue'
<1>1. retry' = NoFrame
  BY DEF Answer, NoteFrameRun
<1>2. QED
  BY <1>1 DEF NoFrame, Command, Frame, RetryStillTrue

\* A power-up remembers no frame.
LEMMA PowerUpForgets ==
  ASSUME NEW r, PowerUp(r)
  PROVE  RetryStillTrue'
  BY DEF PowerUp, NoFrame, Command, Frame, RetryStillTrue

\* A step that forgets, or that leaves alone all the retry relies on.
LEMMA RetryKept ==
  ASSUME RetryStillTrue, retry' = retry \/ retry' = NoFrame,
         UNCHANGED <<session, security, acked>>
  PROVE  RetryStillTrue'
  BY DEF RetryStillTrue, NoFrame, Command, Frame, Plaintext

\* A DATA frame just written is remembered with its effect.
LEMMA WriteDataRemembered ==
  ASSUME TypeOK, NEW seq, NEW d \in DataPayload, DataWritten(seq, d)
  PROVE  RetryStillTrue'
<1> DEFINE chunk == Plaintext(security, d.offset, d.chunk)
<1>1. PICK o \in WriteOutcomes(app, d.offset, chunk) : DataWritten(seq, d)!1!2!(o)
  BY DEF DataWritten
<1>2. CASE o.res = "ok"
  <2>1. /\ session.state = "OPEN" /\ d.offset = Len(session.running)
        /\ d.offset \in Nat /\ chunk \in Chunk
    BY DataInSlot, FlashAssumption DEF DataWritten, Slots
  <2>2. retry' = DataFrame(seq, d)
    BY <1>1, <1>2 DEF Answer, NoteFrameRun, DataFrame, Frame
  <2>3. session' = [session EXCEPT !.running = Append(session.running, chunk)]
    BY <1>1, <1>2
  <2>4. security'.begin = security.begin
    BY <1>1, <1>2 DEF WithPlaintext, TypeOK
  <2>5. /\ session'.state = "OPEN"
        /\ session'.running = Append(session.running, chunk)
        /\ Len(session'.running) = d.offset + 1
        /\ session'.running[d.offset + 1] = chunk
    BY <2>1, <2>3, AppendProperties DEF TypeOK
  <2>6. Plaintext(security', d.offset, d.chunk) = chunk
    BY <2>4 DEF Plaintext
  <2>7. QED
    BY <2>2, <2>5, <2>6 DEF RetryStillTrue, DataFrame, Frame
<1>3. CASE o.res = "fault"
  <2>1. Answer(DataFrame(seq, d), "FLASH", status)
    BY <1>1, <1>3
  <2>2. QED
    BY <2>1, AnswerForgets DEF DataFrame, Frame, ReadOnlyOps
<1>4. CASE o.res = "cut"
  BY <1>1, <1>4, PowerUpForgets
<1>5. QED
  BY <1>1, <1>2, <1>3, <1>4

\* A COMMIT just acknowledged is remembered with its effect.
LEMMA CommitRemembered ==
  ASSUME TypeOK, NEW seq, NEW image, CommitSession(seq, image)
  PROVE  RetryStillTrue'
<1>1. CASE CommitRejected(seq, image) \/ CommitRefused(seq, image)
  BY <1>1, AnswerForgets DEF CommitRejected, CommitRefused, CommitFrame, Frame, ReadOnlyOps
<1>2. CASE CommitStored(seq, image)
  <2> DEFINE meta == FinalMeta(security, session.req)
  <2>1. PICK o \in StoreOutcomes(copies, meta, FloorToStore(session.req)) :
               CommitStored(seq, image)!1!3!(o)
    BY <1>2 DEF CommitStored
  <2>2. CASE o.res = "ok"
    <3>1. session.state = "OPEN" /\ image = session.req.image
      BY <1>2 DEF CommitStored, CommitError
    <3>2. meta # None
      BY <3>1, FinalMetaTyped, SecurityAssumption
    <3>3. /\ acked' = meta /\ session'.state = "DONE" /\ session'.req = session.req
          /\ retry' = CommitFrame(seq, image)
      BY <2>1, <2>2 DEF Answer, NoteFrameRun, CommitFrame, Frame, TypeOK
    <3>4. meta.req = session.req
      BY DEF FinalMeta
    <3>5. QED
      BY <3>1, <3>2, <3>3, <3>4 DEF RetryStillTrue, CommitFrame, Frame
  <2>3. CASE o.res = "fault"
    <3>1. Answer(CommitFrame(seq, image), "FLASH", status)
      BY <2>1, <2>3
    <3>2. QED
      BY <3>1, AnswerForgets DEF CommitFrame, Frame, ReadOnlyOps
  <2>4. CASE o.res = "cut"
    BY <2>1, <2>4, PowerUpForgets
  <2>5. QED
    BY <2>1, <2>2, <2>3, <2>4
<1>3. QED
  BY <1>1, <1>2 DEF CommitSession

\* bootloader_erase_session_app, called by BEGIN and SET_MANIFEST, forgets.
LEMMA EraseSessionAppForgets ==
  ASSUME NEW f, f.op \notin ReadOnlyOps \cup {"DATA", "COMMIT"}, NEW s, NEW k,
         EraseSessionApp(f, s, k)
  PROVE  RetryStillTrue'
  BY AnswerForgets, PowerUpForgets DEF EraseSessionApp

\* Every step keeps the remembered frame true.
LEMMA NextRetry == TypeOK /\ RetryStillTrue /\ [Next]_vars => RetryStillTrue'
<1> SUFFICES ASSUME TypeOK, RetryStillTrue, [Next]_vars PROVE RetryStillTrue'
  OBVIOUS
<1>1. /\ \A op : Command(op).op = op
      /\ \A op \in {"BEGIN", "SET_MANIFEST", "ABORT", "CLEAR_METADATA", "REBOOT", "BOOT_APP"} :
           op \notin ReadOnlyOps /\ op \notin {"DATA", "COMMIT"}
  <2>1. \A op : Command(op).op = op
    BY DEF Command, Frame
  <2>2. \A op \in {"BEGIN", "SET_MANIFEST", "ABORT", "CLEAR_METADATA", "REBOOT", "BOOT_APP"} :
          op \notin ReadOnlyOps /\ op \notin {"DATA", "COMMIT"}
    BY DEF ReadOnlyOps
  <2>3. QED
    BY <2>1, <2>2
<1>2. ASSUME NEW req \in Requests, BeginSession(req) PROVE RetryStillTrue'
  BY <1>1, <1>2, AnswerForgets, EraseSessionAppForgets
     DEF BeginSession, BeginRejected, BeginSigned, BeginUnsigned
<1>3. ASSUME NEW m \in Manifests, SetManifest(m) PROVE RetryStillTrue'
  BY <1>1, <1>3, AnswerForgets, EraseSessionAppForgets
     DEF SetManifest, SetManifestOnly, SetManifestErasing
<1>4. ASSUME NEW seq \in Seqs, NEW d \in DataPayload, WriteData(seq, d) PROVE RetryStillTrue'
  BY <1>4, AnswerForgets, WriteDataRemembered
     DEF WriteData, DataRejected, DataFrame, Frame, ReadOnlyOps
<1>5. ASSUME NEW seq \in Seqs, NEW image \in CommitPayload, CommitSession(seq, image)
      PROVE  RetryStillTrue'
  BY <1>5, CommitRemembered
<1>6. CASE Abort \/ ClearMetadata \/ Reboot \/ BootApp
  BY <1>1, <1>6, AnswerForgets, PowerUpForgets
     DEF Abort, ClearMetadata, ClearRejected, ClearErasing, Reboot, BootApp
<1>7. CASE VerifyImage \/ (\E op \in Refusable : Malformed(op)) \/ Query
           \/ (\E f : RepeatedFrame(f))
  BY <1>1, <1>7, RetryKept
     DEF VerifyImage, Malformed, Query, RepeatedFrame, Answer, NoteFrameRun
<1>8. CASE Poll \/ TryBootApp \/ (\E r \in BOOLEAN : AppResets(r)) \/ PowerCycle
  BY <1>8, RetryKept, PowerUpForgets DEF Poll, TryBootApp, AppResets, PowerCycle
<1>9. CASE UNCHANGED vars
  BY <1>9, RetryKept DEF vars
<1>10. QED
  BY <1>2, <1>3, <1>4, <1>5, <1>6, <1>7, <1>8, <1>9 DEF Next

\* Answering a repeated DATA or COMMIT from memory is always right: its effect
\* is still the last thing that happened to the session.
THEOREM RetryAnswersTruth == Spec => []RetryStillTrue
<1>1. Init => RetryStillTrue
  BY DEF Init, NoFrame, Command, Frame, RetryStillTrue
<1>2. QED
  BY <1>1, NextRetry, TypeCorrect, PTL DEF Spec

-----------------------------------------------------------------------------
(* What was counted as written is in flash.                                *)
(*                                                                         *)
(* FlashHoldsWritten is inductive with BootInv: that nothing is written    *)
(* before the erase (ErasedBeforeWritten) is what makes an erased session  *)
(* start with nothing written.                                             *)

\* A complete erase leaves the session's part of the slot erased, whole pages
\* at a time.
LEMMA EraseErases ==
  ASSUME NEW A, NEW n \in 1 .. SlotChunks, NEW o \in EraseOutcomes(A, n), o.res = "ok"
  PROVE  \A i \in 0 .. n - 1 : o.app[i] = Erased
<1>1. o.app = [i \in Slots |-> IF PageOf[i] <= PageOf[n - 1] THEN Erased ELSE A[i]]
  BY DEF EraseOutcomes, Stopped
<1>2. \A i \in 0 .. n - 1 : i \in Slots /\ PageOf[i] <= PageOf[n - 1]
  BY FlashAssumption DEF Slots
<1>3. QED
  BY <1>1, <1>2

\* bootloader_erase_session_app leaves nothing of the old image under an open
\* session that has written nothing.
LEMMA EraseSessionAppHolds ==
  ASSUME NEW f, NEW s, FitsSlot(s), s.running = <<>>, NEW k, EraseSessionApp(f, s, k)
  PROVE  FlashHoldsWritten'
<1>1. PICK o \in EraseOutcomes(app, Len(s.req.image)) : EraseSessionApp(f, s, k)!(o)
  BY DEF EraseSessionApp
<1>2. CASE o.res = "ok"
  <2>1. /\ session' = [s EXCEPT !.erased = TRUE]
        /\ app' = o.app
    BY <1>1, <1>2
  <2>2. \A i \in 0 .. Len(s.req.image) - 1 : app'[i] = Erased
    BY <1>2, <2>1, EraseErases DEF FitsSlot
  <2>3. Len(<<>>) = 0
    BY EmptySeq
  <2>4. session'.req = s.req /\ session'.running = <<>>
    BY <2>1 DEF FitsSlot
  <2>5. QED
    BY <2>2, <2>3, <2>4 DEF FlashHoldsWritten
<1>3. CASE o.res # "ok"
  BY <1>1, <1>3 DEF PowerUp, NoSession, FlashHoldsWritten
<1>4. QED
  BY <1>2, <1>3

\* A step that leaves the slot and the session alone, or closes the session.
LEMMA HoldsKept ==
  ASSUME FlashHoldsWritten, UNCHANGED <<session, app>> \/ session'.state # "OPEN"
  PROVE  FlashHoldsWritten'
  BY DEF FlashHoldsWritten

\* DATA writes the next chunk, and only that cell, whatever stops it.
LEMMA WriteDataHolds ==
  ASSUME TypeOK, FlashHoldsWritten, NEW seq, NEW d \in DataPayload, DataWritten(seq, d)
  PROVE  FlashHoldsWritten'
<1> DEFINE chunk == Plaintext(security, d.offset, d.chunk)
           n == Len(session.running)
<1>1. PICK o \in WriteOutcomes(app, d.offset, chunk) : DataWritten(seq, d)!1!2!(o)
  BY DEF DataWritten
<1>2. /\ session.state = "OPEN" /\ session.erased /\ d.offset = n /\ n \in Slots
      /\ n < Len(session.req.image) /\ chunk \in Chunk
  BY DataInSlot DEF DataWritten
<1>3. n \in Nat /\ Len(session.req.image) \in Nat
  BY <1>2, FlashAssumption DEF Slots, TypeOK
<1>4. app[n] \in {Torn, Erased}
  BY <1>2, <1>3 DEF FlashHoldsWritten
<1>5. PICK c : app' = [app EXCEPT ![n] = c] /\ c \in (IF o.res = "ok" THEN {chunk, Torn}
                                                                 ELSE {app[n], Torn})
  <2>1. app' = o.app
    BY <1>1
  <2>2. \/ \E c \in {chunk, Torn} : o = [app |-> [app EXCEPT ![n] = c], res |-> "ok"]
        \/ \E c \in {app[n], Torn}, r \in Stopped :
             o = [app |-> [app EXCEPT ![n] = c], res |-> r]
    BY <1>2 DEF WriteOutcomes
  <2>3. ASSUME NEW c \in {chunk, Torn}, o = [app |-> [app EXCEPT ![n] = c], res |-> "ok"]
        PROVE  app' = [app EXCEPT ![n] = c] /\ o.res = "ok"
    BY <2>1, <2>3
  <2>4. ASSUME NEW c \in {app[n], Torn}, NEW r \in Stopped,
               o = [app |-> [app EXCEPT ![n] = c], res |-> r]
        PROVE  app' = [app EXCEPT ![n] = c] /\ o.res # "ok"
    BY <2>1, <2>4 DEF Stopped
  <2>5. QED
    BY <2>2, <2>3, <2>4
<1>6. /\ \A i \in 0 .. Len(session.req.image) - 1 : i # n => app'[i] = app[i]
      /\ app'[n] \in (IF o.res = "ok" THEN {chunk, Torn} ELSE {app[n], Torn})
  BY <1>2, <1>5 DEF TypeOK
<1>7. CASE o.res = "ok"
  <2>1. session' = [session EXCEPT !.running = Append(session.running, chunk)]
    BY <1>1, <1>7
  <2>2. /\ Len(Append(session.running, chunk)) = n + 1
        /\ Append(session.running, chunk)[n + 1] = chunk
        /\ \A i \in 0 .. n - 1 : Append(session.running, chunk)[i + 1] = session.running[i + 1]
    BY <1>2, <1>3, AppendProperties DEF TypeOK
  <2>3. /\ session'.req = session.req
        /\ session'.running = Append(session.running, chunk)
    BY <2>1 DEF TypeOK
  <2>4. ASSUME NEW i \in 0 .. Len(session.req.image) - 1
        PROVE  app'[i] \in {Torn, IF i < n + 1 THEN session'.running[i + 1] ELSE Erased}
    <3>1. CASE i < n
      BY <1>2, <1>3, <1>6, <2>2, <2>3, <3>1 DEF FlashHoldsWritten
    <3>2. CASE i = n
      BY <1>3, <1>6, <1>7, <2>2, <2>3, <3>2
    <3>3. CASE i > n
      BY <1>2, <1>3, <1>6, <3>3 DEF FlashHoldsWritten
    <3>4. QED
      BY <1>3, <3>1, <3>2, <3>3
  <2>5. QED
    BY <2>2, <2>3, <2>4 DEF FlashHoldsWritten
<1>8. CASE o.res = "fault"
  <2>1. session' = session
    BY <1>1, <1>8
  <2>2. QED
    BY <1>4, <1>6, <1>8, <2>1 DEF FlashHoldsWritten
<1>9. CASE o.res = "cut"
  BY <1>1, <1>9, HoldsKept DEF PowerUp, NoSession
<1>10. QED
  BY <1>1, <1>7, <1>8, <1>9

\* COMMIT writes no chunk.
LEMMA CommitHolds ==
  ASSUME TypeOK, FlashHoldsWritten, NEW seq, NEW image, CommitSession(seq, image)
  PROVE  FlashHoldsWritten'
<1>1. app' = app
  BY DEF CommitSession, CommitRejected, CommitRefused, CommitStored, flash
<1>2. session' = session \/ session'.state # "OPEN"
  BY DEF CommitSession, CommitRejected, CommitRefused, CommitStored, PowerUp, NoSession, TypeOK
<1>3. QED
  BY <1>1, <1>2, HoldsKept

\* Every step keeps what was written.
LEMMA NextHolds == BootInv /\ FlashHoldsWritten /\ [Next]_vars => FlashHoldsWritten'
<1> SUFFICES ASSUME BootInv, FlashHoldsWritten, [Next]_vars PROVE FlashHoldsWritten'
  OBVIOUS
<1> USE DEF BootInv
<1>1. ASSUME NEW req \in Requests, BeginSession(req) PROVE FlashHoldsWritten'
  <2>1. CASE BeginRejected(req)
    BY <2>1, HoldsKept DEF BeginRejected, flash
  <2>2. CASE BeginSigned(req)
    BY <2>2 DEF BeginSigned, OpenSession, FlashHoldsWritten
  <2>3. CASE BeginUnsigned(req)
    <3>1. OpenSession(req).running = <<>>
      BY DEF OpenSession
    <3>2. QED
      BY <2>3, <3>1, OpenFits, EraseSessionAppHolds DEF BeginUnsigned
  <2>4. QED
    BY <1>1, <2>1, <2>2, <2>3 DEF BeginSession
<1>2. ASSUME NEW m \in Manifests, SetManifest(m) PROVE FlashHoldsWritten'
  <2>1. CASE SetManifestOnly(m)
    BY <2>1, HoldsKept DEF SetManifestOnly, flash
  <2>2. CASE SetManifestErasing(m)
    <3>1. FitsSlot(session)
      BY <2>2 DEF SetManifestErasing, ManifestError, TypeOK, FitsSlot
    <3>2. session.running = <<>>
      BY <2>2, <3>1 DEF SetManifestErasing, ErasedBeforeWritten, FitsSlot
    <3>3. QED
      BY <2>2, <3>1, <3>2, EraseSessionAppHolds DEF SetManifestErasing
  <2>3. QED
    BY <1>2, <2>1, <2>2 DEF SetManifest
<1>3. ASSUME NEW seq \in Seqs, NEW d \in DataPayload, WriteData(seq, d)
      PROVE  FlashHoldsWritten'
  BY <1>3, WriteDataHolds, HoldsKept DEF WriteData, DataRejected, flash
<1>4. ASSUME NEW seq \in Seqs, NEW image \in CommitPayload, CommitSession(seq, image)
      PROVE  FlashHoldsWritten'
  BY <1>4, CommitHolds
<1>5. CASE Abort \/ ClearMetadata \/ Reboot \/ VerifyImage \/ BootApp
           \/ (\E op \in Refusable : Malformed(op)) \/ Query \/ (\E f : RepeatedFrame(f))
  BY <1>5, HoldsKept
     DEF Abort, ClearMetadata, ClearRejected, ClearErasing, Reboot, VerifyImage, BootApp,
         Malformed, Query, RepeatedFrame, PowerUp, NoSession, flash
<1>6. CASE Poll \/ TryBootApp \/ (\E r \in BOOLEAN : AppResets(r)) \/ PowerCycle
  BY <1>6, HoldsKept DEF Poll, TryBootApp, AppResets, PowerCycle, PowerUp, NoSession, flash
<1>7. CASE UNCHANGED vars
  BY <1>7, HoldsKept DEF vars, flash
<1>8. QED
  BY <1>1, <1>2, <1>3, <1>4, <1>5, <1>6, <1>7 DEF Next

\* The chunks bootloader_write_data counted as written are in flash, or read
\* as torn, and the rest of the session's part of the slot holds no old content.
THEOREM WrittenChunksAreHeld == Spec => []FlashHoldsWritten
<1>1. Init => ErasedBeforeWritten /\ AckedBoots /\ FlashHoldsWritten
  BY DEF Init, NoSession, ErasedBeforeWritten, AckedBoots, FlashHoldsWritten
<1>2. QED
  BY <1>1, NextBoots, NextHolds, TypeCorrect, PTL DEF Spec, BootInv

-----------------------------------------------------------------------------
(* GET_STATUS tells the truth. *)

\* A step that reports READY or ERROR, or leaves the report and all it speaks
\* of alone.
LEMMA StatusKept ==
  ASSUME StatusTruthful,
         status' \in {"READY", "ERROR"} \/ UNCHANGED <<status, session, acked>>
  PROVE  StatusTruthful'
  BY DEF StatusTruthful

\* A refused command reports ERROR.
LEMMA AnswerError ==
  ASSUME NEW f, NEW err, err # "NONE", NEW okStatus, Answer(f, err, okStatus)
  PROVE  status' = "ERROR"
  BY DEF Answer

\* bootloader_erase_session_app reports RECEIVING once the pages are erased.
LEMMA EraseSessionAppTruthful ==
  ASSUME NEW f, NEW s, FitsSlot(s), NEW k, EraseSessionApp(f, s, k)
  PROVE  StatusTruthful'
<1>1. \/ status' \in {"READY", "ERROR"}
      \/ session' = [s EXCEPT !.erased = TRUE] /\ status' = "RECEIVING"
  BY DEF EraseSessionApp, Answer, PowerUp
<1>2. QED
  BY <1>1 DEF StatusTruthful, FitsSlot

\* BEGIN reports RECEIVING for the session it opens.
LEMMA BeginTruthful ==
  ASSUME StatusTruthful, NEW req \in Requests, BeginSession(req)
  PROVE  StatusTruthful'
<1>1. CASE BeginRejected(req)
  BY <1>1, AnswerError, StatusKept DEF BeginRejected
<1>2. CASE BeginSigned(req)
  BY <1>2 DEF BeginSigned, OpenSession, Answer, StatusTruthful
<1>3. CASE BeginUnsigned(req)
  BY <1>3, OpenFits, EraseSessionAppTruthful DEF BeginUnsigned
<1>4. QED
  BY <1>1, <1>2, <1>3 DEF BeginSession

\* SET_MANIFEST keeps the report, or erases for it.
LEMMA SetManifestTruthful ==
  ASSUME TypeOK, StatusTruthful, NEW m \in Manifests, SetManifest(m)
  PROVE  StatusTruthful'
<1>1. CASE SetManifestOnly(m)
  BY <1>1, StatusKept DEF SetManifestOnly, Answer
<1>2. CASE SetManifestErasing(m)
  <2>1. FitsSlot(session)
    BY <1>2 DEF SetManifestErasing, ManifestError, TypeOK, FitsSlot
  <2>2. QED
    BY <1>2, <2>1, EraseSessionAppTruthful DEF SetManifestErasing
<1>3. QED
  BY <1>1, <1>2 DEF SetManifest

\* DATA keeps the report of the open session.
LEMMA WriteDataTruthful ==
  ASSUME TypeOK, StatusTruthful, NEW seq, NEW d \in DataPayload, DataWritten(seq, d)
  PROVE  StatusTruthful'
<1>1. session.state = "OPEN" /\ session.erased
  BY DataInSlot DEF DataWritten
<1>2. \/ status' \in {"READY", "ERROR"}
      \/ status' = status /\ session' = session /\ acked' = acked
      \/ status' = status /\ \E r : session' = [session EXCEPT !.running = r]
  BY DEF DataWritten, Answer, PowerUp
<1>3. ASSUME NEW r, session' = [session EXCEPT !.running = r]
      PROVE  session'.state = "OPEN" /\ session'.erased
  BY <1>1, <1>3 DEF TypeOK
<1>4. QED
  BY <1>1, <1>2, <1>3, StatusKept DEF StatusTruthful

\* COMMIT reports COMMITTED once the metadata is stored in every copy.
LEMMA CommitTruthful ==
  ASSUME TypeOK, StatusTruthful, NEW seq, NEW image, CommitSession(seq, image)
  PROVE  StatusTruthful'
<1>1. CASE CommitRejected(seq, image) \/ CommitRefused(seq, image)
  BY <1>1, AnswerError, StatusKept DEF CommitRejected, CommitRefused
<1>2. CASE CommitStored(seq, image)
  <2> DEFINE meta == FinalMeta(security, session.req)
  <2>1. \/ status' \in {"READY", "ERROR"}
        \/ /\ status' = "COMMITTED" /\ acked' = meta
           /\ session' = [session EXCEPT !.state = "DONE"]
    BY <1>2 DEF CommitStored, Answer, PowerUp
  <2>2. session.state = "OPEN"
    BY <1>2 DEF CommitStored, CommitError
  <2>3. meta # None /\ meta.req = session.req
    BY <2>2, FinalMetaTyped, SecurityAssumption DEF FinalMeta
  <2>4. session' = [session EXCEPT !.state = "DONE"]
          => session'.state = "DONE" /\ session'.req = session.req
    BY DEF TypeOK
  <2>5. QED
    BY <2>1, <2>3, <2>4, StatusKept DEF StatusTruthful
<1>3. QED
  BY <1>1, <1>2 DEF CommitSession

\* Every step keeps the report true.
LEMMA NextTruthful == TypeOK /\ StatusTruthful /\ [Next]_vars => StatusTruthful'
<1> SUFFICES ASSUME TypeOK, StatusTruthful, [Next]_vars PROVE StatusTruthful'
  OBVIOUS
<1>1. ASSUME NEW seq \in Seqs, NEW d \in DataPayload, WriteData(seq, d) PROVE StatusTruthful'
  BY <1>1, WriteDataTruthful, AnswerError, StatusKept DEF WriteData, DataRejected
<1>2. CASE Abort \/ ClearMetadata \/ Reboot \/ VerifyImage \/ BootApp
           \/ (\E op \in Refusable : Malformed(op)) \/ Query \/ (\E f : RepeatedFrame(f))
  BY <1>2, StatusKept
     DEF Abort, ClearMetadata, ClearRejected, ClearErasing, Reboot, VerifyImage, BootApp,
         Malformed, Query, RepeatedFrame, Answer, PowerUp
<1>3. CASE Poll \/ TryBootApp \/ (\E r \in BOOLEAN : AppResets(r)) \/ PowerCycle
  BY <1>3, StatusKept DEF Poll, TryBootApp, AppResets, PowerCycle, PowerUp
<1>4. CASE UNCHANGED vars
  BY <1>4, StatusKept DEF vars
<1>5. QED
  BY <1>1, <1>2, <1>3, <1>4, BeginTruthful, SetManifestTruthful, CommitTruthful DEF Next

\* GET_STATUS says COMMITTED only while the session is done and its image
\* stored and untouched, RECEIVING only while a session is open and, if it is
\* unsigned, its pages are erased.
THEOREM StatusIsTrue == Spec => []StatusTruthful
<1>1. Init => StatusTruthful
  BY DEF Init, StatusTruthful
<1>2. QED
  BY <1>1, NextTruthful, TypeCorrect, PTL DEF Spec

-----------------------------------------------------------------------------
(* What BEGIN and SET_MANIFEST accepted, COMMIT accepts.                   *)
(*                                                                         *)
(* CompleteSessionCommits compares checks made at BEGIN with checks made   *)
(* at COMMIT.  Accepted keeps the results of the first until the second:   *)
(* in particular that the floor BEGIN compared with is still the one in    *)
(* flash, unless a COMMIT began to store a new one (security.final).       *)

Accepted ==
  /\ security.valid => security.manifest \in Manifests
  /\ session.state = "OPEN" =>
       LET flags == session.req.flags
       IN /\ "sig" \notin flags => ~UnsignedRefused /\ flags = {}
          /\ NeedsFloor(flags) /\ ~security.final /\ SelectFloor(copies) # None
               => ~(session.req.secver < SelectFloor(copies))

\* A step that leaves the session, the context and the metadata alone, or
\* closes both.
LEMMA AcceptedKept ==
  ASSUME Accepted,
         \/ UNCHANGED <<session, security, copies>>
         \/ session' = NoSession /\ security' = NoSecurity
  PROVE  Accepted'
  BY DEF Accepted, NoSession, NoSecurity

\* A request BEGIN accepts.
LEMMA BeginAccepts ==
  ASSUME NEW req, BeginError(req) = "NONE"
  PROVE  /\ "sig" \notin req.flags => ~UnsignedRefused /\ req.flags = {}
         /\ NeedsFloor(req.flags) /\ SelectFloor(copies) # None
              => ~(req.secver < SelectFloor(copies))
  BY DEF BeginError, SecurityBeginError, EffectiveRollbackFloor

\* A step that opens or keeps a session which was accepted, with the metadata
\* it was accepted against.
LEMMA OpenAccepted ==
  ASSUME BootInv, Accepted, NEW req \in Requests, BeginSession(req)
  PROVE  Accepted'
<1>1. CASE BeginRejected(req)
  BY <1>1, AcceptedKept DEF BeginRejected, flash
<1>2. CASE BeginSigned(req)
  <2>1. BeginError(req) = "NONE" /\ copies' = copies
        /\ session' = OpenSession(req) /\ security' = NewSecurity(req)
    BY <1>2 DEF BeginSigned, flash
  <2>2. QED
    BY <2>1, BeginAccepts DEF Accepted, OpenSession, NewSecurity, NoSecurity
<1>3. CASE BeginUnsigned(req)
  <2>1. BeginError(req) = "NONE" /\ copies' = copies
    BY <1>3 DEF BeginUnsigned, EraseSessionApp
  <2>2. \/ session' = [OpenSession(req) EXCEPT !.erased = TRUE] /\ security' = NewSecurity(req)
        \/ session' = NoSession /\ security' = NoSecurity
    BY <1>3 DEF BeginUnsigned, EraseSessionApp, PowerUp
  <2>3. QED
    BY <2>1, <2>2, BeginAccepts, AcceptedKept
       DEF Accepted, OpenSession, NewSecurity, NoSecurity
<1>4. QED
  BY <1>1, <1>2, <1>3 DEF BeginSession

\* SET_MANIFEST keeps what BEGIN accepted.
LEMMA SetManifestAccepted ==
  ASSUME TypeOK, Accepted, NEW m \in Manifests, SetManifest(m)
  PROVE  Accepted'
<1> DEFINE k == WithManifest(security, m)
<1>1. copies' = copies
  BY DEF SetManifest, SetManifestOnly, SetManifestErasing, EraseSessionApp, flash
<1>2. \/ session' = NoSession /\ security' = NoSecurity
      \/ session' \in {session, [session EXCEPT !.erased = TRUE]} /\ security' \in {security, k}
  BY DEF SetManifest, SetManifestOnly, SetManifestErasing, EraseSessionApp, PowerUp
<1>3. /\ k.valid /\ k.manifest = m /\ k.final = security.final
      /\ [session EXCEPT !.erased = TRUE].state = session.state
      /\ [session EXCEPT !.erased = TRUE].req = session.req
  BY DEF TypeOK, WithManifest
<1>4. QED
  BY <1>1, <1>2, <1>3, AcceptedKept DEF Accepted

\* DATA keeps what BEGIN accepted.
LEMMA WriteDataAccepted ==
  ASSUME TypeOK, Accepted, NEW seq, NEW d, DataWritten(seq, d)
  PROVE  Accepted'
<1> DEFINE chunk == Plaintext(security, d.offset, d.chunk)
<1>1. copies' = copies
  BY DEF DataWritten
<1>2. \/ session' = NoSession /\ security' = NoSecurity
      \/ UNCHANGED <<session, security>>
      \/ /\ session' = [session EXCEPT !.running = Append(session.running, chunk)]
         /\ security' = [security EXCEPT !.hashed = Append(security.hashed, chunk)]
  BY DEF DataWritten, PowerUp, WithPlaintext
<1>3. ASSUME NEW r, session' = [session EXCEPT !.running = r]
      PROVE  session'.state = session.state /\ session'.req = session.req
  BY <1>3 DEF TypeOK
<1>4. ASSUME NEW h, security' = [security EXCEPT !.hashed = h]
      PROVE  /\ security'.valid = security.valid /\ security'.manifest = security.manifest
             /\ security'.final = security.final
  BY <1>4 DEF TypeOK
<1>5. QED
  BY <1>1, <1>2, <1>3, <1>4, AcceptedKept DEF Accepted

\* COMMIT touches the floor only once the hash is final.
LEMMA CommitAccepted ==
  ASSUME TypeOK, Accepted, NEW seq, NEW image, CommitSession(seq, image)
  PROVE  Accepted'
<1>1. \/ UNCHANGED <<session, security, copies>>
      \/ session' = NoSession /\ security' = NoSecurity
      \/ security' = Finalized(security)
           /\ session' \in {session, [session EXCEPT !.state = "DONE"]}
  BY DEF CommitSession, CommitRejected, CommitRefused, CommitStored, PowerUp, flash
<1>2. /\ Finalized(security).valid = security.valid
      /\ Finalized(security).manifest = security.manifest
      /\ Finalized(security).final
      /\ [session EXCEPT !.state = "DONE"].state = "DONE"
  BY DEF Finalized, TypeOK
<1>3. QED
  BY <1>1, <1>2, AcceptedKept DEF Accepted

\* Every step keeps what was accepted.
LEMMA NextAccepted == BootInv /\ Accepted /\ [Next]_vars => Accepted'
<1> SUFFICES ASSUME BootInv, Accepted, [Next]_vars PROVE Accepted'
  OBVIOUS
<1> USE DEF BootInv
<1>1. ASSUME NEW seq \in Seqs, NEW d \in DataPayload, WriteData(seq, d) PROVE Accepted'
  BY <1>1, WriteDataAccepted, AcceptedKept DEF WriteData, DataRejected, flash
<1>2. CASE ClearMetadata
  <2>1. \/ UNCHANGED <<session, security, copies>>
        \/ session' = NoSession /\ security' = NoSecurity
        \/ UNCHANGED <<session, security>> /\ session.state # "OPEN"
    BY <1>2 DEF ClearMetadata, ClearRejected, ClearErasing, PowerUp, flash
  <2>2. QED
    BY <2>1, AcceptedKept DEF Accepted
<1>3. CASE Abort \/ Reboot \/ VerifyImage \/ BootApp
           \/ (\E op \in Refusable : Malformed(op)) \/ Query \/ (\E f : RepeatedFrame(f))
  BY <1>3, AcceptedKept
     DEF Abort, Reboot, VerifyImage, BootApp, Malformed, Query, RepeatedFrame, flash
<1>4. CASE Poll \/ TryBootApp \/ (\E r \in BOOLEAN : AppResets(r)) \/ PowerCycle
  BY <1>4, AcceptedKept DEF Poll, TryBootApp, AppResets, PowerCycle, PowerUp, flash
<1>5. CASE UNCHANGED vars
  BY <1>5, AcceptedKept DEF vars, flash
<1>6. QED
  BY <1>1, <1>2, <1>3, <1>4, <1>5, OpenAccepted, SetManifestAccepted, CommitAccepted DEF Next

\* All that is known of an update between two commands.
UpdateInv ==
  /\ BootInv
  /\ SessionMatchesSecurity
  /\ FlashHoldsWritten
  /\ Accepted

\* It holds always.
LEMMA UpdateInvHolds == Spec => []UpdateInv
<1>1. Init => ErasedBeforeWritten /\ AckedBoots /\ FlashHoldsWritten /\ Accepted
              /\ SessionMatchesSecurity
  BY DEF Init, NoSession, NoSecurity, ErasedBeforeWritten, AckedBoots, FlashHoldsWritten,
         Accepted, SessionMatchesSecurity
<1>2. QED
  BY <1>1, NextMatches, NextBoots, NextHolds, NextAccepted, TypeCorrect, PTL
     DEF Spec, BootInv, UpdateInv

\* A complete image reads back from flash.
LEMMA CompleteReads ==
  ASSUME TypeOK, FlashHoldsWritten, SessionComplete
  PROVE  AppReads(app, session.req.image) /\ Reads(app[0]) \in VectorOk
<1> DEFINE image == session.req.image
<1>1. /\ session.state = "OPEN" /\ session.erased /\ session.running = image
      /\ image[1] \in VectorOk /\ ~HasTorn(app, Len(image))
  BY DEF SessionComplete
<1>2. image \in Seq(Chunk) /\ Len(image) \in 1 .. SlotChunks
  BY <1>1, SecurityAssumption DEF TypeOK, RequestType
<1>3. ASSUME NEW i \in 1 .. Len(image)
      PROVE  Reads(app[i - 1]) = image[i]
  <2>1. i - 1 \in Slots /\ i - 1 \in 0 .. Len(image) - 1 /\ i - 1 < Len(image)
    BY <1>2, FlashAssumption DEF Slots
  <2>2. app[i - 1] # Torn
    BY <1>1, <2>1 DEF HasTorn
  <2>3. app[i - 1] = image[i]
    BY <1>1, <1>2, <2>1, <2>2 DEF FlashHoldsWritten
  <2>4. image[i] \in Chunk
    BY <1>2
  <2>5. QED
    BY <2>3, <2>4, FlashAssumption DEF Reads
<1>4. Reads(app[0]) = image[1]
  <2>1. 1 \in 1 .. Len(image) /\ 1 - 1 = 0
    BY <1>2, FlashAssumption
  <2>2. QED
    BY <1>3, <2>1
<1>5. QED
  BY <1>1, <1>2, <1>3, <1>4, FlashAssumption DEF AppReads

\* What COMMIT checks, it finds as BEGIN and SET_MANIFEST left it.
LEMMA CompleteCommits == UpdateInv => CompleteSessionCommits
<1> SUFFICES ASSUME UpdateInv, SessionComplete, ~security.final
             PROVE  CommitFinalError = "NONE"
  BY DEF CompleteSessionCommits
<1> DEFINE req == session.req
           meta == FinalMeta(security, req)
<1>1. TypeOK /\ SessionMatchesSecurity /\ Accepted /\ FlashHoldsWritten
  BY DEF UpdateInv, BootInv
<1>2. /\ session.state = "OPEN" /\ session.erased /\ session.running = req.image
      /\ ~HasTorn(app, Len(req.image))
  BY DEF SessionComplete
<1>3. AppReads(app, req.image) /\ Reads(app[0]) \in VectorOk
  BY <1>1, CompleteReads
<1>4. Digest(security) = req.image
  BY <1>1, <1>2 DEF SessionMatchesSecurity, Digest
<1>5. security.valid => security.manifest.sha = req.image /\ security.manifest.signed
  BY <1>1, <1>2, SecurityAssumption DEF SessionMatchesSecurity, Accepted
<1>6. FinalizeError(security) = "NONE"
  BY <1>4, <1>5 DEF FinalizeError
<1>7. meta.req = req /\ meta.sha = req.image /\ ("sig" \in req.flags => meta.signed)
  BY <1>1, <1>2, <1>4, <1>5 DEF FinalMeta, SessionMatchesSecurity
<1>8. "sig" \notin req.flags => ~UnsignedRefused /\ req.flags = {}
  BY <1>1, <1>2 DEF Accepted
<1>9. CandidateFloor(req) # None => NeedsFloor(req.flags)
  BY DEF CandidateFloor
<1>10. NeedsFloor(req.flags) => CandidateFloor(req) = req.secver /\ req.secver \in Nat
  <2>1. req.secver \in Nat /\ SelectFloor(copies) \in Nat \cup {None}
    BY <1>1, <1>2, SelectTyped, SecurityAssumption DEF TypeOK, RequestType
  <2>2. NeedsFloor(req.flags) /\ SelectFloor(copies) # None
          => ~(req.secver < SelectFloor(copies))
    BY <1>1, <1>2 DEF Accepted
  <2>3. QED
    BY <2>1, <2>2 DEF CandidateFloor
<1>11. ASSUME NEW floor, NeedsFloor(req.flags) => floor = req.secver
       PROVE  SecurityVerifyError(app, meta, floor) = "NONE"
  <2>1. NeedsFloor(req.flags) => ~(floor = None \/ req.secver < floor)
    BY <1>10, <1>11, FlashAssumption
  <2>2. QED
    BY <1>2, <1>3, <1>7, <1>8, <2>1 DEF SecurityVerifyError
<1>12. VerifyError(meta, CandidateFloor(req)) = "NONE"
  <2>1. NeedsFloor(req.flags) => CandidateFloor(req) # None
    BY <1>10, FlashAssumption
  <2>2. QED
    BY <1>2, <1>3, <1>7, <1>10, <1>11, <2>1 DEF VerifyError
<1>13. QED
  BY <1>6, <1>12 DEF CommitFinalError

\* Once the announced image is received and flash reads back, the first COMMIT
\* is not refused, whatever failed and was retried on the way: BEGIN and
\* SET_MANIFEST refused early whatever COMMIT would refuse.
THEOREM CompleteSessionIsCommitted == Spec => []CompleteSessionCommits
  BY UpdateInvHolds, CompleteCommits, PTL

-----------------------------------------------------------------------------
(* A jump lands in the image verified for it.                              *)
(*                                                                         *)
(* Between BOOT_APP and the jump 100 ms later the host may go on writing   *)
(* an open session, whose metadata is not the one BOOT_APP verified.  What *)
(* protects the verified image is that DATA only programs cells that are   *)
(* erased or torn (FlashHoldsWritten), and that such a cell is no part of  *)
(* an image that reads back: so long as no chunk of an image looks erased. *)

\* What bootloader_try_boot_app and BOOT_APP find valid can be run.
LEMMA InstalledRuns ==
  ASSUME TypeOK, InstalledError = "NONE"
  PROVE  Runnable(SelectMeta(copies))
<1> DEFINE meta == SelectMeta(copies)
<1>1. meta # None /\ VerifyError(meta, None) = "NONE"
  BY DEF InstalledError
<1>2. /\ Reads(app[0]) \in VectorOk /\ AppReads(app, meta.req.image)
      /\ SecurityVerifyError(app, meta, SelectFloor(copies)) = "NONE"
  BY <1>1 DEF VerifyError
<1>3. RequireSigned => meta.signed
  BY <1>2 DEF SecurityVerifyError, UnsignedRefused
<1>4. QED
  BY <1>1, <1>2, <1>3 DEF Runnable

\* Programming a chunk changes no other.
LEMMA WriteLeaves ==
  ASSUME NEW A \in [Slots -> Cell], NEW n, NEW c, NEW o \in WriteOutcomes(A, n, c)
  PROVE  \A i \in Slots : i # n => o.app[i] = A[i]
  BY DEF WriteOutcomes

\* DATA leaves an image that reads back alone.
LEMMA WriteDataKeepsRunnable ==
  ASSUME Blank \notin Chunk, TypeOK, FlashHoldsWritten, NEW meta \in Meta, Runnable(meta),
         NEW seq, NEW d \in DataPayload, DataWritten(seq, d)
  PROVE  /\ Reads(app'[0]) \in VectorOk
         /\ AppReads(app', meta.req.image)
<1> DEFINE n == d.offset
           image == meta.req.image
<1>1. /\ n \in Slots /\ session.state = "OPEN" /\ session.erased
      /\ n = Len(session.running) /\ n < Len(session.req.image)
  BY DataInSlot DEF DataWritten
<1>2. n \in 0 .. Len(session.req.image) - 1
  BY <1>1, FlashAssumption DEF Slots, TypeOK
<1>3. app[n] \in {Torn, Erased}
  BY <1>1, <1>2 DEF FlashHoldsWritten
<1>4. Reads(app[n]) \notin Chunk
  BY <1>3, FlashAssumption DEF Reads
<1>5. PICK o \in WriteOutcomes(app, n, Plaintext(security, n, d.chunk)) : app' = o.app
  BY DEF DataWritten
<1>6. \A i \in Slots : i # n => app'[i] = app[i]
  BY <1>5, WriteLeaves DEF TypeOK
<1>7. n # 0
  BY <1>4, FlashAssumption DEF Runnable
<1>8. image \in Seq(Chunk) /\ Len(image) \in Nat /\ Len(image) <= SlotChunks
  BY SecurityAssumption, LenProperties DEF Meta, RequestType, Runnable, AppReads
<1>9. ASSUME NEW i \in 1 .. Len(image)
      PROVE  Reads(app'[i - 1]) = image[i]
  <2>1. i - 1 \in Slots /\ Reads(app[i - 1]) = image[i]
    BY <1>8, FlashAssumption DEF Slots, Runnable, AppReads
  <2>2. image[i] \in Chunk
    BY <1>8
  <2>3. i - 1 # n
    BY <1>4, <2>1, <2>2
  <2>4. QED
    BY <1>6, <2>1, <2>3
<1>10. app'[0] = app[0]
  BY <1>6, <1>7, FlashAssumption DEF Slots
<1>11. QED
  BY <1>8, <1>9, <1>10 DEF Runnable, AppReads

\* A step that leaves the slot alone, schedules no jump and makes none.
LEMMA JumpKept ==
  ASSUME JumpTargetVerified, app' = app, mode' # "app",
         pending' = pending \/ pending'.action # "BOOT_APP"
  PROVE  JumpTargetVerified'
  BY DEF JumpTargetVerified, Runnable

\* bootloader_erase_session_app cancels the jump.
LEMMA EraseSessionAppCancels ==
  ASSUME NEW f, NEW s, NEW k, EraseSessionApp(f, s, k)
  PROVE  JumpTargetVerified'
  BY DEF EraseSessionApp, Answer, PowerUp, NoPending, JumpTargetVerified

\* DATA keeps the scheduled jump and its target.
LEMMA WriteDataJumps ==
  ASSUME Blank \notin Chunk, TypeOK, FlashHoldsWritten, JumpTargetVerified,
         NEW seq, NEW d \in DataPayload, DataWritten(seq, d)
  PROVE  JumpTargetVerified'
<1>1. mode' # "app" /\ (pending' = pending \/ pending' = NoPending)
  BY DEF DataWritten, Answer, PowerUp
<1>2. CASE pending' = pending /\ pending.action = "BOOT_APP"
  <2>1. Runnable(pending.meta) /\ pending.meta \in Meta
    BY <1>2 DEF JumpTargetVerified, Runnable, TypeOK
  <2>2. Reads(app'[0]) \in VectorOk /\ AppReads(app', pending.meta.req.image)
    BY <2>1, WriteDataKeepsRunnable
  <2>3. QED
    BY <1>1, <1>2, <2>1, <2>2 DEF JumpTargetVerified, Runnable
<1>3. CASE ~(pending' = pending /\ pending.action = "BOOT_APP")
  BY <1>1, <1>3 DEF JumpTargetVerified, NoPending
<1>4. QED
  BY <1>2, <1>3

\* COMMIT changes neither the slot nor the scheduled jump.
LEMMA CommitJumps ==
  ASSUME JumpTargetVerified, NEW seq, NEW image, CommitSession(seq, image)
  PROVE  JumpTargetVerified'
<1>1. app' = app /\ mode' # "app" /\ (pending' = pending \/ pending' = NoPending)
  BY DEF CommitSession, CommitRejected, CommitRefused, CommitStored, Answer, PowerUp, flash
<1>2. QED
  BY <1>1, JumpKept DEF NoPending

\* Every step keeps the target of the jump runnable.
LEMMA NextJumps ==
  Blank \notin Chunk /\ UpdateInv /\ JumpTargetVerified /\ [Next]_vars => JumpTargetVerified'
<1> SUFFICES ASSUME Blank \notin Chunk, UpdateInv, JumpTargetVerified, [Next]_vars
             PROVE  JumpTargetVerified'
  OBVIOUS
<1>1. TypeOK /\ FlashHoldsWritten
  BY DEF UpdateInv, BootInv
<1>2. ASSUME NEW req \in Requests, BeginSession(req) PROVE JumpTargetVerified'
  BY <1>2, JumpKept, EraseSessionAppCancels
     DEF BeginSession, BeginRejected, BeginSigned, BeginUnsigned, Answer, flash
<1>3. ASSUME NEW m \in Manifests, SetManifest(m) PROVE JumpTargetVerified'
  BY <1>3, JumpKept, EraseSessionAppCancels
     DEF SetManifest, SetManifestOnly, SetManifestErasing, Answer, flash
<1>4. ASSUME NEW seq \in Seqs, NEW d \in DataPayload, WriteData(seq, d)
      PROVE  JumpTargetVerified'
  BY <1>1, <1>4, WriteDataJumps, JumpKept DEF WriteData, DataRejected, Answer, flash
<1>5. CASE BootApp
  <2>1. app' = app /\ mode' # "app"
    BY <1>5 DEF BootApp, Answer, flash
  <2>2. CASE InstalledError = "NONE"
    <3>1. pending'.meta = SelectMeta(copies) /\ pending'.action = "BOOT_APP"
      BY <1>5, <2>2 DEF BootApp
    <3>2. QED
      BY <1>1, <2>1, <2>2, <3>1, InstalledRuns DEF JumpTargetVerified, Runnable
  <2>3. CASE InstalledError # "NONE"
    BY <1>5, <2>1, <2>3, JumpKept DEF BootApp
  <2>4. QED
    BY <2>2, <2>3
<1>6. CASE Reboot
  BY <1>6, JumpKept DEF Reboot, Answer, flash
<1>7. CASE Abort \/ ClearMetadata \/ VerifyImage \/ (\E op \in Refusable : Malformed(op))
           \/ Query \/ (\E f : RepeatedFrame(f))
  BY <1>7, JumpKept
     DEF Abort, ClearMetadata, ClearRejected, ClearErasing, VerifyImage, Malformed, Query,
         RepeatedFrame, Answer, PowerUp, NoPending, flash
<1>8. CASE Poll
  <2>1. CASE pending.action = "REBOOT"
    BY <1>8, <2>1 DEF Poll, PowerUp, NoPending, JumpTargetVerified
  <2>2. CASE pending.action = "BOOT_APP"
    BY <1>8, <2>2 DEF Poll, NoPending, JumpTargetVerified, Runnable, flash
  <2>3. QED
    BY <1>8, <2>1, <2>2 DEF Poll
<1>9. CASE TryBootApp
  <2>1. app' = app /\ pending' = pending
    BY <1>9 DEF TryBootApp, flash
  <2>2. \/ mode' = "bl"
        \/ InstalledError = "NONE" /\ launched' = SelectMeta(copies)
    BY <1>9 DEF TryBootApp
  <2>3. QED
    BY <1>1, <2>1, <2>2, InstalledRuns, JumpKept DEF JumpTargetVerified, Runnable
<1>10. CASE (\E r \in BOOLEAN : AppResets(r)) \/ PowerCycle
  BY <1>10 DEF AppResets, PowerCycle, PowerUp, NoPending, JumpTargetVerified
<1>11. CASE UNCHANGED vars
  BY <1>11 DEF vars, flash, JumpTargetVerified, Runnable
<1>12. QED
  BY <1>2, <1>3, <1>4, <1>5, <1>6, <1>7, <1>8, <1>9, <1>10, <1>11, CommitJumps DEF Next

\* Where no chunk of an image is all 0xFF bytes, a jump lands in the image
\* verified for it: nothing between the BOOT_APP that checked it and the jump
\* changes that image, and a device that requires signatures ran one.
THEOREM JumpLandsInVerified == Blank \notin Chunk => (Spec => []JumpTargetVerified)
<1>1. Init => JumpTargetVerified
  BY DEF Init, NoPending, JumpTargetVerified
<1>2. SUFFICES ASSUME Blank \notin Chunk PROVE Spec => []JumpTargetVerified
  OBVIOUS
<1>3. UpdateInv /\ JumpTargetVerified /\ [Next]_vars => JumpTargetVerified'
  BY <1>2, NextJumps
<1>4. QED
  BY <1>1, <1>3, UpdateInvHolds, PTL DEF Spec

-----------------------------------------------------------------------------
(* Nothing is erased for an update nobody signed. *)

\* Only BEGIN of an unsigned request, SET_MANIFEST and DATA change the slot.
LEMMA WhoChangesApp ==
  ASSUME Next, app' # app
  PROVE  \/ \E req \in Requests : BeginUnsigned(req)
         \/ \E m \in Manifests : SetManifest(m) /\ SetManifestErasing(m)
         \/ \E seq \in Seqs, d \in DataPayload : WriteData(seq, d) /\ DataWritten(seq, d)
<1>1. ASSUME NEW req \in Requests, BeginSession(req)
      PROVE  BeginUnsigned(req)
  BY <1>1 DEF BeginSession, BeginRejected, BeginSigned, flash
<1>2. ASSUME NEW m \in Manifests, SetManifest(m)
      PROVE  SetManifestErasing(m)
  BY <1>2 DEF SetManifest, SetManifestOnly, flash
<1>3. ASSUME NEW seq \in Seqs, NEW d \in DataPayload, WriteData(seq, d)
      PROVE  DataWritten(seq, d)
  BY <1>3 DEF WriteData, DataRejected, flash
<1>4. ASSUME NEW seq \in Seqs, NEW image \in CommitPayload, CommitSession(seq, image)
      PROVE  FALSE
  BY <1>4 DEF CommitSession, CommitRejected, CommitRefused, CommitStored, flash
<1>5. ~(Abort \/ ClearMetadata \/ Reboot \/ VerifyImage \/ BootApp
          \/ (\E op \in Refusable : Malformed(op)) \/ Query \/ (\E f : RepeatedFrame(f)))
  BY DEF Abort, ClearMetadata, ClearRejected, ClearErasing, Reboot, VerifyImage, BootApp,
         Malformed, Query, RepeatedFrame, flash
<1>6. ~(Poll \/ TryBootApp \/ (\E r \in BOOLEAN : AppResets(r)) \/ PowerCycle)
  BY DEF Poll, TryBootApp, AppResets, PowerCycle, flash
<1>7. QED
  BY <1>1, <1>2, <1>3, <1>4, <1>5, <1>6 DEF Next

\* A step that changes the slot, where unsigned updates are refused, answers a
\* SET_MANIFEST that verifies, or a DATA after one.
LEMMA ChangeIsSigned ==
  ASSUME UpdateInv, UnsignedRefused, Next, app' # app
  PROVE  /\ session.state = "OPEN"
         /\ \/ \E m \in Manifests : VerifiesFor(m, session.req) /\ SetManifest(m)
            \/ /\ security.valid /\ VerifiesFor(security.manifest, session.req)
               /\ \E seq \in Seqs, d \in DataPayload : WriteData(seq, d)
<1>1. TypeOK /\ SessionMatchesSecurity /\ Accepted
  BY DEF UpdateInv, BootInv
<1>2. ASSUME NEW req \in Requests, BeginUnsigned(req)
      PROVE  FALSE
  BY <1>2, BeginAccepts DEF BeginUnsigned
<1>3. ASSUME NEW m \in Manifests, SetManifestErasing(m)
      PROVE  session.state = "OPEN" /\ VerifiesFor(m, session.req)
  BY <1>1, <1>3
     DEF SetManifestErasing, ManifestError, SecurityManifestError, SessionMatchesSecurity,
         VerifiesFor
<1>4. ASSUME NEW seq \in Seqs, NEW d \in DataPayload, DataWritten(seq, d)
      PROVE  /\ session.state = "OPEN"
             /\ security.valid /\ VerifiesFor(security.manifest, session.req)
  <2>1. session.state = "OPEN" /\ session.erased
    BY <1>1, <1>4, DataInSlot DEF DataWritten
  <2>2. security.required
    BY <1>1, <2>1 DEF Accepted, SessionMatchesSecurity
  <2>3. QED
    BY <1>1, <2>1, <2>2 DEF SessionMatchesSecurity, VerifiesFor
<1>5. QED
  BY <1>2, <1>3, <1>4, WhoChangesApp

\* Where unsigned updates are refused, nothing changes the application but a
\* SET_MANIFEST whose manifest verifies for the open session, and the DATA of
\* a session whose manifest has: neither a BEGIN, first or second, nor a forged
\* manifest wipes it, whatever commands, failures and power cuts came before.
THEOREM NothingIsErasedUnsigned == Spec => NothingErasedUnsigned
<1>1. UpdateInv /\ [Next]_vars =>
        [UnsignedRefused /\ app' # app =>
           /\ session.state = "OPEN"
           /\ \/ \E m \in Manifests : VerifiesFor(m, session.req) /\ SetManifest(m)
              \/ /\ security.valid /\ VerifiesFor(security.manifest, session.req)
                 /\ \E seq \in Seqs, d \in DataPayload : WriteData(seq, d)]_vars
  BY ChangeIsSigned
<1>2. QED
  BY <1>1, UpdateInvHolds, PTL DEF Spec, NothingErasedUnsigned

==============================================================================
