---------------------------- MODULE BootSecurity ----------------------------
(***************************************************************************)
(* boot_security.c: the checks on a BEGIN request, on a signed manifest,   *)
(* on each chunk and on a committed image, and the security context they   *)
(* keep for a session (g_security).  The operators take the context as an  *)
(* argument; the module Bootloader holds it in a variable.                 *)
(*                                                                         *)
(* A CRC-32 or a SHA-256 of an image is the image itself (no collisions).  *)
(* sha256_final pads the running context in place, so a second final       *)
(* yields a digest of nothing the host sent: BadDigest.                    *)
(***************************************************************************)
EXTENDS BootFlash

CONSTANTS
  Requests,        \* the BEGIN requests hosts send
  Manifests,       \* the manifests hosts send
  BadDigest,       \* the digest of a context that was finalised before
  Xcrypt(_, _),    \* Xcrypt(i, c): the AES-CTR transform of chunk c at offset i
  AllowUnsigned,   \* AFFINE_BOOT_ALLOW_UNSIGNED_UPDATES
  RequireSigned,   \* AFFINE_BOOT_REQUIRE_SIGNED_UPDATES
  OptionalAR,      \* AFFINE_BOOT_ALLOW_OPTIONAL_ANTI_ROLLBACK
  RequireAR        \* AFFINE_BOOT_REQUIRE_ANTI_ROLLBACK_FOR_SIGNED

Flag == {"sig", "enc", "ar"}

\* A BEGIN request: whether target, board and layout match; the image its
\* size and CRC describe; the flags (any other flag is unsupported); the
\* feature, security and minimal source versions.
RequestType ==
  [target: BOOLEAN, image: Seq(Chunk), flags: SUBSET (Flag \cup {"other"}),
   version: Nat, secver: Nat, minsrc: Nat]

\* A manifest: the fields it shares with BEGIN, the SHA-256 of the plaintext,
\* and whether its signature verifies under the key it names.
ManifestType == [req: Requests, sha: Seq(Chunk), signed: BOOLEAN]

Meta == [req: Requests, sha: Seq(Chunk) \cup {BadDigest}, signed: BOOLEAN]

ASSUME SecurityAssumption ==
  /\ Requests \subseteq RequestType
  /\ Manifests \subseteq ManifestType
  /\ \A m \in Manifests : m.signed => m.sha = m.req.image
  /\ \A i \in Slots, c \in Chunk : Xcrypt(i, c) \in Chunk
  /\ {AllowUnsigned, RequireSigned, OptionalAR, RequireAR} \subseteq BOOLEAN
  /\ BadDigest \notin Seq(Chunk)
  /\ None \notin Requests \cup Manifests \cup Meta

NoSecurity ==
  [active |-> FALSE, required |-> FALSE, valid |-> FALSE, begin |-> None,
   manifest |-> None, hashed |-> <<>>, final |-> FALSE]

NeedsFloor(flags) == "ar" \in flags \/ (RequireAR /\ "sig" \in flags)

\* Mutation: both macros are needed to refuse an unsigned update.
UnsignedRefusedByBoth == RequireSigned /\ ~AllowUnsigned

UnsignedRefused == RequireSigned \/ ~AllowUnsigned

\* boot_security_begin; floor and installed are None when flash has none.
SecurityBeginError(req, floor, installed) ==
  IF ~(req.flags \subseteq Flag) THEN "UNSUPPORTED"
  ELSE IF "sig" \notin req.flags /\ UnsignedRefused THEN "SIGNATURE"
  ELSE IF "sig" \notin req.flags /\ req.flags # {} THEN "UNSUPPORTED"
  ELSE IF "ar" \in req.flags /\ ~OptionalAR /\ ~RequireAR THEN "ROLLBACK"
  ELSE IF NeedsFloor(req.flags) /\ floor # None /\ req.secver < floor THEN "ROLLBACK"
  ELSE IF installed # None /\ installed < req.minsrc THEN "UPGRADE_PATH"
  ELSE "NONE"

NewSecurity(req) ==
  [NoSecurity EXCEPT !.active = TRUE, !.required = "sig" \in req.flags, !.begin = req]

\* boot_security_set_manifest
SecurityManifestError(k, m) ==
  IF ~k.active \/ ~k.required THEN "BAD_STATE"
  ELSE IF k.valid THEN (IF m = k.manifest THEN "NONE" ELSE "BAD_STATE")
  ELSE IF m.req # k.begin THEN "MANIFEST"
  ELSE IF ~m.signed THEN "SIGNATURE"
  ELSE "NONE"

WithManifest(k, m) == [k EXCEPT !.manifest = m, !.valid = TRUE]

\* boot_security_transform_chunk
TransformError(k) ==
  IF ~k.active THEN "BAD_STATE"
  ELSE IF k.required /\ ~k.valid THEN "MANIFEST"
  ELSE "NONE"

Plaintext(k, i, chunk) == IF "enc" \in k.begin.flags THEN Xcrypt(i, chunk) ELSE chunk

\* boot_security_note_plaintext
WithPlaintext(k, chunk) == [k EXCEPT !.hashed = Append(@, chunk)]

\* boot_security_finalize_metadata: finalises the running hash, compares it
\* with the manifest's, and fills the metadata record in.
Digest(k) == IF k.final THEN BadDigest ELSE k.hashed

Finalized(k) == [k EXCEPT !.final = TRUE]

FinalizeError(k) ==
  IF k.valid /\ Digest(k) # k.manifest.sha THEN "SIGNATURE" ELSE "NONE"

FinalMeta(k, req) ==
  [req |-> req, sha |-> Digest(k), signed |-> k.valid /\ k.manifest.signed]

\* boot_security_verify_image_with_state; floor is the candidate state's, or
\* the one selected from flash.
SecurityVerifyError(app, meta, floor) ==
  LET flags == meta.req.flags
  IN IF "sig" \notin flags /\ UnsignedRefused THEN "SIGNATURE"
     ELSE IF "sig" \notin flags /\ flags # {} THEN "MANIFEST"
     ELSE IF NeedsFloor(flags) /\ (floor = None \/ meta.req.secver < floor) THEN "ROLLBACK"
     ELSE IF "sig" \notin flags THEN "NONE"
     ELSE IF ~meta.signed THEN "SIGNATURE"
     ELSE IF HasEcc /\ HasTorn(app, Len(meta.req.image)) THEN "FLASH"
     ELSE IF ~AppReads(app, meta.sha) THEN "SIGNATURE"
     ELSE "NONE"

==============================================================================
