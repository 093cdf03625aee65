---------------------------- MODULE FrameDecoder ----------------------------
(***************************************************************************)
(* boot_protocol.c: the decoder that finds frames in a stream of bytes.  A *)
(* header is the magic and one more byte, which stands for the rest of the *)
(* header: a value of Kind is a set of fields whose header CRC is right,   *)
(* any other value fails the CRC or the length check.  PayloadOf gives the *)
(* payload of each kind, which its payload CRC accepts and no other        *)
(* payload of that length passes (a CRC that collides is out of scope).    *)
(***************************************************************************)
EXTENDS Naturals, Sequences, SequencesExt

CONSTANTS
  Magic,       \* the bytes of BOOT_FRAME_MAGIC
  Kind,        \* the rest of a header whose CRC is right
  PayloadOf    \* the payload that goes with it

ASSUME FrameDecoderAssumption ==
  /\ Magic # <<>>
  /\ DOMAIN PayloadOf = Kind

VARIABLES
  header,      \* header_bytes[0 .. header_used - 1]
  payload,     \* payload[0 .. payload_used - 1]
  ready,       \* out_frame: the frame just completed, or NotReady
  fed          \* history: the bytes consumed since the decoder was last reset

decoderVars == <<header, payload, ready, fed>>

NotReady == <<>>
HeaderSize == Len(Magic) + 1
HeaderOf(kind) == Append(Magic, kind)
FrameOf(kind) == HeaderOf(kind) \o PayloadOf[kind]
Headers == {HeaderOf(kind) : kind \in Kind}
KindOf(h) == h[HeaderSize]

InFrame == header # <<>>
InPayload == Len(header) = HeaderSize

DecoderInit == header = <<>> /\ payload = <<>> /\ ready = NotReady /\ fed = <<>>

\* boot_decoder_magic_prefix_ok
MagicPrefixOk(h) == IsPrefix(h, Magic) \/ IsPrefix(Magic, h)

SuffixFrom(s, i) == SubSeq(s, i, Len(s))

\* Mutation: a header that fails is thrown away whole.
ResyncDropsAll(h) == <<>>

\* boot_decoder_resync: drop at least one byte, and go on while what is left
\* is not the start of a magic.
Resync(h) ==
  LET starts == {i \in 2 .. Len(h) + 1 : MagicPrefixOk(SuffixFrom(h, i))}
  IN  SuffixFrom(h, CHOOSE i \in starts : \A j \in starts : i <= j)

DecoderReset == header' = <<>> /\ payload' = <<>>

\* Of the bytes before a header is complete, the last HeaderSize are enough.
Remember(byte) ==
  LET all == Append(fed, byte)
      last == IF Len(all) <= HeaderSize THEN all ELSE SuffixFrom(all, Len(all) - HeaderSize + 1)
  IN  fed' = IF ready' # NotReady \/ (InPayload /\ header' = <<>>) THEN <<>>
             ELSE IF InPayload THEN all ELSE last

(* boot_decoder_consume, one byte. *)
HeaderByte(byte) ==
  LET h == Append(header, byte) IN
  /\ ~InPayload
  /\ MagicPrefixOk(h)
  /\ Len(h) = HeaderSize => (h \in Headers /\ PayloadOf[KindOf(h)] # <<>>)
  /\ header' = h
  /\ ready' = NotReady
  /\ UNCHANGED payload

BadHeader(byte) ==
  LET h == Append(header, byte) IN
  /\ ~InPayload
  /\ MagicPrefixOk(h) => (Len(h) = HeaderSize /\ h \notin Headers)
  /\ header' = Resync(h)
  /\ ready' = NotReady
  /\ UNCHANGED payload

EmptyFrame(byte) ==
  LET h == Append(header, byte) IN
  /\ ~InPayload
  /\ h \in Headers /\ PayloadOf[KindOf(h)] = <<>>
  /\ ready' = h
  /\ DecoderReset

PayloadByte(byte) ==
  /\ InPayload
  /\ Len(payload) + 1 < Len(PayloadOf[KindOf(header)])
  /\ payload' = Append(payload, byte)
  /\ ready' = NotReady
  /\ UNCHANGED header

\* Mutation: the payload CRC is not checked.
LastPayloadByteUnchecked(byte) ==
  /\ InPayload
  /\ Len(payload) + 1 = Len(PayloadOf[KindOf(header)])
  /\ ready' = header \o Append(payload, byte)
  /\ DecoderReset

LastPayloadByte(byte) ==
  /\ InPayload
  /\ Len(payload) + 1 = Len(PayloadOf[KindOf(header)])
  /\ ready' = IF Append(payload, byte) = PayloadOf[KindOf(header)]
              THEN header \o Append(payload, byte) ELSE NotReady
  /\ DecoderReset

Consume(byte) ==
  /\ \/ HeaderByte(byte)
     \/ BadHeader(byte)
     \/ EmptyFrame(byte)
     \/ PayloadByte(byte)
     \/ LastPayloadByte(byte)
  /\ Remember(byte)

-----------------------------------------------------------------------------
(* The bytes of s may be the beginning of a frame that is not complete. *)
MayBeFrame(s) ==
  IF Len(s) < HeaderSize
  THEN MagicPrefixOk(s)
  ELSE /\ SubSeq(s, 1, HeaderSize) \in Headers
       /\ Len(s) < Len(FrameOf(KindOf(s)))

(* The decoder never gives up on a frame that may still come: of the bytes it
   has consumed it holds the longest suffix that can be the beginning of a
   frame, however the stream got out of step (boot_decoder_resync searches
   the bytes it already has; nothing before that suffix can be a frame). *)
KeepsLongestCandidate ==
  LET starts == {i \in 1 .. Len(fed) + 1 : MayBeFrame(SuffixFrom(fed, i))}
  IN  header \o payload = SuffixFrom(fed, CHOOSE i \in starts : \A j \in starts : i <= j)

==============================================================================
