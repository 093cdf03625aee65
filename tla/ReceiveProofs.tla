---------------------------- MODULE ReceiveProofs ----------------------------
(***************************************************************************)
(* The receive path, for every alphabet, every set of commands, every ring *)
(* and chunk size and any number of faults and resends: proofs about       *)
(* Receive.                                                                *)
(*                                                                         *)
(* TypeInv types the variables and says what the decoder can hold.  With   *)
(* it, one invariant for each property is inductive: HoldsLongest (what    *)
(* the decoder holds of the bytes fed), SentInv (which bytes can be on     *)
(* their way), WaitingInv (all that is on its way is the one frame that    *)
(* the host waits for), IdleInv (unhurt, it is whole frames) and TrackInv  *)
(* (a tracked frame is still ahead).  The last three are about Stream: the *)
(* bytes the decoder holds, the chunk taken out, the ring and the line,    *)
(* one after the other, which most steps of the main loop leave as it is.  *)
(***************************************************************************)
EXTENDS Receive, RxFifoProofs

-----------------------------------------------------------------------------
(* Magics, headers and frames, byte by byte *)

LEMMA Regroup ==
  ASSUME NEW s \in Seq(Byte), NEW t \in Seq(Byte), NEW u \in Seq(Byte)
  PROVE  s \o (t \o u) = (s \o t) \o u
BY ConcatAssociative

LEMMA MagicType ==
  /\ Magic \in Seq(Byte) /\ Magic \in Seq(Byte \ Kind)
  /\ Len(Magic) \in Nat \ {0}
  /\ HeaderSize = Len(Magic) + 1 /\ HeaderSize \in Nat
  /\ \A i \in 1 .. Len(Magic) : Magic[i] \in Byte \ Kind
<1>1. Magic \in Seq(Byte) /\ Magic \in Seq(Byte \ Kind)
  BY ReceiveAssumption, HeadersAreSent
<1>2. Len(Magic) \in Nat \ {0}
  BY <1>1, EmptySeq, FrameDecoderAssumption
<1>3. \A i \in 1 .. Len(Magic) : Magic[i] \in Byte \ Kind
  BY <1>1, ElementOfSeq
<1> QED
  BY <1>1, <1>2, <1>3 DEF HeaderSize

\* What boot_decoder_magic_prefix_ok compares.
LEMMA PrefixElements ==
  ASSUME NEW h \in Seq(Byte)
  PROVE  MagicPrefixOk(h) <=> \A i \in 1 .. Len(h) : i <= Len(Magic) => h[i] = Magic[i]
<1>1. /\ Len(h) \in Nat /\ Len(Magic) \in Nat
      /\ \A i \in 1 .. Len(h) : h[i] \in Byte
      /\ \A i \in 1 .. Len(Magic) : Magic[i] \in Byte
  BY MagicType, LenProperties, ElementOfSeq
<1>2. ASSUME NEW s \in Seq(Byte), NEW t \in Seq(Byte)
      PROVE  IsPrefix(s, t) <=> /\ Len(s) <= Len(t)
                                /\ \A i \in 1 .. Len(s) : s[i] = t[i]
  <2>1. /\ Len(s) \in Nat /\ Len(t) \in Nat
        /\ \A i \in 1 .. Len(s) : s[i] \in Byte
        /\ \A i \in 1 .. Len(t) : t[i] \in Byte
    BY LenProperties, ElementOfSeq
  <2>2. SubSeq(s, 1, Len(s)) = s
    BY SubSeqFull
  <2>3. CASE Len(s) <= Len(t)
    <3>1. /\ SubSeq(t, 1, Len(s)) \in Seq(Byte)
          /\ Len(SubSeq(t, 1, Len(s))) = Len(s)
          /\ \A i \in 1 .. Len(s) : SubSeq(t, 1, Len(s))[i] = t[i]
      BY <2>1, <2>3, SubSeqProperties
    <3>2. (\A i \in 1 .. Len(s) : s[i] = t[i]) => s = SubSeq(t, 1, Len(s))
      BY <3>1, SeqEqual
    <3> QED
      BY <2>2, <2>3, <3>1, <3>2 DEF IsPrefix
  <2>4. CASE ~(Len(s) <= Len(t))
    BY <2>4 DEF IsPrefix
  <2> QED
    BY <2>3, <2>4
<1>3. IsPrefix(h, Magic) <=> Len(h) <= Len(Magic) /\ \A i \in 1 .. Len(h) : h[i] = Magic[i]
  BY <1>2, MagicType
<1>4. IsPrefix(Magic, h) <=> Len(Magic) <= Len(h) /\ \A i \in 1 .. Len(Magic) : Magic[i] = h[i]
  BY <1>2, MagicType
<1> QED
  BY <1>1, <1>3, <1>4 DEF MagicPrefixOk

LEMMA HeaderType ==
  ASSUME NEW kind \in Kind
  PROVE  /\ HeaderOf(kind) \in Seq(Byte) /\ Len(HeaderOf(kind)) = HeaderSize
         /\ \A i \in 1 .. Len(Magic) : HeaderOf(kind)[i] = Magic[i]
         /\ HeaderOf(kind)[HeaderSize] = kind
         /\ HeaderOf(kind) \in Headers
         /\ KindOf(HeaderOf(kind)) = kind
<1>1. kind \in Byte
  BY ReceiveAssumption
<1> QED
  BY <1>1, MagicType, AppendProperties DEF HeaderOf, KindOf, Headers

LEMMA HeadersKind ==
  ASSUME NEW h \in Headers
  PROVE  KindOf(h) \in Kind /\ h = HeaderOf(KindOf(h)) /\ h \in Seq(Byte) /\ Len(h) = HeaderSize
BY HeaderType DEF Headers

LEMMA FrameType ==
  ASSUME NEW kind \in Kind
  PROVE  /\ PayloadOf[kind] \in Seq(Byte) /\ Len(PayloadOf[kind]) \in Nat
         /\ FrameOf(kind) \in Seq(Byte) /\ FrameOf(kind) # NotReady
         /\ Len(FrameOf(kind)) = HeaderSize + Len(PayloadOf[kind])
         /\ \A i \in 1 .. HeaderSize : FrameOf(kind)[i] = HeaderOf(kind)[i]
         /\ \A i \in 1 .. Len(PayloadOf[kind]) : FrameOf(kind)[HeaderSize + i] = PayloadOf[kind][i]
<1>1. PayloadOf[kind] \in Seq(Byte) /\ Len(PayloadOf[kind]) \in Nat
  BY ReceiveAssumption, LenProperties
<1>2. HeaderOf(kind) \in Seq(Byte) /\ Len(HeaderOf(kind)) = HeaderSize /\ HeaderSize \in Nat \ {0}
  BY HeaderType, MagicType
<1>3. /\ FrameOf(kind) \in Seq(Byte)
      /\ Len(FrameOf(kind)) = HeaderSize + Len(PayloadOf[kind])
      /\ \A i \in 1 .. HeaderSize + Len(PayloadOf[kind]) : FrameOf(kind)[i] =
           IF i <= HeaderSize THEN HeaderOf(kind)[i] ELSE PayloadOf[kind][i - HeaderSize]
  BY <1>1, <1>2, ConcatProperties DEF FrameOf
<1>4. FrameOf(kind) # NotReady
  BY <1>1, <1>2, <1>3, EmptySeq DEF NotReady
<1>5. \A i \in 1 .. HeaderSize : FrameOf(kind)[i] = HeaderOf(kind)[i]
  BY <1>1, <1>2, <1>3
<1>6. \A i \in 1 .. Len(PayloadOf[kind]) : FrameOf(kind)[HeaderSize + i] = PayloadOf[kind][i]
  BY <1>1, <1>2, <1>3
<1> QED
  BY <1>1, <1>3, <1>4, <1>5, <1>6

LEMMA FrameLength ==
  ASSUME NEW kind \in Kind
  PROVE  /\ Len(FrameOf(kind)) \in Nat /\ HeaderSize \in Nat
         /\ HeaderSize <= Len(FrameOf(kind))
<1>1. Len(FrameOf(kind)) = HeaderSize + Len(PayloadOf[kind]) /\ Len(PayloadOf[kind]) \in Nat
  BY FrameType
<1>2. HeaderSize \in Nat
  BY MagicType
<1>3. ASSUME NEW l, NEW p \in Nat, NEW m \in Nat, l = m + p PROVE l \in Nat /\ m <= l
  BY <1>3
<1> QED
  BY <1>1, <1>2, <1>3

LEMMA EmptyFrameIsHeader ==
  ASSUME NEW kind \in Kind, PayloadOf[kind] = <<>>
  PROVE  FrameOf(kind) = HeaderOf(kind)
BY HeaderType, ConcatEmptySeq DEF FrameOf

\* boot_decoder_resync leaves the longest proper suffix that can be the start
\* of a magic.
LEMMA ResyncSuffix ==
  ASSUME NEW h \in Seq(Byte), h # <<>>
  PROVE  \E i \in 2 .. Len(h) + 1 :
           /\ Resync(h) = SuffixFrom(h, i) /\ MagicPrefixOk(SuffixFrom(h, i))
           /\ \A j \in 2 .. i - 1 : ~MagicPrefixOk(SuffixFrom(h, j))
<1> DEFINE starts == {i \in 2 .. Len(h) + 1 : MagicPrefixOk(SuffixFrom(h, i))}
           least == CHOOSE i \in starts : \A j \in starts : i <= j
<1>1. Len(h) \in Nat \ {0}
  BY EmptySeq
<1>2. SuffixFrom(h, Len(h) + 1) \in Seq(Byte) /\ Len(SuffixFrom(h, Len(h) + 1)) = 0
  BY <1>1, Suffix DEF SuffixFrom
<1>3. Len(h) + 1 \in starts
  BY <1>1, <1>2, PrefixElements
<1>4. \E i \in starts : \A j \in starts : i <= j
  <2>1. starts \subseteq Nat
    BY <1>1
  <2> HIDE DEF starts
  <2> QED
    BY <1>3, <2>1, Smallest
<1>5. least \in starts /\ \A j \in starts : least <= j
  BY <1>4
<1>6. Resync(h) = SuffixFrom(h, least)
  BY DEF Resync
<1> HIDE DEF least
<1>7. \A j \in 2 .. least - 1 : ~MagicPrefixOk(SuffixFrom(h, j))
  BY <1>1, <1>5
<1> QED
  BY <1>5, <1>6, <1>7

-----------------------------------------------------------------------------
(* The decoder *)

\* Only a header that is complete and right has a payload, and never all of it.
HeldIsPartial ==
  IF InPayload
  THEN header \in Headers /\ Len(payload) < Len(PayloadOf[KindOf(header)])
  ELSE payload = <<>>

DecoderInv ==
  /\ header \in Seq(Byte) /\ Len(header) <= HeaderSize /\ MagicPrefixOk(header)
  /\ payload \in Seq(Byte)
  /\ HeldIsPartial
  /\ ready \in {NotReady} \cup {FrameOf(kind) : kind \in Kind}
  /\ fed \in Seq(Byte)

LEMMA EmptyHeader ==
  /\ <<>> \in Seq(Byte) /\ Len(<<>>) = 0 /\ Len(<<>>) < HeaderSize
  /\ MagicPrefixOk(<<>>)
<1>1. <<>> \in Seq(Byte) /\ Len(<<>>) = 0
  BY EmptySeq
<1>2. \A i \in 1 .. Len(<<>>) : FALSE
  BY <1>1
<1>3. MagicPrefixOk(<<>>)
  BY ONLY <1>1, <1>2, PrefixElements
<1> QED
  BY <1>1, <1>3, MagicType

LEMMA ResetIsTyped ==
  ASSUME header' = <<>>, payload' = <<>>, fed' = <<>>,
         ready' \in {NotReady} \cup {FrameOf(kind) : kind \in Kind}
  PROVE  DecoderInv'
<1>1. Len(header') <= HeaderSize /\ Len(header') # HeaderSize
  BY EmptyHeader, MagicType
<1>2. HeldIsPartial'
  BY <1>1 DEF HeldIsPartial, InPayload, HeaderSize
<1> QED
  BY <1>1, <1>2, EmptyHeader DEF DecoderInv, HeaderSize

\* What boot_decoder_consume remembers for the history variable.
LEMMA RememberType ==
  ASSUME fed \in Seq(Byte), NEW byte \in Byte, Remember(byte)
  PROVE  fed' \in Seq(Byte)
<1> DEFINE all == Append(fed, byte)
<1>1. all \in Seq(Byte) /\ Len(all) \in Nat
  BY AppendProperties, LenProperties
<1> HIDE DEF all
<1>2. ASSUME ~(Len(all) <= HeaderSize)
      PROVE  SuffixFrom(all, Len(all) - HeaderSize + 1) \in Seq(Byte)
  <2>1. Len(all) - HeaderSize + 1 \in 1 .. Len(all) + 1
    BY <1>1, <1>2, MagicType
  <2> QED
    BY <1>1, <2>1, Suffix DEF SuffixFrom
<1>3. fed' \in {<<>>, all, SuffixFrom(all, Len(all) - HeaderSize + 1)}
      /\ (fed' = SuffixFrom(all, Len(all) - HeaderSize + 1) =>
            fed' = all \/ fed' = <<>> \/ ~(Len(all) <= HeaderSize))
  BY DEF Remember, all
<1> QED
  BY <1>1, <1>2, <1>3, EmptySeq

\* A header that takes one more byte, and one that fails.
LEMMA HeaderGrows ==
  ASSUME DecoderInv, NEW byte \in Byte, ~InPayload
  PROVE  /\ Len(header) < HeaderSize /\ payload = <<>>
         /\ Append(header, byte) \in Seq(Byte) /\ Append(header, byte) # <<>>
         /\ Len(Append(header, byte)) = Len(header) + 1
         /\ Append(header, byte)[Len(header) + 1] = byte
         /\ \A i \in 1 .. Len(header) : Append(header, byte)[i] = header[i]
<1>1. header \in Seq(Byte) /\ Len(header) \in Nat /\ Len(header) <= HeaderSize
  BY LenProperties DEF DecoderInv
<1>2. Len(header) # HeaderSize
  BY DEF InPayload
<1>3. Append(header, byte) # <<>>
  BY <1>1, AppendProperties, EmptySeq
<1>4. /\ Append(header, byte) \in Seq(Byte)
      /\ Len(Append(header, byte)) = Len(header) + 1
      /\ Append(header, byte)[Len(header) + 1] = byte
      /\ \A i \in 1 .. Len(header) : Append(header, byte)[i] = header[i]
  BY <1>1, AppendProperties
<1>5. payload = <<>>
  BY DEF DecoderInv, HeldIsPartial
<1> QED
  BY <1>1, <1>2, <1>3, <1>4, <1>5, MagicType

LEMMA ConsumeKeepsDecoderInv ==
  ASSUME DecoderInv, NEW byte \in Byte, Consume(byte)
  PROVE  DecoderInv'
<1> DEFINE h == Append(header, byte)
           good == {NotReady} \cup {FrameOf(kind) : kind \in Kind}
<1>1. fed' \in Seq(Byte)
  BY RememberType DEF Consume, DecoderInv
<1>2. CASE HeaderByte(byte)
  <2>1. /\ ~InPayload /\ MagicPrefixOk(h) /\ header' = h /\ payload' = payload
        /\ ready' = NotReady
        /\ Len(h) = HeaderSize => (h \in Headers /\ PayloadOf[KindOf(h)] # <<>>)
    BY <1>2 DEF HeaderByte
  <2>2. h \in Seq(Byte) /\ Len(h) <= HeaderSize /\ payload = <<>>
    BY <2>1, HeaderGrows, MagicType, LenProperties DEF DecoderInv
  <2>3. ASSUME Len(h) = HeaderSize
        PROVE  h \in Headers /\ Len(payload) < Len(PayloadOf[KindOf(h)])
    <3>1. PayloadOf[KindOf(h)] \in Seq(Byte) /\ PayloadOf[KindOf(h)] # <<>> /\ h \in Headers
      BY <2>1, <2>3, HeadersKind, FrameType
    <3> QED
      BY <3>1, <2>2, EmptySeq
  <2> HIDE DEF h
  <2>4. HeldIsPartial'
    BY <2>1, <2>2, <2>3 DEF HeldIsPartial, InPayload
  <2> QED
    BY <1>1, <2>1, <2>2, <2>4 DEF DecoderInv
<1>3. CASE BadHeader(byte)
  <2>1. ~InPayload /\ header' = Resync(h) /\ payload' = payload /\ ready' = NotReady
    BY <1>3 DEF BadHeader
  <2>2. h \in Seq(Byte) /\ h # <<>> /\ Len(h) <= HeaderSize /\ Len(h) \in Nat /\ payload = <<>>
    BY <2>1, HeaderGrows, MagicType, LenProperties DEF DecoderInv
  <2> HIDE DEF h
  <2>3. PICK i \in 2 .. Len(h) + 1 : header' = SuffixFrom(h, i) /\ MagicPrefixOk(SuffixFrom(h, i))
    BY <2>1, <2>2, ResyncSuffix
  <2>4. header' \in Seq(Byte) /\ Len(header') = Len(h) - i + 1
    BY <2>2, <2>3, Suffix DEF SuffixFrom
  <2>5. Len(header') < HeaderSize
    BY <2>2, <2>3, <2>4, MagicType
  <2>6. HeldIsPartial'
    BY <2>1, <2>2, <2>5, MagicType DEF HeldIsPartial, InPayload
  <2>7. Len(header') <= HeaderSize
    BY <2>2, <2>3, <2>4, MagicType
  <2> QED
    BY <1>1, <2>1, <2>2, <2>3, <2>4, <2>6, <2>7 DEF DecoderInv, HeaderSize
<1>4. CASE EmptyFrame(byte)
  <2>1. h \in Headers /\ PayloadOf[KindOf(h)] = <<>> /\ ready' = h /\ DecoderReset
    BY <1>4 DEF EmptyFrame
  <2>2. ready' \in good /\ ready' # NotReady
    BY <2>1, HeadersKind, EmptyFrameIsHeader, FrameType
  <2>3. fed' = <<>>
    BY <2>2 DEF Consume, Remember
  <2> QED
    BY <2>1, <2>2, <2>3, ResetIsTyped DEF DecoderReset
<1>5. CASE PayloadByte(byte)
  <2>1. /\ InPayload /\ Len(payload) + 1 < Len(PayloadOf[KindOf(header)])
        /\ payload' = Append(payload, byte) /\ ready' = NotReady /\ header' = header
    BY <1>5 DEF PayloadByte
  <2>2. payload' \in Seq(Byte) /\ Len(payload') = Len(payload) + 1
    BY <2>1, AppendProperties DEF DecoderInv
  <2>3. HeldIsPartial'
    BY <2>1, <2>2 DEF HeldIsPartial, InPayload, DecoderInv
  <2> QED
    BY <1>1, <2>1, <2>2, <2>3 DEF DecoderInv
<1>6. CASE LastPayloadByte(byte)
  <2>1. /\ InPayload /\ DecoderReset
        /\ ready' = IF Append(payload, byte) = PayloadOf[KindOf(header)]
                    THEN header \o Append(payload, byte) ELSE NotReady
    BY <1>6 DEF LastPayloadByte
  <2>2. KindOf(header) \in Kind /\ header = HeaderOf(KindOf(header))
    BY <2>1, HeadersKind DEF DecoderInv, HeldIsPartial
  <2>3. ready' \in good
    BY <2>1, <2>2 DEF FrameOf
  <2>4. fed' = <<>>
    BY <2>1 DEF Consume, Remember, DecoderReset
  <2> QED
    BY <2>1, <2>3, <2>4, ResetIsTyped DEF DecoderReset
<1> QED
  BY <1>2, <1>3, <1>4, <1>5, <1>6 DEF Consume

-----------------------------------------------------------------------------
(* The whole receive path: types, and what the main loop's place says *)

LoopInv ==
  /\ wire \in Seq(Byte)
  /\ pc \in {"drain", "feed", "handle", "poll"}
  /\ quiet \in BOOLEAN
  /\ request \in 1 .. Len(Requests) + 1
  /\ pause \in {"none", "waiting", "over", "answered"}
  /\ (pc = "handle") <=> (ready # NotReady)
  /\ copied => pc = "drain"
  /\ pc = "poll" => chunk = <<>>
  /\ faults \in Nat /\ impatient \in Nat

TypeInv == FifoInv /\ DecoderInv /\ LoopInv

LEMMA RequestType ==
  /\ Requests \in Seq(Kind) /\ Len(Requests) \in Nat
  /\ \A i \in 1 .. Len(Requests) : Requests[i] \in Kind
BY ReceiveAssumption, LenProperties, ElementOfSeq

\* A request that is not answered yet is one of the host's commands.
LEMMA RequestIsKind ==
  ASSUME LoopInv, ~Done
  PROVE  request \in 1 .. Len(Requests) /\ Requests[request] \in Kind
BY RequestType DEF LoopInv, Done

LEMMA HeadOfWire ==
  ASSUME LoopInv, wire # <<>>
  PROVE  Head(wire) \in Byte /\ Tail(wire) \in Seq(Byte)
BY HeadTailProperties DEF LoopInv

\* The ring sees pushes of bytes, and the main loop's own steps.
LEMMA StepsAreFifoSteps ==
  ASSUME LoopInv, [Next]_vars
  PROVE  [FifoNext]_fifoVars
<1>1. CASE HostSendsInTurn \/ HostSendsAgain \/ HostWaits
  BY <1>1 DEF HostSendsInTurn, HostSendsAgain, HostSends, HostWaits, fifoVars
<1>2. ASSUME NEW byte \in Byte, Interrupt(byte) PROVE [FifoNext]_fifoVars
  BY <1>2 DEF Interrupt, FifoNext
<1>3. CASE LineCarries
  BY <1>2, <1>3, HeadOfWire DEF LineCarries
<1>4. CASE LineDamages \/ LineAdds
  BY <1>2, <1>4, ReceiveAssumption DEF LineDamages, LineAdds
<1>5. CASE LineLoses
  BY <1>5 DEF LineLoses, fifoVars
<1>6. CASE Drains
  BY <1>6 DEF Drains, FifoNext
<1>7. CASE DrainFinished \/ Handles
  BY <1>7 DEF DrainFinished, Handles, fifoVars
<1>8. CASE Feeds
  BY <1>8 DEF Feeds, FifoNext
<1>9. CASE Polls
  BY <1>9 DEF Polls, IdleReset, NoIdleReset, fifoVars
<1>10. CASE UNCHANGED vars
  BY <1>10 DEF vars, fifoVars
<1> QED
  BY <1>1, <1>3, <1>4, <1>5, <1>6, <1>7, <1>8, <1>9, <1>10 DEF Next

LEMMA DecoderInvNext ==
  ASSUME TypeInv, [Next]_vars
  PROVE  DecoderInv'
<1> USE DEF TypeInv
<1>1. CASE UNCHANGED decoderVars
  BY <1>1 DEF decoderVars, DecoderInv, HeldIsPartial, InPayload
<1>2. CASE Feeds
  <2>1. Head(chunk) \in Byte /\ Consume(Head(chunk))
    BY <1>2, HeadTailProperties DEF Feeds, HandByte, FifoInv, FifoTypeOK
  <2> QED
    BY <2>1, ConsumeKeepsDecoderInv
<1>3. CASE Handles
  BY <1>3 DEF Handles, DecoderInv, HeldIsPartial, InPayload
<1>4. CASE IdleReset
  BY <1>4, ResetIsTyped DEF IdleReset, DecoderReset, DecoderInv
<1>5. CASE HostSendsInTurn \/ HostSendsAgain \/ HostWaits
  BY <1>1, <1>5 DEF HostSendsInTurn, HostSendsAgain, HostSends, HostWaits
<1>6. CASE LineCarries \/ LineDamages \/ LineLoses \/ LineAdds
  BY <1>1, <1>6 DEF LineCarries, LineDamages, LineLoses, LineAdds, Interrupt
<1>7. CASE Drains \/ DrainFinished
  BY <1>1, <1>7 DEF Drains, DrainFinished
<1>8. CASE Polls
  BY <1>1, <1>4, <1>8 DEF Polls, NoIdleReset
<1>9. CASE UNCHANGED vars
  BY <1>1, <1>9 DEF vars
<1> QED
  BY <1>2, <1>3, <1>5, <1>6, <1>7, <1>8, <1>9 DEF Next

LEMMA LoopInvNext ==
  ASSUME TypeInv, [Next]_vars
  PROVE  LoopInv'
<1> USE DEF TypeInv
<1>1. CASE HostSendsInTurn \/ HostSendsAgain
  <2>1. HostSends /\ pause' = "none"
    BY <1>1 DEF HostSendsInTurn, HostSendsAgain
  <2>2. wire' \in Seq(Byte)
    BY <2>1, RequestIsKind, FrameType DEF HostSends
  <2>3. impatient' \in Nat
    BY <1>1 DEF HostSendsInTurn, HostSendsAgain, LoopInv
  <2> QED
    BY <2>1, <2>2, <2>3 DEF HostSends, LoopInv, fifoVars, decoderVars
<1>2. CASE HostWaits
  BY <1>2 DEF HostWaits, LoopInv, fifoVars, decoderVars
<1>3. CASE LineCarries \/ LineDamages \/ LineLoses \/ LineAdds
  <2>1. wire' \in Seq(Byte)
    BY <1>3, HeadOfWire DEF LineCarries, LineDamages, LineLoses, LineAdds, LoopInv
  <2>2. /\ UNCHANGED <<decoderVars, pc, quiet, request, pause>>
        /\ UNCHANGED <<chunk, copied>>
    BY <1>3 DEF LineCarries, LineDamages, LineLoses, LineAdds, Interrupt, PushIsr, PushByte,
                DropByte, fifoVars
  <2>3. faults' \in Nat /\ impatient' \in Nat
    BY <1>3 DEF LineCarries, LineDamages, LineLoses, LineAdds, Interrupt, Fault, LoopInv
  <2> QED
    BY <2>1, <2>2, <2>3 DEF LoopInv, decoderVars
<1>4. CASE Drains
  BY <1>4 DEF Drains, CopyByte, AdvanceTail, LoopInv, decoderVars, hostVars
<1>5. CASE DrainFinished
  BY <1>5 DEF DrainFinished, DrainEnds, LoopInv, fifoVars, decoderVars, hostVars
<1>6. CASE Feeds
  BY <1>6 DEF Feeds, HandByte, LoopInv, hostVars
<1>7. CASE Handles
  <2>1. request' \in 1 .. Len(Requests) + 1 /\ pause' \in {"none", "waiting", "over", "answered"}
    BY <1>7, RequestIsKind, RequestType DEF Handles, LoopInv
  <2>2. pc' = (IF chunk = <<>> THEN "poll" ELSE "feed") /\ ready' = NotReady
    BY <1>7 DEF Handles
  <2>3. quiet' \in BOOLEAN
    BY <1>7 DEF Handles, LoopInv
  <2>4. UNCHANGED <<wire, chunk, copied, faults, impatient>> /\ pc = "handle"
    BY <1>7 DEF Handles, fifoVars
  <2> QED
    BY <2>1, <2>2, <2>3, <2>4 DEF LoopInv
<1>8. CASE Polls
  <2>1. UNCHANGED <<ready, fifoVars>> /\ pc = "poll"
    BY <1>8 DEF Polls, IdleReset, NoIdleReset, decoderVars
  <2> QED
    BY <1>8, <2>1 DEF Polls, LoopInv, fifoVars
<1>9. CASE UNCHANGED vars
  BY <1>9 DEF vars, LoopInv, fifoVars, decoderVars, hostVars
<1> QED
  BY <1>1, <1>2, <1>3, <1>4, <1>5, <1>6, <1>7, <1>8, <1>9 DEF Next

LEMMA TypeInvInit == Init => TypeInv
<1> SUFFICES ASSUME Init PROVE TypeInv
  OBVIOUS
<1>1. FifoInv
  BY FifoInvInit DEF Init
<1>2. DecoderInv
  BY EmptyHeader, MagicType DEF Init, DecoderInit, DecoderInv, HeldIsPartial, InPayload
<1>3. LoopInv
  BY EmptySeq, RequestType DEF Init, LoopInv, DecoderInit, FifoInit
<1> QED
  BY <1>1, <1>2, <1>3 DEF TypeInv

LEMMA TypeInvNext == TypeInv /\ [Next]_vars => TypeInv'
<1> SUFFICES ASSUME TypeInv, [Next]_vars PROVE TypeInv'
  OBVIOUS
<1>1. FifoInv'
  BY StepsAreFifoSteps, FifoInvNext DEF TypeInv
<1> QED
  BY <1>1, DecoderInvNext, LoopInvNext DEF TypeInv

LEMMA TypeInvHolds == Spec => []TypeInv
BY TypeInvInit, TypeInvNext, PTL DEF Spec

\* Every variable keeps its type, and a frame is ready exactly while its
\* command is about to run (boot_decoder_consume, bootloader_receive_bytes).
THEOREM ReceiveTypeCorrect == Spec => []TypeOK
<1>1. TypeInv => TypeOK
  BY DEF TypeInv, FifoInv, DecoderInv, LoopInv, TypeOK
<1> QED
  BY <1>1, TypeInvHolds, PTL

\* The ring of the receive path is a queue while hosts, faults, commands and
\* idle resets go on around it (boot_fifo_push_isr, boot_stm32f072_poll).
THEOREM ReceiveRingIsQueue == Spec => FifoIsQueue
<1>1. Init => FifoInit
  BY DEF Init
<1>2. TypeInv /\ [Next]_vars => [FifoNext]_fifoVars
  BY StepsAreFifoSteps DEF TypeInv
<1>3. Spec => FifoSpec
  BY <1>1, <1>2, TypeInvHolds, PTL DEF Spec, FifoSpec
<1> QED
  BY <1>3, RingIsQueue, PTL

-----------------------------------------------------------------------------
(* Suffixes *)

LEMMA SuffixType ==
  ASSUME NEW s \in Seq(Byte), NEW i \in 1 .. Len(s) + 1
  PROVE  /\ SuffixFrom(s, i) \in Seq(Byte)
         /\ Len(SuffixFrom(s, i)) = Len(s) - i + 1
         /\ \A j \in 1 .. Len(s) - i + 1 : SuffixFrom(s, i)[j] = s[i + j - 1]
BY Suffix DEF SuffixFrom

LEMMA SuffixOfAppend ==
  ASSUME NEW s \in Seq(Byte), NEW e \in Byte, NEW i \in 1 .. Len(s) + 1
  PROVE  SuffixFrom(Append(s, e), i) = Append(SuffixFrom(s, i), e)
<1>1. /\ Append(s, e) \in Seq(Byte) /\ Len(Append(s, e)) = Len(s) + 1
      /\ Append(s, e)[Len(s) + 1] = e
      /\ \A j \in 1 .. Len(s) : Append(s, e)[j] = s[j]
      /\ Len(s) \in Nat
  BY AppendProperties, LenProperties
<1> DEFINE all == Append(s, e)
           x == SuffixFrom(all, i)
           y == SuffixFrom(s, i)
<1> HIDE DEF all
<1>2. x \in Seq(Byte) /\ Len(x) = Len(s) - i + 2
      /\ \A j \in 1 .. Len(s) - i + 2 : x[j] = all[i + j - 1]
  <2>1. all \in Seq(Byte) /\ i \in 1 .. Len(all) + 1 /\ Len(all) - i + 1 = Len(s) - i + 2
    BY <1>1 DEF all
  <2> QED
    BY <2>1, SuffixType
<1>3. y \in Seq(Byte) /\ Len(y) = Len(s) - i + 1
      /\ \A j \in 1 .. Len(s) - i + 1 : y[j] = s[i + j - 1]
  BY SuffixType
<1> HIDE DEF x, y
<1>4. /\ Append(y, e) \in Seq(Byte) /\ Len(Append(y, e)) = Len(s) - i + 2
      /\ Append(y, e)[Len(s) - i + 2] = e
      /\ \A j \in 1 .. Len(s) - i + 1 : Append(y, e)[j] = y[j]
  <2>1. y \in Seq(Byte) /\ Len(y) = Len(s) - i + 1 /\ Len(y) + 1 = Len(s) - i + 2
    BY <1>1, <1>3
  <2>2. /\ Append(y, e) \in Seq(Byte) /\ Len(Append(y, e)) = Len(y) + 1
        /\ Append(y, e)[Len(y) + 1] = e
        /\ \A j \in 1 .. Len(y) : Append(y, e)[j] = y[j]
    BY <2>1, AppendProperties
  <2> QED
    BY <2>1, <2>2
<1>5. ASSUME NEW j \in 1 .. Len(s) - i + 2 PROVE x[j] = Append(y, e)[j]
  <2>1. CASE j = Len(s) - i + 2
    BY <1>1, <1>2, <1>4, <2>1 DEF all
  <2>2. CASE j # Len(s) - i + 2
    <3>1. j \in 1 .. Len(s) - i + 1 /\ i + j - 1 \in 1 .. Len(s)
      BY <1>1, <2>2
    <3> QED
      BY <1>1, <1>2, <1>3, <1>4, <3>1 DEF all
  <2> QED
    BY <2>1, <2>2
<1> QED
  BY <1>2, <1>4, <1>5, SeqEqual DEF x, y, all

LEMMA SuffixOfSuffix ==
  ASSUME NEW s \in Seq(Byte), NEW i \in 1 .. Len(s) + 1, NEW j \in 1 .. Len(s) - i + 2
  PROVE  SuffixFrom(SuffixFrom(s, i), j) = SuffixFrom(s, i + j - 1)
<1> DEFINE x == SuffixFrom(s, i)
           y == SuffixFrom(x, j)
           z == SuffixFrom(s, i + j - 1)
<1>1. Len(s) \in Nat /\ i + j - 1 \in 1 .. Len(s) + 1
  BY LenProperties
<1>2. x \in Seq(Byte) /\ Len(x) = Len(s) - i + 1
      /\ \A k \in 1 .. Len(s) - i + 1 : x[k] = s[i + k - 1]
  BY SuffixType
<1> HIDE DEF x
<1>3. j \in 1 .. Len(x) + 1
  BY <1>1, <1>2
<1>4. y \in Seq(Byte) /\ Len(y) = Len(x) - j + 1
      /\ \A k \in 1 .. Len(x) - j + 1 : y[k] = x[j + k - 1]
  BY <1>2, <1>3, SuffixType
<1>5. z \in Seq(Byte) /\ Len(z) = Len(s) - (i + j - 1) + 1
      /\ \A k \in 1 .. Len(s) - (i + j - 1) + 1 : z[k] = s[(i + j - 1) + k - 1]
  BY <1>1, SuffixType
<1> HIDE DEF y, z
<1>6. ASSUME NEW k \in 1 .. Len(z) PROVE y[k] = z[k]
  <2>1. Len(z) = Len(s) - (i + j - 1) + 1 /\ Len(x) = Len(s) - i + 1 /\ Len(s) \in Nat
    BY <1>1, <1>2, <1>5
  <2>2. j + k - 1 \in 1 .. Len(s) - i + 1 /\ i + (j + k - 1) - 1 = (i + j - 1) + k - 1
    BY <2>1
  <2>3. k \in 1 .. Len(x) - j + 1
    BY <2>1
  <2> QED
    BY <1>2, <1>4, <1>5, <2>1, <2>2, <2>3
<1>7. Len(y) = Len(z)
  BY <1>1, <1>2, <1>4, <1>5
<1> QED
  BY <1>4, <1>5, <1>6, <1>7, SeqEqual DEF x, y, z

LEMMA SuffixOfConcat ==
  ASSUME NEW s \in Seq(Byte), NEW t \in Seq(Byte), NEW i \in 1 .. Len(s) + 1
  PROVE  SuffixFrom(s \o t, i) = SuffixFrom(s, i) \o t
<1> DEFINE c == s \o t
           x == SuffixFrom(c, i)
           y == SuffixFrom(s, i)
           z == y \o t
<1>1. Len(s) \in Nat /\ Len(t) \in Nat
  BY LenProperties
<1>2. c \in Seq(Byte) /\ Len(c) = Len(s) + Len(t)
      /\ \A k \in 1 .. Len(s) + Len(t) : c[k] = IF k <= Len(s) THEN s[k] ELSE t[k - Len(s)]
  BY ConcatProperties
<1>3. y \in Seq(Byte) /\ Len(y) = Len(s) - i + 1
      /\ \A k \in 1 .. Len(s) - i + 1 : y[k] = s[i + k - 1]
  BY SuffixType
<1> HIDE DEF c, y
<1>4. i \in 1 .. Len(c) + 1
  BY <1>1, <1>2
<1>5. x \in Seq(Byte) /\ Len(x) = Len(c) - i + 1
      /\ \A k \in 1 .. Len(c) - i + 1 : x[k] = c[i + k - 1]
  BY <1>2, <1>4, SuffixType
<1>6. z \in Seq(Byte) /\ Len(z) = Len(y) + Len(t)
      /\ \A k \in 1 .. Len(y) + Len(t) : z[k] = IF k <= Len(y) THEN y[k] ELSE t[k - Len(y)]
  BY <1>3, ConcatProperties
<1> HIDE DEF x, z
<1>7. Len(x) = Len(z)
  BY <1>1, <1>2, <1>3, <1>5, <1>6
<1>8. ASSUME NEW k \in 1 .. Len(x) PROVE x[k] = z[k]
  <2>1. /\ k \in 1 .. Len(c) - i + 1 /\ k \in 1 .. Len(y) + Len(t)
        /\ i + k - 1 \in 1 .. Len(s) + Len(t)
        /\ (i + k - 1 <= Len(s)) <=> (k <= Len(y))
        /\ (i + k - 1) - Len(s) = k - Len(y)
    BY <1>1, <1>2, <1>3, <1>5, <1>7
  <2>2. k <= Len(y) => k \in 1 .. Len(s) - i + 1
    BY <1>3
  <2> QED
    BY <1>2, <1>3, <1>5, <1>6, <2>1, <2>2
<1> QED
  BY <1>5, <1>6, <1>7, <1>8, SeqEqual DEF x, z, y, c

LEMMA SuffixAfter ==
  ASSUME NEW s \in Seq(Byte), NEW t \in Seq(Byte)
  PROVE  SuffixFrom(s \o t, Len(s) + 1) = t
<1>1. Len(s) + 1 \in 1 .. Len(s) + 1 /\ Len(s) - (Len(s) + 1) + 1 = 0
  BY LenProperties
<1>2. SuffixFrom(s, Len(s) + 1) \in Seq(Byte) /\ Len(SuffixFrom(s, Len(s) + 1)) = 0
  BY <1>1, SuffixType
<1>3. SuffixFrom(s, Len(s) + 1) = <<>>
  BY <1>2, EmptySeq
<1>4. SuffixFrom(s \o t, Len(s) + 1) = <<>> \o t
  BY <1>1, <1>3, SuffixOfConcat
<1> QED
  BY <1>4, ConcatEmptySeq

-----------------------------------------------------------------------------
(* The decoder holds the longest suffix that can be the start of a frame *)

HoldsLongest ==
  /\ InPayload => fed = header \o payload
  /\ ~InPayload =>
       /\ Len(fed) <= HeaderSize
       /\ \E i \in 1 .. Len(fed) + 1 :
            /\ header = SuffixFrom(fed, i)
            /\ \A j \in 1 .. i - 1 : ~MayBeFrame(SuffixFrom(fed, j))

\* Up to the length of a header, the start of a frame starts as a magic does.
LEMMA ShortMayBeFrame ==
  ASSUME NEW s \in Seq(Byte), Len(s) <= HeaderSize
  PROVE  /\ MayBeFrame(s) => MagicPrefixOk(s)
         /\ MayBeFrame(s) => (Len(s) = HeaderSize => s \in Headers)
<1>1. Len(s) \in Nat
  BY LenProperties
<1>2. CASE Len(s) < HeaderSize
  BY <1>1, <1>2, MagicType DEF MayBeFrame
<1>3. CASE Len(s) = HeaderSize
  <2>1. SubSeq(s, 1, HeaderSize) = s
    BY <1>3, SubSeqFull
  <2>2. MayBeFrame(s) => s \in Headers
    <3>1. ~(Len(s) < HeaderSize)
      BY <1>3, MagicType
    <3> QED
      BY <2>1, <3>1, Zenon DEF MayBeFrame
  <2>3. s \in Headers => MagicPrefixOk(s)
    <3>1. ASSUME s \in Headers
          PROVE  \A i \in 1 .. Len(s) : i <= Len(Magic) => s[i] = Magic[i]
      BY <3>1, HeadersKind, HeaderType, MagicType
    <3> QED
      BY <3>1, PrefixElements
  <2> QED
    BY <2>2, <2>3
<1> QED
  BY <1>1, <1>2, <1>3, MagicType

\* What cannot be the start of a frame does not become one by going on.
LEMMA NotAFrameStays ==
  ASSUME NEW s \in Seq(Byte), NEW e \in Byte, Len(s) < HeaderSize, ~MayBeFrame(s)
  PROVE  ~MayBeFrame(Append(s, e))
<1>1. /\ Append(s, e) \in Seq(Byte) /\ Len(Append(s, e)) = Len(s) + 1
      /\ \A i \in 1 .. Len(s) : Append(s, e)[i] = s[i]
      /\ Len(s) \in Nat
  BY AppendProperties, LenProperties
<1>2. ~MagicPrefixOk(s)
  BY DEF MayBeFrame
<1>3. PICK i \in 1 .. Len(s) : i <= Len(Magic) /\ s[i] # Magic[i]
  BY <1>2, PrefixElements
<1>4. i \in 1 .. Len(Append(s, e)) /\ Append(s, e)[i] # Magic[i]
  BY <1>1, <1>3
<1>5. ~MagicPrefixOk(Append(s, e))
  BY <1>1, <1>3, <1>4, PrefixElements
<1>6. Len(Append(s, e)) <= HeaderSize
  BY <1>1, MagicType
<1> QED
  BY <1>1, <1>5, <1>6, ShortMayBeFrame

\* All the decoder has seen, with one more byte.
Seen(byte) == Append(fed, byte)

\* The start of what is held, in all that was seen with one more byte: earlier
\* starts that are not yet too old cannot be those of a frame.
NoEarlier(all, i) ==
  \A j \in 1 .. i - 1 : Len(all) - j + 1 <= HeaderSize => ~MayBeFrame(SuffixFrom(all, j))

LEMMA HeldGrows ==
  ASSUME DecoderInv, HoldsLongest, ~InPayload, NEW byte \in Byte
  PROVE  /\ Seen(byte) \in Seq(Byte) /\ Len(Seen(byte)) \in Nat
         /\ \E i \in 1 .. Len(fed) + 1 :
              /\ Append(header, byte) = SuffixFrom(Seen(byte), i)
              /\ NoEarlier(Seen(byte), i)
         /\ Len(Seen(byte)) = Len(fed) + 1
<1>1. fed \in Seq(Byte) /\ Len(fed) \in Nat /\ Len(fed) <= HeaderSize
  BY LenProperties DEF DecoderInv, HoldsLongest
<1>2. Seen(byte) \in Seq(Byte) /\ Len(Seen(byte)) = Len(fed) + 1
  BY <1>1, AppendProperties DEF Seen
<1>3. PICK i \in 1 .. Len(fed) + 1 :
        /\ header = SuffixFrom(fed, i)
        /\ \A j \in 1 .. i - 1 : ~MayBeFrame(SuffixFrom(fed, j))
  BY DEF HoldsLongest
<1>4. Append(header, byte) = SuffixFrom(Seen(byte), i)
  BY <1>1, <1>3, SuffixOfAppend DEF Seen
<1>5. ASSUME NEW j \in 1 .. i - 1, Len(Seen(byte)) - j + 1 <= HeaderSize
      PROVE  ~MayBeFrame(SuffixFrom(Seen(byte), j))
  <2>1. j \in 1 .. Len(fed) + 1 /\ Len(fed) - j + 1 < HeaderSize
    BY <1>1, <1>2, <1>5, MagicType
  <2>2. /\ SuffixFrom(Seen(byte), j) = Append(SuffixFrom(fed, j), byte)
        /\ SuffixFrom(fed, j) \in Seq(Byte) /\ Len(SuffixFrom(fed, j)) < HeaderSize
    BY <1>1, <2>1, SuffixOfAppend, SuffixType DEF Seen
  <2> QED
    BY <1>3, <2>2, NotAFrameStays
<1>6. NoEarlier(Seen(byte), i)
  BY <1>5 DEF NoEarlier
<1> QED
  BY <1>1, <1>2, <1>4, <1>6

\* Only the last HeaderSize bytes of what was seen are kept.
Trimmed(all) == IF Len(all) <= HeaderSize THEN all
                ELSE SuffixFrom(all, Len(all) - HeaderSize + 1)

LEMMA TrimKeeps ==
  ASSUME NEW all \in Seq(Byte), NEW i \in 1 .. Len(all) + 1, NoEarlier(all, i),
         Len(all) - i + 1 <= HeaderSize
  PROVE  /\ Trimmed(all) \in Seq(Byte) /\ Len(Trimmed(all)) <= HeaderSize
         /\ \E k \in 1 .. Len(Trimmed(all)) + 1 :
              /\ SuffixFrom(all, i) = SuffixFrom(Trimmed(all), k)
              /\ Len(Trimmed(all)) - k = Len(all) - i
              /\ \A j \in 1 .. k - 1 : ~MayBeFrame(SuffixFrom(Trimmed(all), j))
<1> DEFINE m == IF Len(all) <= HeaderSize THEN 1 ELSE Len(all) - HeaderSize + 1
<1>1. Len(all) \in Nat /\ HeaderSize \in Nat /\ HeaderSize >= 1
  BY LenProperties, MagicType
<1>2. m \in 1 .. Len(all) + 1 /\ m <= i /\ Len(all) - m + 1 <= HeaderSize
  BY <1>1
<1>3. Trimmed(all) = SuffixFrom(all, m)
  <2>1. SuffixFrom(all, 1) = all
    BY SubSeqFull DEF SuffixFrom
  <2> QED
    BY <2>1 DEF Trimmed
<1> HIDE DEF m
<1>4. Trimmed(all) \in Seq(Byte) /\ Len(Trimmed(all)) = Len(all) - m + 1
  BY <1>2, <1>3, SuffixType
<1> DEFINE k == i - m + 1
<1>5. ASSUME NEW j \in 1 .. k PROVE SuffixFrom(Trimmed(all), j) = SuffixFrom(all, m + j - 1)
  <2>1. j \in 1 .. Len(all) - m + 2
    BY <1>1, <1>2
  <2> QED
    BY <1>2, <1>3, <2>1, SuffixOfSuffix
<1>6. k \in 1 .. Len(Trimmed(all)) + 1 /\ m + k - 1 = i /\ Len(Trimmed(all)) - k = Len(all) - i
  BY <1>1, <1>2, <1>4
<1>7. SuffixFrom(all, i) = SuffixFrom(Trimmed(all), k)
  <2>1. k \in 1 .. k
    BY <1>6
  <2> QED
    BY <1>5, <1>6, <2>1
<1>8. ASSUME NEW j \in 1 .. k - 1 PROVE ~MayBeFrame(SuffixFrom(Trimmed(all), j))
  <2>1. j \in 1 .. k /\ m + j - 1 \in 1 .. i - 1 /\ Len(all) - (m + j - 1) + 1 <= HeaderSize
    BY <1>1, <1>2, <1>6
  <2> QED
    BY <1>5, <2>1 DEF NoEarlier
<1> QED
  BY <1>1, <1>2, <1>4, <1>6, <1>7, <1>8

\* A frame that is complete, or that failed its payload CRC, leaves nothing.
LEMMA ConsumeEmpties ==
  ASSUME DecoderInv, NEW byte \in Byte, Consume(byte),
         EmptyFrame(byte) \/ LastPayloadByte(byte)
  PROVE  header' = <<>> /\ payload' = <<>> /\ fed' = <<>>
<1>1. header' = <<>> /\ payload' = <<>>
  BY DEF EmptyFrame, LastPayloadByte, DecoderReset
<1>2. CASE EmptyFrame(byte)
  <2>1. ready' # NotReady
    BY <1>2, HeadersKind, EmptyFrameIsHeader, FrameType DEF EmptyFrame
  <2> QED
    BY <1>1, <2>1 DEF Consume, Remember
<1>3. CASE LastPayloadByte(byte)
  BY <1>1, <1>3 DEF Consume, Remember, LastPayloadByte
<1> QED
  BY <1>1, <1>2, <1>3

LEMMA EmptyHoldsLongest ==
  ASSUME header' = <<>>, fed' = <<>>
  PROVE  HoldsLongest'
<1>1. <<>> = SuffixFrom(<<>>, 1)
  BY EmptyHeader, SubSeqFull DEF SuffixFrom
<1>2. \A j \in 1 .. 1 - 1 : ~MayBeFrame(SuffixFrom(<<>>, j))
  OBVIOUS
<1>3. 1 \in 1 .. Len(<<>>) + 1 /\ Len(<<>>) <= HeaderSize
  BY EmptyHeader, MagicType
<1>4. ~InPayload'
  BY EmptyHeader, MagicType DEF InPayload, HeaderSize
<1> QED
  BY <1>1, <1>2, <1>3, <1>4 DEF HoldsLongest, HeaderSize

LEMMA ConsumeKeepsLongest ==
  ASSUME DecoderInv, HoldsLongest, NEW byte \in Byte, Consume(byte)
  PROVE  HoldsLongest'
<1> DEFINE h == Append(header, byte)
           all == Seen(byte)
           last == Trimmed(all)
<1>1. CASE HeaderByte(byte) \/ BadHeader(byte)
  <2>1. ~InPayload /\ ready' = NotReady /\ payload' = payload
    BY <1>1 DEF HeaderByte, BadHeader
  <2>2. fed' = last
    BY <2>1 DEF Consume, Remember, Seen, Trimmed
  <2>3. /\ h \in Seq(Byte) /\ h # <<>> /\ Len(h) \in Nat /\ Len(h) <= HeaderSize
        /\ payload = <<>>
    BY <2>1, HeaderGrows, MagicType, LenProperties DEF DecoderInv
  <2>4. all \in Seq(Byte) /\ Len(all) \in Nat /\ Len(all) = Len(fed) + 1 /\ Len(fed) \in Nat
    BY <2>1, HeldGrows, LenProperties DEF DecoderInv
  <2>5. PICK i \in 1 .. Len(fed) + 1 : h = SuffixFrom(all, i) /\ NoEarlier(all, i)
    BY <2>1, HeldGrows
  <2> HIDE DEF h, all
  <2>6. i \in 1 .. Len(all) + 1 /\ Len(h) = Len(all) - i + 1
    <3>1. i \in 1 .. Len(all) + 1
      BY <2>4
    <3> QED
      BY <2>4, <2>5, <3>1, SuffixType
  <2>7. ASSUME NEW q \in 1 .. Len(all) + 1, header' = SuffixFrom(all, q), NoEarlier(all, q),
               Len(all) - q + 1 < HeaderSize
        PROVE  HoldsLongest'
    <3>1. Len(all) - q + 1 <= HeaderSize
      BY <2>4, <2>7, MagicType
    <3>2. Len(header') = Len(all) - q + 1
      BY <2>4, <2>7, SuffixType
    <3>3. ~InPayload'
      BY <2>4, <2>7, <3>2, MagicType DEF InPayload, HeaderSize
    <3>4. /\ Len(last) <= HeaderSize
          /\ \E k \in 1 .. Len(last) + 1 :
               /\ SuffixFrom(all, q) = SuffixFrom(last, k)
               /\ \A j \in 1 .. k - 1 : ~MayBeFrame(SuffixFrom(last, j))
      BY <2>4, <2>7, <3>1, TrimKeeps
    <3> HIDE DEF last
    <3>5. /\ Len(fed') <= HeaderSize
          /\ \E k \in 1 .. Len(fed') + 1 :
               /\ header' = SuffixFrom(fed', k)
               /\ \A j \in 1 .. k - 1 : ~MayBeFrame(SuffixFrom(fed', j))
      BY <2>2, <2>7, <3>4
    <3> QED
      BY <3>3, <3>5 DEF HoldsLongest, HeaderSize, MayBeFrame, SuffixFrom, Headers, FrameOf,
                        MagicPrefixOk, HeaderOf, KindOf
  <2>8. CASE HeaderByte(byte) /\ Len(h) < HeaderSize
    <3>1. header' = h
      BY <2>8 DEF HeaderByte, h
    <3> QED
      BY <2>5, <2>6, <2>7, <2>8, <3>1
  <2>9. CASE HeaderByte(byte) /\ Len(h) = HeaderSize
    <3>1. header' = h /\ payload' = <<>>
      BY <2>3, <2>9 DEF HeaderByte, h
    <3>2. Len(all) - i + 1 <= HeaderSize
      BY <2>4, <2>6, <2>9
    <3>3. PICK k \in 1 .. Len(last) + 1 :
            SuffixFrom(all, i) = SuffixFrom(last, k) /\ Len(last) - k = Len(all) - i
      BY <2>4, <2>5, <2>6, <3>2, TrimKeeps
    <3>4. last \in Seq(Byte) /\ Len(last) <= HeaderSize
      BY <2>4, <2>5, <2>6, <3>2, TrimKeeps
    <3> HIDE DEF last
    <3>5. k = 1
      BY <2>4, <2>6, <2>9, <3>3, <3>4, LenProperties
    <3>6. SuffixFrom(last, 1) = last
      BY <3>4, SubSeqFull DEF SuffixFrom
    <3>7. fed' = header' \o payload'
      BY <2>2, <2>3, <2>5, <3>1, <3>3, <3>5, <3>6, ConcatEmptySeq
    <3> QED
      BY <2>9, <3>1, <3>7 DEF HoldsLongest, InPayload, HeaderSize
  <2>10. CASE BadHeader(byte)
    <3>1. header' = Resync(h)
      BY <2>10 DEF BadHeader, h
    <3>2. PICK r \in 2 .. Len(h) + 1 :
            /\ Resync(h) = SuffixFrom(h, r)
            /\ \A j \in 2 .. r - 1 : ~MagicPrefixOk(SuffixFrom(h, j))
      BY <2>3, ResyncSuffix
    <3> DEFINE q == i + r - 1
    <3>3. q \in 1 .. Len(all) + 1 /\ Len(all) - q + 1 < HeaderSize
      BY <2>3, <2>4, <2>6, <3>2, MagicType
    <3>4. ASSUME NEW j \in 1 .. Len(h) + 1 PROVE SuffixFrom(h, j) = SuffixFrom(all, i + j - 1)
      <4>1. j \in 1 .. Len(all) - i + 2
        BY <2>4, <2>6
      <4> QED
        BY <2>4, <2>5, <2>6, <4>1, SuffixOfSuffix
    <3>5. header' = SuffixFrom(all, q)
      <4>1. r \in 1 .. Len(h) + 1
        BY <2>3, <3>2
      <4> QED
        BY <3>1, <3>2, <3>4, <4>1
    <3>6. ASSUME NEW j \in 1 .. q - 1, Len(all) - j + 1 <= HeaderSize
          PROVE  ~MayBeFrame(SuffixFrom(all, j))
      <4>1. CASE j < i
        <5>1. j \in 1 .. i - 1
          BY <2>6, <4>1
        <5> QED
          BY <2>5, <3>6, <5>1 DEF NoEarlier
      <4>2. CASE j = i
        <5>1. MagicPrefixOk(h) => (Len(h) = HeaderSize /\ h \notin Headers)
          BY <2>10 DEF BadHeader, h
        <5> QED
          BY <2>3, <2>5, <4>2, <5>1, ShortMayBeFrame
      <4>3. CASE j > i
        <5> DEFINE p == j - i + 1
        <5>1. p \in 2 .. r - 1 /\ p \in 1 .. Len(h) + 1 /\ i + p - 1 = j
          BY <2>3, <2>6, <3>2, <4>3
        <5>2. SuffixFrom(h, p) \in Seq(Byte) /\ Len(SuffixFrom(h, p)) = Len(h) - p + 1
          BY <2>3, <5>1, SuffixType
        <5>3. Len(SuffixFrom(h, p)) <= HeaderSize
          BY <2>3, <5>1, <5>2, MagicType
        <5>4. ~MayBeFrame(SuffixFrom(h, p))
          BY <3>2, <5>1, <5>2, <5>3, ShortMayBeFrame
        <5> QED
          BY <3>4, <5>1, <5>4
      <4> QED
        BY <2>4, <2>6, <4>1, <4>2, <4>3
    <3>7. NoEarlier(all, q)
      BY <3>6 DEF NoEarlier
    <3> HIDE DEF q
    <3> QED
      BY <2>7, <3>3, <3>5, <3>7
  <2> QED
    BY <1>1, <2>3, <2>8, <2>9, <2>10, MagicType
<1>2. CASE EmptyFrame(byte) \/ LastPayloadByte(byte)
  <2>1. header' = <<>> /\ fed' = <<>>
    BY <1>2, ConsumeEmpties
  <2> QED
    BY <2>1, EmptyHoldsLongest
<1>3. CASE PayloadByte(byte)
  <2>1. InPayload /\ header' = header /\ payload' = Append(payload, byte) /\ ready' = NotReady
    BY <1>3 DEF PayloadByte
  <2>2. fed' = Append(fed, byte)
    BY <2>1, EmptyHeader, MagicType DEF Consume, Remember, InPayload
  <2>3. header \o Append(payload, byte) = Append(header \o payload, byte)
    BY AppendToConcat DEF DecoderInv
  <2> QED
    BY <2>1, <2>2, <2>3 DEF HoldsLongest, InPayload, HeaderSize
<1> QED
  BY <1>1, <1>2, <1>3 DEF Consume

LEMMA HoldsLongestInit == Init => HoldsLongest
<1> SUFFICES ASSUME Init PROVE HoldsLongest
  OBVIOUS
<1>1. header = <<>> /\ fed = <<>>
  BY DEF Init, DecoderInit
<1>2. <<>> = SuffixFrom(<<>>, 1)
  BY EmptyHeader, SubSeqFull DEF SuffixFrom
<1>3. 1 \in 1 .. Len(<<>>) + 1 /\ Len(<<>>) <= HeaderSize /\ Len(<<>>) # HeaderSize
  BY EmptyHeader, MagicType
<1>4. \A j \in 1 .. 1 - 1 : ~MayBeFrame(SuffixFrom(<<>>, j))
  OBVIOUS
<1> QED
  BY <1>1, <1>2, <1>3, <1>4 DEF HoldsLongest, InPayload

LEMMA HoldsLongestNext == TypeInv /\ HoldsLongest /\ [Next]_vars => HoldsLongest'
<1> SUFFICES ASSUME TypeInv, HoldsLongest, [Next]_vars PROVE HoldsLongest'
  OBVIOUS
<1>1. CASE UNCHANGED <<header, payload, fed>>
  BY <1>1 DEF HoldsLongest, InPayload, HeaderSize
<1>2. CASE Feeds
  <2>1. Head(chunk) \in Byte /\ Consume(Head(chunk))
    BY <1>2, HeadTailProperties DEF Feeds, HandByte, TypeInv, FifoInv, FifoTypeOK
  <2> QED
    BY <2>1, ConsumeKeepsLongest DEF TypeInv
<1>3. CASE Polls
  BY <1>1, <1>3, EmptyHoldsLongest DEF Polls, IdleReset, NoIdleReset, DecoderReset, decoderVars
<1>4. CASE HostSendsInTurn \/ HostSendsAgain \/ HostWaits
  BY <1>1, <1>4 DEF HostSendsInTurn, HostSendsAgain, HostSends, HostWaits, decoderVars
<1>5. CASE LineCarries \/ LineDamages \/ LineLoses \/ LineAdds
  BY <1>1, <1>5 DEF LineCarries, LineDamages, LineLoses, LineAdds, Interrupt, decoderVars
<1>6. CASE Drains \/ DrainFinished \/ Handles
  BY <1>1, <1>6 DEF Drains, DrainFinished, Handles, decoderVars
<1>7. CASE UNCHANGED vars
  BY <1>1, <1>7 DEF vars, decoderVars
<1> QED
  BY <1>2, <1>3, <1>4, <1>5, <1>6, <1>7 DEF Next

\* What the decoder holds can be the start of a frame.
LEMMA HeldMayBeFrame ==
  ASSUME DecoderInv
  PROVE  header \o payload \in Seq(Byte) /\ MayBeFrame(header \o payload)
<1>1. /\ header \in Seq(Byte) /\ payload \in Seq(Byte)
      /\ Len(header) \in Nat /\ Len(payload) \in Nat
      /\ Len(header) <= HeaderSize /\ HeaderSize \in Nat \ {0}
  BY LenProperties, MagicType DEF DecoderInv
<1>2. /\ header \o payload \in Seq(Byte)
      /\ Len(header \o payload) = Len(header) + Len(payload)
      /\ \A i \in 1 .. Len(header) + Len(payload) :
           (header \o payload)[i] = IF i <= Len(header) THEN header[i] ELSE payload[i - Len(header)]
  BY <1>1, ConcatProperties
<1> DEFINE held == header \o payload
<1>3. CASE ~InPayload
  <2>1. held = header
    BY <1>1, <1>3, ConcatEmptySeq DEF DecoderInv, HeldIsPartial
  <2>2. Len(header) < HeaderSize
    BY <1>1, <1>3 DEF InPayload
  <2> QED
    BY <1>2, <2>1, <2>2 DEF MayBeFrame, DecoderInv
<1>4. CASE InPayload
  <2>1. Len(header) = HeaderSize /\ header \in Headers
        /\ Len(payload) < Len(PayloadOf[KindOf(header)])
    BY <1>4 DEF InPayload, DecoderInv, HeldIsPartial
  <2> HIDE DEF held
  <2>2. \A i \in 1 .. HeaderSize : held[i] = header[i]
    BY <1>1, <1>2, <2>1 DEF held
  <2>3. SubSeq(held, 1, HeaderSize) = header
    <3>1. \A i \in 1 .. HeaderSize : held[i] \in Byte
      BY <1>1, <2>1, <2>2, ElementOfSeq
    <3>2. /\ SubSeq(held, 1, HeaderSize) \in Seq(Byte)
          /\ Len(SubSeq(held, 1, HeaderSize)) = HeaderSize
          /\ \A i \in 1 .. HeaderSize : SubSeq(held, 1, HeaderSize)[i] = held[i]
      BY <1>1, <3>1, SubSeqProperties
    <3> QED
      BY <1>1, <2>1, <2>2, <3>2, SeqEqual
  <2>4. KindOf(held) = KindOf(header) /\ KindOf(header) \in Kind
    BY <1>1, <2>1, <2>2, HeadersKind DEF KindOf
  <2>5. Len(held) < Len(FrameOf(KindOf(held))) /\ ~(Len(held) < HeaderSize)
    BY <1>1, <1>2, <2>1, <2>4, FrameType DEF held
  <2>6. SubSeq(held, 1, HeaderSize) \in Headers
    BY <2>1, <2>3
  <2>7. MayBeFrame(held)
    BY <2>5, <2>6, Zenon DEF MayBeFrame
  <2> QED
    BY <1>2, <2>7 DEF held
<1> QED
  BY <1>3, <1>4

LEMMA LongestIsKept == DecoderInv /\ HoldsLongest => KeepsLongestCandidate
<1> SUFFICES ASSUME DecoderInv, HoldsLongest PROVE KeepsLongestCandidate
  OBVIOUS
<1> DEFINE starts == {i \in 1 .. Len(fed) + 1 : MayBeFrame(SuffixFrom(fed, i))}
           held == header \o payload
<1>1. fed \in Seq(Byte) /\ Len(fed) \in Nat
  BY LenProperties DEF DecoderInv
<1>2. \E i \in 1 .. Len(fed) + 1 :
        held = SuffixFrom(fed, i) /\ \A j \in 1 .. i - 1 : ~MayBeFrame(SuffixFrom(fed, j))
  <2>1. CASE InPayload
    <3>1. fed = held /\ SuffixFrom(fed, 1) = fed /\ 1 \in 1 .. Len(fed) + 1
      BY <1>1, <2>1, SubSeqFull DEF HoldsLongest, SuffixFrom
    <3>2. \A j \in 1 .. 1 - 1 : ~MayBeFrame(SuffixFrom(fed, j))
      OBVIOUS
    <3> QED
      BY <3>1, <3>2
  <2>2. CASE ~InPayload
    <3>1. held = header
      BY <2>2, ConcatEmptySeq DEF DecoderInv, HeldIsPartial
    <3> QED
      BY <2>2, <3>1 DEF HoldsLongest
  <2> QED
    BY <2>1, <2>2
<1>3. PICK i \in 1 .. Len(fed) + 1 :
        held = SuffixFrom(fed, i) /\ \A j \in 1 .. i - 1 : ~MayBeFrame(SuffixFrom(fed, j))
  BY <1>2
<1>4. i \in starts
  BY <1>3, HeldMayBeFrame
<1>5. \A j \in starts : i <= j
  BY <1>1, <1>3
<1>6. (CHOOSE k \in starts : \A j \in starts : k <= j) = i
  <2>1. \A k \in starts : (\A j \in starts : k <= j) => k = i
    BY <1>1, <1>4, <1>5
  <2> QED
    BY <1>4, <1>5, <2>1
<1> QED
  BY <1>3, <1>6 DEF KeepsLongestCandidate

\* The decoder never gives up on a frame that may still come: of what it has
\* seen it holds the longest suffix that can be the start of one
\* (boot_decoder_consume, boot_decoder_resync).
THEOREM DecoderKeepsLongest == Spec => []KeepsLongestCandidate
<1>1. TypeInv /\ HoldsLongest => KeepsLongestCandidate
  BY LongestIsKept DEF TypeInv
<1> QED
  BY <1>1, HoldsLongestInit, HoldsLongestNext, TypeInvHolds, PTL DEF Spec

-----------------------------------------------------------------------------
(* The bytes on their way: held by the decoder, in the main loop's chunk, in
   the ring, on the line *)

Partial == header \o payload
Pending == Taken \o (Contents \o wire)
Stream == Partial \o Pending

LEMMA TakenType ==
  ASSUME FifoInv
  PROVE  Taken \in Seq(Byte)
<1>1. CASE ~copied
  BY <1>1 DEF Taken, FifoInv, FifoTypeOK
<1>2. CASE copied
  <2>1. chunk \in Seq(Byte) /\ Len(chunk) \in Nat
    BY LenProperties DEF FifoInv, FifoTypeOK
  <2>2. \A i \in 1 .. Len(chunk) - 1 : chunk[i] \in Byte
    BY <2>1, ElementOfSeq
  <2>3. SubSeq(chunk, 1, Len(chunk) - 1) \in Seq(Byte)
    BY <2>1, <2>2, SubSeqProperties
  <2> QED
    BY <1>2, <2>3 DEF Taken
<1> QED
  BY <1>1, <1>2

LEMMA StreamType ==
  ASSUME TypeInv
  PROVE  /\ Taken \in Seq(Byte) /\ Contents \in Seq(Byte) /\ wire \in Seq(Byte)
         /\ Contents \o wire \in Seq(Byte)
         /\ Pending \in Seq(Byte) /\ Partial \in Seq(Byte) /\ Stream \in Seq(Byte)
<1>1. Taken \in Seq(Byte) /\ Contents \in Seq(Byte) /\ wire \in Seq(Byte)
  BY TakenType, ContentsType DEF TypeInv, FifoInv, LoopInv
<1>2. Contents \o wire \in Seq(Byte)
  BY <1>1, ConcatProperties
<1>3. Pending \in Seq(Byte) /\ Partial \in Seq(Byte)
  BY <1>1, <1>2, ConcatProperties DEF Pending, Partial, TypeInv, DecoderInv
<1> QED
  BY <1>1, <1>2, <1>3, ConcatProperties DEF Stream

\* The interrupt takes a byte from the line, the main loop one from the ring:
\* nothing changes as long as the ring has room.
LEMMA CarryMoves ==
  ASSUME TypeInv, TypeInv', LineCarries, ~FifoFull
  PROVE  /\ Contents' = Append(Contents, Head(wire)) /\ Taken' = Taken
         /\ Contents' \o wire' = Contents \o wire
<1>1. wire # <<>> /\ wire' = Tail(wire) /\ PushByte(Head(wire)) /\ Head(wire) \in Byte
  BY HeadOfWire DEF LineCarries, Interrupt, PushIsr, DropByte, TypeInv
<1>2. Contents' = Append(Contents, Head(wire))
  BY <1>1, PushAppends DEF TypeInv, FifoInv
<1>3. Taken' = Taken
  BY <1>1 DEF PushByte, Taken
<1>4. Append(Contents, Head(wire)) \o Tail(wire) = Contents \o wire
  BY <1>1, StreamType, MoveHead
<1> QED
  BY <1>1, <1>2, <1>3, <1>4

LEMMA AdvanceMoves ==
  ASSUME TypeInv, TypeInv', AdvanceTail
  PROVE  /\ Contents # <<>> /\ Contents' = Tail(Contents)
         /\ Taken' = Append(Taken, Head(Contents))
BY AdvanceIsTake DEF TypeInv, Queue!Take

LEMMA DrainsMoves ==
  ASSUME TypeInv, TypeInv', Drains
  PROVE  Pending' = Pending
<1>1. wire' = wire
  BY DEF Drains, hostVars
<1>2. CASE CopyByte
  BY <1>1, <1>2, CopyStutters DEF TypeInv, Queue!queueVars, Pending
<1>3. CASE AdvanceTail
  <2>1. /\ Contents # <<>> /\ Contents' = Tail(Contents)
        /\ Taken' = Append(Taken, Head(Contents))
    BY <1>3, AdvanceMoves
  <2>2. /\ Contents \o wire # <<>>
        /\ Head(Contents \o wire) = Head(Contents)
        /\ Tail(Contents \o wire) = Tail(Contents) \o wire
    BY <2>1, StreamType, HeadTailConcat
  <2>3. Append(Taken, Head(Contents \o wire)) \o Tail(Contents \o wire)
          = Taken \o (Contents \o wire)
    BY <2>2, StreamType, MoveHead
  <2> QED
    BY <1>1, <2>1, <2>2, <2>3 DEF Pending
<1> QED
  BY <1>2, <1>3 DEF Drains

LEMMA FeedsMoves ==
  ASSUME TypeInv, Feeds
  PROVE  /\ chunk # <<>> /\ chunk \in Seq(Byte) /\ Head(chunk) \in Byte
         /\ Taken = chunk /\ Taken' = Tail(chunk)
         /\ Contents' = Contents /\ wire' = wire
         /\ Pending # <<>> /\ Head(Pending) = Head(chunk) /\ Pending' = Tail(Pending)
<1>1. chunk # <<>> /\ ~copied /\ ~copied' /\ chunk' = Tail(chunk) /\ chunk \in Seq(Byte)
  BY DEF Feeds, HandByte, TypeInv, FifoInv, FifoTypeOK
<1>2. Taken = chunk /\ Taken' = Tail(chunk)
  BY <1>1 DEF Taken
<1>3. Contents' = Contents /\ wire' = wire
  BY DEF Feeds, HandByte, Contents, Held, SlotOf, hostVars
<1>4. /\ Pending # <<>> /\ Head(Pending) = Head(chunk)
      /\ Tail(Pending) = Tail(chunk) \o (Contents \o wire)
  BY <1>1, <1>2, StreamType, HeadTailConcat DEF Pending
<1>5. Head(chunk) \in Byte
  BY <1>1, HeadTailProperties
<1> QED
  BY <1>1, <1>2, <1>3, <1>4, <1>5 DEF Pending

\* Nothing else moves a byte, but the host and the line's faults.
LEMMA OthersKeepPending ==
  ASSUME TypeInv, HostWaits \/ DrainFinished \/ Handles \/ Polls \/ UNCHANGED vars
  PROVE  UNCHANGED <<Taken, Contents, wire, Pending>>
<1>1. UNCHANGED fifoVars /\ wire' = wire
  BY DEF HostWaits, DrainFinished, Handles, Polls, IdleReset, NoIdleReset, vars, hostVars
<1> QED
  BY <1>1 DEF fifoVars, Taken, Contents, Held, SlotOf, Pending

LEMMA SendAppends ==
  ASSUME TypeInv, HostSends
  PROVE  /\ UNCHANGED <<Taken, Contents, Partial>>
         /\ ~Done /\ Requests[request] \in Kind
         /\ Pending' = Pending \o FrameOf(Requests[request])
         /\ Stream' = Stream \o FrameOf(Requests[request])
<1>1. ~Done /\ wire = <<>> /\ wire' = FrameOf(Requests[request])
      /\ UNCHANGED <<fifoVars, decoderVars>>
  BY DEF HostSends
<1>2. UNCHANGED <<Taken, Contents, Partial>>
  BY <1>1 DEF fifoVars, decoderVars, Taken, Contents, Held, SlotOf, Partial
<1>3. Requests[request] \in Kind /\ FrameOf(Requests[request]) \in Seq(Byte)
  BY <1>1, RequestIsKind, FrameType DEF TypeInv
<1>4. Contents \o wire = Contents /\ Pending = Taken \o Contents
  BY <1>1, StreamType, ConcatEmptySeq DEF Pending
<1>5. Pending' = Pending \o FrameOf(Requests[request])
  <2>1. Pending' = Taken \o (Contents \o FrameOf(Requests[request]))
    BY <1>1, <1>2 DEF Pending
  <2>2. Taken \in Seq(Byte) /\ Contents \in Seq(Byte)
    BY StreamType
  <2>3. Taken \o (Contents \o FrameOf(Requests[request]))
          = (Taken \o Contents) \o FrameOf(Requests[request])
    BY <1>3, <2>2, Regroup, Zenon
  <2> QED
    BY <1>4, <2>1, <2>3, Zenon
<1>6. Stream' = Stream \o FrameOf(Requests[request])
  <2>1. Stream' = Partial \o (Pending \o FrameOf(Requests[request]))
    BY <1>2, <1>5 DEF Stream
  <2>2. Partial \o (Pending \o FrameOf(Requests[request]))
          = (Partial \o Pending) \o FrameOf(Requests[request])
    <3>1. Partial \in Seq(Byte) /\ Pending \in Seq(Byte)
      BY StreamType
    <3> QED
      BY <1>3, <3>1, Regroup, Zenon
  <2> QED
    BY <2>1, <2>2 DEF Stream
<1> QED
  BY <1>1, <1>2, <1>3, <1>5, <1>6

\* Whatever the bytes are that come in, those that wait are of the same kind.
LEMMA InterruptKeepsBytes ==
  ASSUME TypeInv, TypeInv', NEW STATE T, Contents \in Seq(T), Taken \in Seq(T),
         NEW byte \in Byte, byte \in T, Interrupt(byte)
  PROVE  Contents' \in Seq(T) /\ Taken' \in Seq(T)
<1>1. CASE PushByte(byte)
  <2>1. Contents' = Append(Contents, byte)
    BY <1>1, PushAppends DEF TypeInv, FifoInv
  <2>2. Taken' = Taken
    BY <1>1 DEF PushByte, Taken
  <2> QED
    BY <2>1, <2>2, AppendProperties
<1>2. CASE DropByte
  BY <1>2 DEF DropByte, fifoVars, Contents, Held, SlotOf, Taken
<1> QED
  BY <1>1, <1>2 DEF Interrupt, PushIsr

LEMMA DrainsKeepsBytes ==
  ASSUME TypeInv, TypeInv', NEW STATE T, Contents \in Seq(T), Taken \in Seq(T), Drains
  PROVE  Contents' \in Seq(T) /\ Taken' \in Seq(T)
<1>1. CASE CopyByte
  BY <1>1, CopyStutters DEF TypeInv, Queue!queueVars
<1>2. CASE AdvanceTail
  <2>1. /\ Contents # <<>> /\ Contents' = Tail(Contents)
        /\ Taken' = Append(Taken, Head(Contents))
    BY <1>2, AdvanceMoves
  <2>2. Contents' \in Seq(T) /\ Head(Contents) \in T
    BY <2>1, HeadTailProperties
  <2> QED
    BY <2>1, <2>2, AppendProperties
<1> QED
  BY <1>1, <1>2 DEF Drains

LEMMA FeedsKeepsBytes ==
  ASSUME TypeInv, NEW STATE T, Contents \in Seq(T), Taken \in Seq(T), Feeds
  PROVE  Contents' \in Seq(T) /\ Taken' \in Seq(T) /\ Head(chunk) \in T
<1>1. chunk # <<>> /\ Taken = chunk /\ Taken' = Tail(chunk) /\ Contents' = Contents
  BY FeedsMoves
<1> QED
  BY <1>1, HeadTailProperties

-----------------------------------------------------------------------------
(* Only what the host sent is run *)

\* The commands the host has sent, and the bytes that can be on their way: of
\* the rests of headers, only those of these commands.
Sent == {Requests[i] : i \in {j \in 1 .. Len(Requests) : j <= request}}
Known == (Byte \ Kind) \cup Sent

SentInv ==
  /\ wire \in Seq(Known) /\ Contents \in Seq(Known)
  /\ Taken \in Seq(Known) /\ header \in Seq(Known)
  /\ ready # NotReady => \E kind \in Sent : ready = FrameOf(kind)

LEMMA SentType ==
  ASSUME LoopInv
  PROVE  Sent \subseteq Kind /\ Known \subseteq Byte
BY RequestType, ReceiveAssumption DEF Sent, Known

\* The host only goes forward in its commands.
LEMMA KnownGrows ==
  ASSUME TypeInv, [Next]_vars
  PROVE  Sent \subseteq Sent' /\ Known \subseteq Known'
<1>1. request' = request \/ request' = request + 1
  BY DEF Next, HostSendsInTurn, HostSendsAgain, HostSends, HostWaits, LineCarries, LineDamages,
         LineLoses, LineAdds, Interrupt, Drains, DrainFinished, Feeds, Handles, Polls, hostVars,
         vars
<1>2. request \in Int
  BY RequestType DEF TypeInv, LoopInv
<1>3. Sent \subseteq Sent'
  BY <1>1, <1>2, RequestType DEF Sent
<1> QED
  BY <1>3 DEF Known

LEMMA SentInvInit == Init => SentInv
<1> SUFFICES ASSUME Init PROVE SentInv
  OBVIOUS
<1>1. wire = <<>> /\ header = <<>> /\ ready = NotReady /\ chunk = <<>> /\ ~copied /\ head = tail
  BY DEF Init, FifoInit, DecoderInit
<1>2. Contents = <<>>
  <2>1. Held = 0
    BY <1>1, FifoInvInit, HeldType DEF Init, FifoInv
  <2> QED
    BY <2>1, FifoInvInit, ContentsType, EmptySeq DEF Init, FifoInv
<1>3. Taken = <<>>
  BY <1>1 DEF Taken
<1> QED
  BY <1>1, <1>2, <1>3, EmptySeq DEF SentInv

\* The bytes of a frame of one of the host's commands.
LEMMA FrameIsKnown ==
  ASSUME LoopInv, NEW kind \in Sent
  PROVE  FrameOf(kind) \in Seq(Known)
<1>1. kind \in Kind /\ kind \in Known
  BY SentType DEF Known
<1>2. (Byte \ Kind) \subseteq Known
  BY DEF Known
<1>3. Magic \in Seq(Known) /\ PayloadOf[kind] \in Seq(Known)
  BY <1>1, <1>2, HeadersAreSent, SeqMonotonic
<1>4. HeaderOf(kind) \in Seq(Known)
  BY <1>1, <1>3, AppendProperties DEF HeaderOf
<1> QED
  BY <1>3, <1>4, ConcatProperties DEF FrameOf

\* What the decoder does with bytes that are known.
LEMMA ConsumeKeepsSent ==
  ASSUME TypeInv, SentInv, NEW byte \in Known, Consume(byte)
  PROVE  /\ header' \in Seq(Known)
         /\ ready' # NotReady => \E kind \in Sent : ready' = FrameOf(kind)
<1> DEFINE h == Append(header, byte)
<1>1. h \in Seq(Known) /\ header \in Seq(Known) /\ byte \in Byte
  BY AppendProperties, SentType DEF SentInv, TypeInv
<1>2. CASE HeaderByte(byte)
  BY <1>1, <1>2 DEF HeaderByte
<1>3. CASE BadHeader(byte)
  <2>1. header' = Resync(h) /\ ready' = NotReady /\ ~InPayload
    BY <1>3 DEF BadHeader
  <2>2. h \in Seq(Byte) /\ h # <<>>
    BY <1>1, <2>1, HeaderGrows DEF TypeInv
  <2> HIDE DEF h
  <2>3. PICK i \in 2 .. Len(h) + 1 : header' = SuffixFrom(h, i)
    BY <2>1, <2>2, ResyncSuffix
  <2>4. i \in 1 .. Len(h) + 1
    BY <2>2, <2>3, LenProperties
  <2>5. header' \in Seq(Known)
    BY <1>1, <2>3, <2>4, Suffix DEF SuffixFrom
  <2> QED
    BY <2>1, <2>5
<1>4. ASSUME NEW g \in Headers, g \in Seq(Known)
      PROVE  KindOf(g) \in Sent
  <2>1. KindOf(g) \in Kind /\ Len(g) = HeaderSize
    BY HeadersKind
  <2>2. KindOf(g) \in Known
    BY <1>4, <2>1, MagicType, ElementOfSeq DEF KindOf
  <2> QED
    BY <2>1, <2>2 DEF Known
<1>5. CASE EmptyFrame(byte)
  <2>1. /\ h \in Headers /\ PayloadOf[KindOf(h)] = <<>> /\ ready' = h /\ header' = <<>>
    BY <1>5 DEF EmptyFrame, DecoderReset
  <2>2. KindOf(h) \in Sent /\ h = FrameOf(KindOf(h))
    BY <1>1, <1>4, <2>1, HeadersKind, EmptyFrameIsHeader
  <2> QED
    BY <2>1, <2>2, EmptySeq
<1>6. CASE PayloadByte(byte)
  BY <1>1, <1>6 DEF PayloadByte
<1>7. CASE LastPayloadByte(byte)
  <2>1. /\ InPayload /\ header' = <<>>
        /\ ready' = IF Append(payload, byte) = PayloadOf[KindOf(header)]
                    THEN header \o Append(payload, byte) ELSE NotReady
    BY <1>7 DEF LastPayloadByte, DecoderReset
  <2>2. header \in Headers
    BY <2>1 DEF TypeInv, DecoderInv, HeldIsPartial
  <2>3. KindOf(header) \in Sent /\ header = HeaderOf(KindOf(header))
    BY <1>1, <1>4, <2>2, HeadersKind
  <2>4. ready' # NotReady => ready' = FrameOf(KindOf(header))
    BY <2>1, <2>3 DEF FrameOf
  <2> QED
    BY <2>1, <2>3, <2>4, EmptySeq
<1> QED
  BY <1>2, <1>3, <1>5, <1>6, <1>7 DEF Consume

LEMMA SentInvNext == TypeInv /\ TypeInv' /\ SentInv /\ [Next]_vars => SentInv'
<1> SUFFICES ASSUME TypeInv, TypeInv', SentInv, [Next]_vars PROVE SentInv'
  OBVIOUS
<1>1. Sent \subseteq Sent' /\ Known \subseteq Known' /\ Sent \subseteq Kind /\ Known \subseteq Byte
  BY KnownGrows, SentType DEF TypeInv
<1>2. SUFFICES /\ wire' \in Seq(Known) /\ Contents' \in Seq(Known)
               /\ Taken' \in Seq(Known) /\ header' \in Seq(Known)
               /\ ready' # NotReady => \E kind \in Sent : ready' = FrameOf(kind)
  BY <1>1, SeqMonotonic DEF SentInv
<1>3. (Byte \ Kind) \subseteq Known
  BY DEF Known
<1>4. CASE HostSendsInTurn \/ HostSendsAgain
  <2>1. HostSends
    BY <1>4 DEF HostSendsInTurn, HostSendsAgain
  <2>2. wire' = FrameOf(Requests[request]) /\ UNCHANGED <<header, ready>> /\ ~Done
    BY <2>1 DEF HostSends, decoderVars
  <2>3. Requests[request] \in Sent
    BY <2>2, RequestIsKind DEF Sent, TypeInv
  <2>4. wire' \in Seq(Known)
    BY <2>2, <2>3, FrameIsKnown DEF TypeInv
  <2> QED
    BY <2>1, <2>2, <2>4, SendAppends DEF SentInv
<1>5. CASE LineCarries
  <2>1. /\ wire # <<>> /\ wire' = Tail(wire) /\ Interrupt(Head(wire))
        /\ UNCHANGED <<header, ready>>
    BY <1>5 DEF LineCarries, Interrupt, decoderVars
  <2>2. Head(wire) \in Known /\ wire' \in Seq(Known)
    BY <2>1, HeadTailProperties DEF SentInv
  <2> QED
    BY <1>1, <2>1, <2>2, InterruptKeepsBytes DEF SentInv
<1>6. CASE LineDamages \/ LineAdds
  <2>1. PICK byte \in Noise : Interrupt(byte)
    BY <1>6 DEF LineDamages, LineAdds
  <2>2. byte \in Known
    BY <1>3, <2>1, ReceiveAssumption, HeadersAreSent
  <2>3. UNCHANGED <<header, ready>>
    BY <2>1 DEF Interrupt, decoderVars
  <2>4. wire' \in Seq(Known)
    BY <1>6, HeadTailProperties DEF LineDamages, LineAdds, SentInv
  <2> QED
    BY <1>1, <2>1, <2>2, <2>3, <2>4, InterruptKeepsBytes DEF SentInv
<1>7. CASE LineLoses
  <2>1. UNCHANGED <<header, ready, fifoVars>> /\ wire # <<>> /\ wire' = Tail(wire)
    BY <1>7 DEF LineLoses, decoderVars
  <2>2. wire' \in Seq(Known)
    BY <2>1, HeadTailProperties DEF SentInv
  <2> QED
    BY <2>1, <2>2 DEF SentInv, fifoVars, Contents, Held, SlotOf, Taken
<1>8. CASE Drains
  <2>1. UNCHANGED <<header, ready, wire>>
    BY <1>8 DEF Drains, decoderVars, hostVars
  <2> QED
    BY <1>8, <2>1, DrainsKeepsBytes DEF SentInv
<1>9. CASE Feeds
  <2>1. /\ Head(chunk) \in Known /\ Consume(Head(chunk))
        /\ Contents' \in Seq(Known) /\ Taken' \in Seq(Known) /\ wire' = wire
    BY <1>9, FeedsKeepsBytes, FeedsMoves DEF SentInv, Feeds
  <2> QED
    BY <2>1, ConsumeKeepsSent DEF SentInv
<1>10. CASE HostWaits \/ DrainFinished \/ UNCHANGED vars
  <2>1. UNCHANGED <<header, ready>>
    BY <1>10 DEF HostWaits, DrainFinished, vars, decoderVars
  <2> QED
    BY <1>10, <2>1, OthersKeepPending DEF SentInv
<1>11. CASE Handles
  BY <1>11, OthersKeepPending DEF SentInv, Handles
<1>12. CASE Polls
  <2>1. ready' = ready /\ (header' = header \/ header' = <<>>)
    BY <1>12 DEF Polls, IdleReset, NoIdleReset, DecoderReset, decoderVars
  <2> QED
    BY <1>12, <2>1, OthersKeepPending, EmptySeq DEF SentInv
<1> QED
  BY <1>4, <1>5, <1>6, <1>7, <1>8, <1>9, <1>10, <1>11, <1>12 DEF Next

LEMMA SentInvHolds == Spec => []SentInv
BY SentInvInit, SentInvNext, TypeInvHolds, PTL DEF Spec

\* Only what the host sent is run: a command that runs is the one the host
\* waits for, or an earlier one that it sent again; never one put together
\* from the bytes of two frames, or from a damaged one (boot_decoder_consume).
THEOREM OnlySentRuns == Spec => []OnlySentFramesRun
<1>1. TypeInv /\ SentInv => OnlySentFramesRun
  BY DEF TypeInv, LoopInv, SentInv, Sent, OnlySentFramesRun
<1> QED
  BY <1>1, TypeInvHolds, SentInvHolds, PTL

-----------------------------------------------------------------------------
(* A frame on its way, behind junk that holds no rest of a header *)

FrameAt(s, n, kind) ==
  /\ n + Len(FrameOf(kind)) <= Len(s)
  /\ \A i \in 1 .. n : s[i] \notin Kind
  /\ \A i \in 1 .. Len(FrameOf(kind)) : s[n + i] = FrameOf(kind)[i]

\* The rest of its header is the first one in the stream.
LEMMA FirstKind ==
  ASSUME NEW s \in Seq(Byte), NEW n \in Nat, NEW kind \in Kind, FrameAt(s, n, kind)
  PROVE  /\ n + HeaderSize \in 1 .. Len(s) /\ s[n + HeaderSize] = kind
         /\ \A i \in 1 .. Len(Magic) : s[n + i] = Magic[i]
         /\ \A i \in 1 .. n + HeaderSize - 1 : s[i] \notin Kind
<1>1. /\ Len(Magic) \in Nat \ {0} /\ HeaderSize = Len(Magic) + 1
      /\ HeaderSize \in Nat /\ HeaderSize >= 1 /\ Len(s) \in Nat
  BY MagicType, LenProperties
<1>2. Len(FrameOf(kind)) \in Nat /\ HeaderSize <= Len(FrameOf(kind))
  BY FrameLength
<1>3. HeaderSize \in 1 .. HeaderSize /\ \A i \in 1 .. Len(Magic) : i \in 1 .. HeaderSize
  BY <1>1
<1>4. /\ FrameOf(kind)[HeaderSize] = kind
      /\ \A i \in 1 .. Len(Magic) : FrameOf(kind)[i] = Magic[i]
  BY <1>3, FrameType, HeaderType
<1>6. n + HeaderSize <= Len(s) /\ n + HeaderSize \in 1 .. Len(s)
  <2>1. n + Len(FrameOf(kind)) <= Len(s)
    BY DEF FrameAt
  <2> QED
    BY <1>1, <1>2, <2>1
<1>7. \A i \in 1 .. HeaderSize : s[n + i] = FrameOf(kind)[i]
  <2>1. \A i \in 1 .. HeaderSize : i \in 1 .. Len(FrameOf(kind))
    BY <1>1, <1>2
  <2> QED
    BY <2>1 DEF FrameAt
<1>8. s[n + HeaderSize] = kind
  BY <1>3, <1>4, <1>7
<1>9. \A i \in 1 .. Len(Magic) : s[n + i] = Magic[i]
  BY <1>3, <1>4, <1>7
<1>5. ASSUME NEW i \in 1 .. n + HeaderSize - 1 PROVE s[i] \notin Kind
  <2>1. CASE i <= n
    <3>1. i \in 1 .. n
      BY <1>1, <2>1
    <3> QED
      BY <3>1 DEF FrameAt
  <2>2. CASE i > n
    <3>1. i - n \in 1 .. Len(Magic) /\ n + (i - n) = i
      BY <1>1, <2>2
    <3>2. s[i] = Magic[i - n]
      BY <1>9, <3>1
    <3> QED
      BY <3>1, <3>2, MagicType
  <2> QED
    BY <1>1, <2>1, <2>2
<1> QED
  BY <1>5, <1>6, <1>8, <1>9

LEMMA PartialElements ==
  ASSUME DecoderInv
  PROVE  /\ Partial \in Seq(Byte) /\ Len(Partial) = Len(header) + Len(payload)
         /\ Len(header) \in Nat /\ Len(payload) \in Nat
         /\ \A i \in 1 .. Len(header) : Partial[i] = header[i]
         /\ \A i \in 1 .. Len(payload) : Partial[Len(header) + i] = payload[i]
<1>1. header \in Seq(Byte) /\ payload \in Seq(Byte) /\ Len(header) \in Nat /\ Len(payload) \in Nat
  BY LenProperties DEF DecoderInv
<1>2. /\ Partial \in Seq(Byte) /\ Len(Partial) = Len(header) + Len(payload)
      /\ \A i \in 1 .. Len(header) + Len(payload) :
           Partial[i] = IF i <= Len(header) THEN header[i] ELSE payload[i - Len(header)]
  BY <1>1, ConcatProperties DEF Partial
<1>3. \A i \in 1 .. Len(header) : Partial[i] = header[i]
  BY <1>1, <1>2
<1>4. \A i \in 1 .. Len(payload) : Partial[Len(header) + i] = payload[i]
  BY <1>1, <1>2
<1> QED
  BY <1>1, <1>2, <1>3, <1>4

\* When the decoder waits for a payload, and a frame comes, it is that frame's.
LEMMA PayloadIsFrames ==
  ASSUME DecoderInv, InPayload, NEW s \in Seq(Byte), NEW n \in Nat, NEW kind \in Kind,
         FrameAt(s, n, kind), Len(Partial) <= Len(s),
         \A i \in 1 .. Len(Partial) : s[i] = Partial[i]
  PROVE  n = 0 /\ kind = KindOf(header)
<1>1. Len(header) = HeaderSize /\ header \in Headers
  BY DEF InPayload, DecoderInv, HeldIsPartial
<1>2. KindOf(header) \in Kind /\ header[HeaderSize] = KindOf(header)
  BY <1>1, HeadersKind DEF KindOf
<1>3. HeaderSize \in 1 .. Len(Partial) /\ s[HeaderSize] = KindOf(header)
  BY <1>1, <1>2, PartialElements, MagicType
<1>4. ~(HeaderSize \in 1 .. n + HeaderSize - 1)
  BY <1>2, <1>3, FirstKind
<1>5. n = 0
  BY <1>4, MagicType
<1> QED
  BY <1>3, <1>5, FirstKind, MagicType

\* What the decoder holds is never a whole frame.
LEMMA HeldIsShort ==
  ASSUME DecoderInv, NEW n \in Nat, NEW kind \in Kind
  PROVE  ~FrameAt(Partial, n, kind)
<1> SUFFICES ASSUME FrameAt(Partial, n, kind) PROVE FALSE
  OBVIOUS
<1>1. n + Len(FrameOf(kind)) <= Len(Partial)
  BY DEF FrameAt
<1>2. Len(FrameOf(kind)) = HeaderSize + Len(PayloadOf[kind]) /\ Len(PayloadOf[kind]) \in Nat
  BY FrameType
<1>3. /\ Len(Partial) = Len(header) + Len(payload) /\ Len(header) \in Nat /\ Len(payload) \in Nat
      /\ HeaderSize \in Nat
  BY PartialElements, MagicType
<1>4. CASE ~InPayload
  <2>1. Len(payload) = 0 /\ Len(header) < HeaderSize
    BY <1>3, <1>4, EmptySeq DEF DecoderInv, HeldIsPartial, InPayload
  <2> QED
    BY <1>1, <1>2, <1>3, <2>1
<1>5. CASE InPayload
  <2>1. n = 0 /\ kind = KindOf(header)
    <3>1. /\ Partial \in Seq(Byte) /\ Len(Partial) <= Len(Partial)
          /\ \A i \in 1 .. Len(Partial) : Partial[i] = Partial[i]
      BY <1>3, PartialElements
    <3> QED
      BY <1>5, <3>1, PayloadIsFrames
  <2>2. Len(header) = HeaderSize /\ Len(payload) < Len(PayloadOf[kind])
    BY <1>5, <2>1 DEF InPayload, DecoderInv, HeldIsPartial
  <2> QED
    BY <1>1, <1>2, <1>3, <2>1, <2>2
<1> QED
  BY <1>4, <1>5

\* A header that fails is not the beginning of the frame that comes, and the
\* beginning of that frame is not passed over.
LEMMA FrameStartsLater ==
  ASSUME NEW s \in Seq(Byte), NEW n \in Nat, NEW kind \in Kind, FrameAt(s, n, kind),
         NEW h \in Seq(Byte), Len(h) <= HeaderSize, \A i \in 1 .. Len(h) : h[i] = s[i],
         n + 1 <= Len(h)
  PROVE  MagicPrefixOk(SuffixFrom(h, n + 1))
<1> DEFINE g == SuffixFrom(h, n + 1)
<1>1. Len(h) \in Nat /\ n + 1 \in 1 .. Len(h) + 1
  BY LenProperties
<1>2. g \in Seq(Byte) /\ Len(g) = Len(h) - n
      /\ \A i \in 1 .. Len(h) - n : g[i] = h[n + i]
  <2>1. Len(h) - (n + 1) + 1 = Len(h) - n
    BY <1>1
  <2>2. g \in Seq(Byte) /\ Len(g) = Len(h) - (n + 1) + 1
        /\ \A i \in 1 .. Len(h) - (n + 1) + 1 : g[i] = h[(n + 1) + i - 1]
    BY <1>1, SuffixType
  <2>3. ASSUME NEW i \in 1 .. Len(h) - n PROVE g[i] = h[n + i]
    <3>1. (n + 1) + i - 1 = n + i
      BY <1>1
    <3> QED
      BY <2>1, <2>2, <3>1
  <2> QED
    BY <2>1, <2>2, <2>3
<1> HIDE DEF g
<1>3. ASSUME NEW i \in 1 .. Len(g), i <= Len(Magic) PROVE g[i] = Magic[i]
  <2>1. i \in 1 .. Len(h) - n /\ n + i \in 1 .. Len(h) /\ i \in 1 .. Len(Magic)
    BY <1>1, <1>2, <1>3, MagicType
  <2> QED
    BY <1>2, <2>1, FirstKind
<1> QED
  BY <1>2, <1>3, PrefixElements DEF g

LEMMA FrameStartsWell ==
  ASSUME NEW s \in Seq(Byte), NEW n \in Nat, NEW kind \in Kind, FrameAt(s, n, kind),
         NEW h \in Seq(Byte), h # <<>>, Len(h) <= HeaderSize,
         \A i \in 1 .. Len(h) : h[i] = s[i],
         MagicPrefixOk(h) => (Len(h) = HeaderSize /\ h \notin Headers)
  PROVE  n # 0
<1> SUFFICES ASSUME n = 0 PROVE FALSE
  OBVIOUS
<1>1. Len(h) \in Nat /\ n + 1 <= Len(h) /\ n + 1 = 1
  BY EmptySeq
<1>2. MagicPrefixOk(SuffixFrom(h, n + 1))
  BY <1>1, FrameStartsLater
<1>3. SuffixFrom(h, 1) = h
  BY SubSeqFull DEF SuffixFrom
<1>4. Len(h) = HeaderSize /\ h \notin Headers
  BY <1>1, <1>2, <1>3
<1>5. HeaderOf(kind) \in Seq(Byte) /\ Len(HeaderOf(kind)) = HeaderSize /\ HeaderOf(kind) \in Headers
  BY HeaderType
<1>6. ASSUME NEW i \in 1 .. HeaderSize PROVE h[i] = HeaderOf(kind)[i]
  <2>1. i \in 1 .. Len(FrameOf(kind)) /\ n + i = i
    BY FrameLength
  <2>2. s[i] = FrameOf(kind)[i]
    BY <2>1 DEF FrameAt
  <2> QED
    BY <1>4, <2>2, FrameType
<1>7. h = HeaderOf(kind)
  BY <1>4, <1>5, <1>6, SeqEqual
<1> QED
  BY <1>4, <1>5, <1>7

\* What the decoder consumes when a frame is coming: junk before the frame, or
\* the frame, which it hands over.
Advances(s, n, kind) ==
  \/ ready' = NotReady /\ \E d \in 0 .. n : Stream' = SuffixFrom(s, d + 1)
  \/ n = 0 /\ ready' = FrameOf(kind) /\ Stream' = SuffixFrom(s, Len(FrameOf(kind)) + 1)

LEMMA FeedsAdvances ==
  ASSUME TypeInv, TypeInv', Feeds, NEW n \in Nat, NEW kind \in Kind, FrameAt(Stream, n, kind)
  PROVE  Advances(Stream, n, kind)
<1> DEFINE byte == Head(chunk)
           rest == Tail(Pending)
           h == Append(header, byte)
<1>0. SUFFICES ASSUME NEW s, s = Stream, FrameAt(s, n, kind) PROVE Advances(s, n, kind)
  OBVIOUS
<1>1. /\ byte \in Byte /\ Pending # <<>> /\ Head(Pending) = byte /\ Pending' = rest
      /\ Consume(byte)
  BY FeedsMoves DEF Feeds
<1>2. rest \in Seq(Byte) /\ s \in Seq(Byte) /\ Partial \in Seq(Byte) /\ Pending \in Seq(Byte)
  BY <1>0, <1>1, StreamType, HeadTailProperties
<1>3. Append(Partial, byte) \in Seq(Byte) /\ s = Append(Partial, byte) \o rest
      /\ Len(Append(Partial, byte)) = Len(Partial) + 1
  BY <1>0, <1>1, <1>2, MoveHead, AppendProperties DEF Stream
<1>4. Stream' = Partial' \o rest
  BY <1>1 DEF Stream
<1>5. Len(s) \in Nat /\ Len(Partial) \in Nat /\ SuffixFrom(s, 1) = s
  BY <1>2, LenProperties, SubSeqFull DEF SuffixFrom
<1>6. Len(Partial) + 1 <= Len(s)
      /\ \A i \in 1 .. Len(Partial) + 1 : s[i] = Append(Partial, byte)[i]
  <2> DEFINE a == Append(Partial, byte)
  <2>1. a \in Seq(Byte) /\ rest \in Seq(Byte) /\ Len(a) = Len(Partial) + 1 /\ s = a \o rest
    BY <1>2, <1>3
  <2> HIDE DEF a, rest
  <2>2. Len(rest) \in Nat /\ Len(s) = Len(a) + Len(rest)
        /\ \A i \in 1 .. Len(a) + Len(rest) : s[i] = IF i <= Len(a) THEN a[i] ELSE rest[i - Len(a)]
    BY <2>1, ConcatProperties, LenProperties
  <2> QED
    BY <1>5, <2>1, <2>2 DEF a
<1>7. \A i \in 1 .. Len(Partial) : s[i] = Partial[i]
  <2>1. \A i \in 1 .. Len(Partial) : Append(Partial, byte)[i] = Partial[i]
    BY <1>1, <1>2, AppendProperties
  <2> QED
    BY <1>5, <1>6, <2>1
<1>8. ASSUME Stream' = s, ready' = NotReady PROVE Advances(s, n, kind)
  <2>1. 0 \in 0 .. n /\ 0 + 1 = 1
    OBVIOUS
  <2> QED
    BY <1>5, <1>8, <2>1 DEF Advances
<1>9. ASSUME ~InPayload
      PROVE  /\ Partial = header /\ payload = <<>> /\ h \in Seq(Byte) /\ h # <<>>
             /\ Len(h) \in Nat /\ Len(h) <= Len(s) /\ Len(h) <= HeaderSize /\ s = h \o rest
             /\ \A i \in 1 .. Len(h) : h[i] = s[i]
  <2>1. payload = <<>> /\ h \in Seq(Byte) /\ h # <<>> /\ Len(header) < HeaderSize
        /\ Len(h) = Len(header) + 1 /\ header \in Seq(Byte)
    BY <1>1, <1>9, HeaderGrows DEF TypeInv, DecoderInv
  <2>2. Partial = header
    BY <2>1, ConcatEmptySeq DEF Partial
  <2>3. Append(Partial, byte) = h
    BY <2>2
  <2> HIDE DEF h
  <2>4. Len(h) \in Nat /\ Len(h) <= Len(s) /\ Len(h) <= HeaderSize
    BY <1>5, <1>6, <2>1, <2>2, MagicType
  <2>5. \A i \in 1 .. Len(h) : h[i] = s[i]
    BY <1>6, <2>1, <2>2, <2>3
  <2> QED
    BY <1>3, <2>1, <2>2, <2>3, <2>4, <2>5
<1>10. ASSUME InPayload
       PROVE  n = 0 /\ kind = KindOf(header) /\ header = HeaderOf(kind) /\ Len(header) = HeaderSize
  <2>1. DecoderInv /\ Len(Partial) <= Len(s) /\ FrameAt(s, n, kind)
    BY <1>0, <1>5, <1>6 DEF TypeInv
  <2>2. n = 0 /\ kind = KindOf(header)
    BY <1>2, <1>7, <1>10, <2>1, PayloadIsFrames
  <2> QED
    BY <1>10, <2>1, <2>2, HeadersKind DEF DecoderInv, HeldIsPartial, InPayload
<1>16. Append(Partial, byte) = header \o Append(payload, byte)
  <2>1. header \in Seq(Byte) /\ payload \in Seq(Byte)
    BY DEF TypeInv, DecoderInv
  <2>2. byte \in Byte
    BY <1>1
  <2> HIDE DEF byte
  <2>3. header \o Append(payload, byte) = Append(header \o payload, byte)
    BY <2>1, <2>2, AppendToConcat
  <2> QED
    BY <2>3 DEF Partial
<1> HIDE DEF byte, rest
<1>11. CASE HeaderByte(byte)
  <2>1. ~InPayload /\ header' = h /\ payload' = payload /\ ready' = NotReady
    BY <1>11 DEF HeaderByte
  <2>2. Partial' = h
    BY <1>9, <2>1, ConcatEmptySeq DEF Partial
  <2> QED
    BY <1>4, <1>8, <1>9, <2>1, <2>2
<1>12. CASE BadHeader(byte)
  <2>1. ~InPayload /\ header' = Resync(h) /\ payload' = payload /\ ready' = NotReady
        /\ (MagicPrefixOk(h) => (Len(h) = HeaderSize /\ h \notin Headers))
    BY <1>12 DEF BadHeader
  <2>2. /\ Partial = header /\ payload = <<>> /\ h \in Seq(Byte) /\ h # <<>>
        /\ Len(h) \in Nat /\ Len(h) <= Len(s) /\ Len(h) <= HeaderSize /\ s = h \o rest
        /\ \A i \in 1 .. Len(h) : h[i] = s[i]
    BY <1>9, <2>1
  <2> HIDE DEF h
  <2>3. PICK r \in 2 .. Len(h) + 1 :
          /\ Resync(h) = SuffixFrom(h, r)
          /\ \A j \in 2 .. r - 1 : ~MagicPrefixOk(SuffixFrom(h, j))
    BY <2>2, ResyncSuffix
  <2>4. r \in 1 .. Len(h) + 1 /\ header' = SuffixFrom(h, r)
    BY <2>1, <2>2, <2>3
  <2>5. Partial' = SuffixFrom(h, r)
    BY <2>1, <2>2, <2>4, SuffixType, ConcatEmptySeq DEF Partial
  <2>6. Stream' = SuffixFrom(s, r)
    BY <1>2, <1>4, <2>2, <2>4, <2>5, SuffixOfConcat
  <2>7. n # 0
    BY <1>0, <1>2, <2>1, <2>2, FrameStartsWell
  <2>8. r - 1 \in 0 .. n
    <3>1. CASE n + 1 > Len(h)
      BY <2>2, <2>4, <3>1
    <3>2. CASE n + 1 <= Len(h)
      <4>1. n + 1 \in 1 .. Len(h) + 1 /\ n + 1 \in 2 .. Len(h)
        BY <2>2, <2>7, <3>2
      <4>2. MagicPrefixOk(SuffixFrom(h, n + 1))
        BY <1>0, <1>2, <2>2, <3>2, FrameStartsLater
      <4>3. ~(n + 1 \in 2 .. r - 1)
        BY <2>3, <4>2
      <4> QED
        BY <2>2, <2>4, <4>1, <4>3
    <3> QED
      BY <2>2, <3>1, <3>2
  <2>9. r = (r - 1) + 1
    BY <2>4
  <2> QED
    BY <2>1, <2>6, <2>8, <2>9 DEF Advances
<1>13. CASE EmptyFrame(byte)
  <2>1. /\ ~InPayload /\ h \in Headers /\ PayloadOf[KindOf(h)] = <<>> /\ ready' = h
        /\ header' = <<>> /\ payload' = <<>>
    BY <1>13 DEF EmptyFrame, DecoderReset
  <2>2. /\ h \in Seq(Byte) /\ Len(h) = HeaderSize /\ KindOf(h) \in Kind /\ h = HeaderOf(KindOf(h))
    BY <2>1, HeadersKind
  <2>3. s = h \o rest /\ Len(h) <= Len(s) /\ \A i \in 1 .. Len(h) : h[i] = s[i]
    BY <1>9, <2>1
  <2> HIDE DEF h
  <2>4. s[HeaderSize] = KindOf(h) /\ HeaderSize \in Nat
    BY <2>2, <2>3, MagicType DEF KindOf
  <2>5. ~(HeaderSize \in 1 .. n + HeaderSize - 1)
    BY <1>0, <1>2, <2>2, <2>4, FirstKind
  <2>6. n = 0
    BY <2>4, <2>5, MagicType
  <2>7. KindOf(h) = kind
    BY <1>0, <1>2, <2>4, <2>6, FirstKind, MagicType
  <2>8. h = FrameOf(kind)
    BY <2>1, <2>2, <2>7, EmptyFrameIsHeader
  <2>9. Stream' = rest
    BY <1>2, <1>4, <2>1, ConcatEmptySeq, EmptyHeader DEF Partial
  <2>10. SuffixFrom(s, Len(h) + 1) = rest
    BY <1>2, <2>2, <2>3, SuffixAfter
  <2> QED
    BY <2>1, <2>6, <2>8, <2>9, <2>10 DEF Advances
<1>14. CASE PayloadByte(byte)
  <2>1. header' = header /\ payload' = Append(payload, byte) /\ ready' = NotReady
    BY <1>14 DEF PayloadByte
  <2>2. Partial' = Append(Partial, byte)
    BY <1>16, <2>1 DEF Partial
  <2> QED
    BY <1>3, <1>4, <1>8, <2>1, <2>2
<1>15. CASE LastPayloadByte(byte)
  <2>1. /\ InPayload /\ header' = <<>> /\ payload' = <<>>
        /\ Len(payload) + 1 = Len(PayloadOf[KindOf(header)])
    BY <1>15 DEF LastPayloadByte, DecoderReset
  <2>2. n = 0 /\ kind = KindOf(header) /\ header = HeaderOf(kind) /\ Len(header) = HeaderSize
    BY <1>10, <2>1
  <2>3. Append(Partial, byte) = header \o Append(payload, byte)
    BY <1>16
  <2>4. Append(Partial, byte) = FrameOf(kind)
    <3>1. Len(Append(Partial, byte)) = Len(FrameOf(kind))
      <4>1. Len(Partial) = HeaderSize + Len(payload) /\ Len(payload) \in Nat /\ HeaderSize \in Nat
        BY <2>2, PartialElements, MagicType DEF TypeInv
      <4>2. Len(FrameOf(kind)) = HeaderSize + (Len(payload) + 1)
        BY <2>1, <2>2, FrameType
      <4> QED
        BY <1>3, <4>1, <4>2
    <3>2. ASSUME NEW i \in 1 .. Len(FrameOf(kind)) PROVE Append(Partial, byte)[i] = FrameOf(kind)[i]
      <4>1. s[n + i] = FrameOf(kind)[i]
        BY <1>0 DEF FrameAt
      <4>2. i \in 1 .. Len(Partial) + 1 /\ n + i = i
        BY <1>3, <2>2, <3>1
      <4> QED
        BY <1>6, <4>1, <4>2
    <3> QED
      BY <1>3, <3>1, <3>2, FrameType, SeqEqual
  <2>5. Append(payload, byte) = PayloadOf[kind]
    <3>1. /\ header \in Seq(Byte) /\ Append(payload, byte) \in Seq(Byte)
          /\ PayloadOf[kind] \in Seq(Byte)
      BY <1>1, FrameType, AppendProperties DEF TypeInv, DecoderInv
    <3>2. header \o Append(payload, byte) = header \o PayloadOf[kind]
      BY <2>2, <2>3, <2>4 DEF FrameOf
    <3> QED
      BY <3>1, <3>2, ConcatSimplifications
  <2>6. ready' = FrameOf(kind)
    BY <1>15, <2>2, <2>3, <2>4, <2>5 DEF LastPayloadByte
  <2>7. Stream' = rest
    BY <1>2, <1>4, <2>1, ConcatEmptySeq, EmptyHeader DEF Partial
  <2>8. SuffixFrom(s, Len(FrameOf(kind)) + 1) = rest
    BY <1>2, <1>3, <2>4, SuffixAfter
  <2> QED
    BY <2>2, <2>6, <2>7, <2>8 DEF Advances
<1> QED
  BY <1>1, <1>11, <1>12, <1>13, <1>14, <1>15 DEF Consume

-----------------------------------------------------------------------------
(* A host that waits: at most one frame is on its way, and it fits the ring *)

LEMMA StreamEmpty ==
  ASSUME TypeInv
  PROVE  Stream = <<>> <=> /\ header = <<>> /\ payload = <<>>
                           /\ Taken = <<>> /\ Contents = <<>> /\ wire = <<>>
<1>1. ASSUME NEW s \in Seq(Byte), NEW t \in Seq(Byte)
      PROVE  s \o t = <<>> <=> s = <<>> /\ t = <<>>
  BY ConcatEqualIffEmpty
<1>2. /\ header \in Seq(Byte) /\ payload \in Seq(Byte)
      /\ Partial \in Seq(Byte) /\ Pending \in Seq(Byte)
      /\ Taken \in Seq(Byte) /\ Contents \in Seq(Byte) /\ wire \in Seq(Byte)
      /\ Contents \o wire \in Seq(Byte)
  BY StreamType DEF TypeInv, DecoderInv
<1>3. Stream = <<>> <=> Partial = <<>> /\ Pending = <<>>
  BY <1>1, <1>2 DEF Stream
<1>4. Partial = <<>> <=> header = <<>> /\ payload = <<>>
  BY <1>1, <1>2 DEF Partial
<1>5. Pending = <<>> <=> Taken = <<>> /\ Contents = <<>> /\ wire = <<>>
  BY <1>1, <1>2 DEF Pending
<1> QED
  BY <1>3, <1>4, <1>5

\* An empty ring, an empty chunk and a quiet line: all there is, the decoder
\* holds.
LEMMA NothingPending ==
  ASSUME TypeInv, FifoEmpty, chunk = <<>>, wire = <<>>
  PROVE  /\ Contents = <<>> /\ Taken = <<>> /\ Pending = <<>>
         /\ Stream = Partial
<1>1. Contents = <<>>
  BY HeldType, ContentsType, EmptySeq DEF TypeInv, FifoInv, FifoEmpty
<1>2. Taken = <<>>
  BY DEF TypeInv, FifoInv, CopyHeld, FifoEmpty, Taken
<1>3. Pending = <<>>
  BY <1>1, <1>2, EmptySeq, ConcatEmptySeq DEF Pending
<1> QED
  BY <1>1, <1>2, <1>3, StreamType, ConcatEmptySeq DEF Stream

\* A full ring holds FifoSize - 1 bytes.
LEMMA FullRing ==
  ASSUME TypeInv, FifoFull
  PROVE  Len(Contents) = FifoSize - 1
<1>1. Held = FifoSize - 1
  BY RxFifoAssumption DEF FifoFull, NextIndex, Held, Index, TypeInv, FifoInv, FifoTypeOK
<1> QED
  BY <1>1, ContentsType DEF TypeInv, FifoInv

\* What is in the ring is not all there is while the line still has bytes.
LEMMA WireIsExtra ==
  ASSUME TypeInv, wire # <<>>
  PROVE  Len(Contents) < Len(Stream)
<1>1. ASSUME NEW s \in Seq(Byte), NEW t \in Seq(Byte)
      PROVE  Len(s) \in Nat /\ Len(t) \in Nat /\ Len(s \o t) = Len(s) + Len(t)
  BY ConcatProperties, LenProperties
<1>2. /\ Len(Contents \o wire) = Len(Contents) + Len(wire)
      /\ Len(Pending) = Len(Taken) + Len(Contents \o wire)
      /\ Len(Stream) = Len(Partial) + Len(Pending)
      /\ Len(Contents) \in Nat /\ Len(wire) \in Nat /\ Len(Taken) \in Nat /\ Len(Partial) \in Nat
  BY <1>1, StreamType DEF Pending, Stream
<1>3. Len(wire) # 0
  BY StreamType, EmptySeq
<1> QED
  BY <1>2, <1>3

\* A frame in front.
LEMMA FrameInFront ==
  ASSUME NEW kind \in Kind, NEW t \in Seq(Byte)
  PROVE  /\ FrameOf(kind) \o t \in Seq(Byte)
         /\ FrameAt(FrameOf(kind) \o t, 0, kind)
         /\ SuffixFrom(FrameOf(kind) \o t, 1) = FrameOf(kind) \o t
         /\ SuffixFrom(FrameOf(kind) \o t, Len(FrameOf(kind)) + 1) = t
<1> DEFINE f == FrameOf(kind)
           s == f \o t
<1>1. f \in Seq(Byte) /\ Len(f) \in Nat /\ Len(t) \in Nat
  BY FrameType, LenProperties
<1> HIDE DEF f
<1>2. s \in Seq(Byte) /\ Len(s) = Len(f) + Len(t)
      /\ \A i \in 1 .. Len(f) + Len(t) : s[i] = IF i <= Len(f) THEN f[i] ELSE t[i - Len(f)]
  BY <1>1, ConcatProperties
<1> HIDE DEF s
<1>3. 0 + Len(f) <= Len(s) /\ \A i \in 1 .. Len(f) : s[0 + i] = f[i]
  BY <1>1, <1>2
<1>4. FrameAt(s, 0, kind)
  BY <1>3 DEF FrameAt, f
<1>5. SuffixFrom(s, 1) = s
  BY <1>2, SubSeqFull DEF SuffixFrom
<1>6. SuffixFrom(s, Len(f) + 1) = t
  BY <1>1, SuffixAfter DEF s
<1> QED
  BY <1>2, <1>4, <1>5, <1>6 DEF f, s

LEMMA FrameAlone ==
  ASSUME NEW kind \in Kind
  PROVE  /\ FrameAt(FrameOf(kind), 0, kind)
         /\ SuffixFrom(FrameOf(kind), 1) = FrameOf(kind)
         /\ SuffixFrom(FrameOf(kind), Len(FrameOf(kind)) + 1) = <<>>
<1>1. FrameOf(kind) \o <<>> = FrameOf(kind) /\ <<>> \in Seq(Byte)
  BY FrameType, ConcatEmptySeq, EmptySeq
<1> QED
  BY <1>1, FrameInFront

Idle == Stream = <<>> /\ ready = NotReady
Flying == /\ ~Done /\ pause = "none"
          /\ ready = NotReady /\ Stream = FrameOf(Requests[request])
Arrived == /\ ~Done /\ pause = "none"
           /\ ready = FrameOf(Requests[request]) /\ Stream = <<>>

\* The idle time does not pass while a frame is coming in: needed because an
\* idle reset would leave the rest of the frame in the ring.
WaitingInv ==
  (faults = 0 /\ impatient = 0) =>
    /\ ~overflow
    /\ Idle \/ Flying \/ Arrived
    /\ (InFrame \/ pc = "feed") => ~quiet

LEMMA WaitingInvInit == Init => WaitingInv
<1> SUFFICES ASSUME Init PROVE WaitingInv
  OBVIOUS
<1>1. TypeInv
  BY TypeInvInit
<1>2. header = <<>> /\ payload = <<>> /\ ready = NotReady /\ wire = <<>> /\ FifoEmpty
      /\ chunk = <<>> /\ ~overflow /\ pc = "drain"
  BY DEF Init, DecoderInit, FifoInit, FifoEmpty
<1>3. Stream = <<>>
  BY <1>1, <1>2, NothingPending, EmptySeq, ConcatEmptySeq DEF Partial
<1> QED
  BY <1>2, <1>3 DEF WaitingInv, Idle, InFrame

LEMMA WaitingInvNext == TypeInv /\ TypeInv' /\ WaitingInv /\ [Next]_vars => WaitingInv'
<1> SUFFICES ASSUME TypeInv, TypeInv', WaitingInv, [Next]_vars,
                    faults' = 0, impatient' = 0
             PROVE  WaitingInv'
  BY DEF WaitingInv
<1>1. faults = 0 /\ impatient = 0
  <2>1. faults' = faults \/ faults' = faults + 1
    BY DEF Next, HostSendsInTurn, HostSendsAgain, HostSends, HostWaits, LineCarries, LineDamages,
           LineLoses, LineAdds, Fault, Drains, DrainFinished, Feeds, Handles, Polls, vars
  <2>2. impatient' = impatient \/ impatient' = impatient + 1
    BY DEF Next, HostSendsInTurn, HostSendsAgain, HostWaits, LineCarries, LineDamages,
           LineLoses, LineAdds, Interrupt, Drains, DrainFinished, Feeds, Handles, Polls,
           hostVars, vars
  <2>3. faults \in Nat /\ impatient \in Nat
    BY DEF TypeInv, LoopInv
  <2> QED
    BY <2>1, <2>2, <2>3
<1>2. ~overflow /\ (Idle \/ Flying \/ Arrived) /\ ((InFrame \/ pc = "feed") => ~quiet)
  BY <1>1 DEF WaitingInv
<1>3. /\ (Flying \/ Arrived) => Requests[request] \in Kind
      /\ Arrived => ready # NotReady /\ pc = "handle"
      /\ (Idle \/ Flying) => pc # "handle"
  BY RequestIsKind, FrameType DEF Flying, Arrived, Idle, TypeInv, LoopInv
<1>4. Stream = <<>> => ~InFrame /\ wire = <<>> /\ Taken = <<>>
  BY StreamEmpty DEF InFrame
<1>5. CASE HostSendsInTurn
  <2>1. HostSends /\ pause \in {"over", "answered"} /\ pause' = "none"
    BY <1>5 DEF HostSendsInTurn
  <2>2. Idle
    BY <1>2, <2>1 DEF Flying, Arrived
  <2>3. Stream' = FrameOf(Requests[request]) /\ ~Done
    BY <2>1, <2>2, SendAppends, FrameType, ConcatEmptySeq DEF Idle
  <2>4. UNCHANGED <<overflow, header, ready, pc, quiet, request>>
    BY <2>1 DEF HostSends, decoderVars
  <2> QED
    BY <1>2, <2>1, <2>2, <2>3, <2>4 DEF WaitingInv, Idle, Flying, InFrame, Done
<1>6. CASE HostSendsAgain
  BY <1>1, <1>6 DEF HostSendsAgain
<1>7. CASE HostWaits
  <2>1. /\ FifoEmpty /\ chunk = <<>> /\ wire = <<>> /\ pc \in {"drain", "poll"}
        /\ UNCHANGED <<overflow, header, payload, ready, pc, request>>
    BY <1>7 DEF HostWaits, decoderVars
  <2>2. Stream = Partial
    BY <2>1, NothingPending
  <2>3. ~Flying
    BY <1>3, <2>2, FrameAlone, HeldIsShort DEF Flying, TypeInv
  <2>4. Idle
    BY <1>2, <1>3, <2>1, <2>3
  <2>5. Stream' = Stream
    BY <1>7, <2>1, OthersKeepPending DEF Stream, Partial
  <2> QED
    BY <1>2, <1>4, <2>1, <2>4, <2>5 DEF WaitingInv, Idle, InFrame
<1>8. CASE LineCarries
  <2>1. /\ wire # <<>> /\ overflow' = (overflow \/ FifoFull)
        /\ UNCHANGED <<header, payload, ready, pc, quiet, request, pause>>
    BY <1>8 DEF LineCarries, Interrupt, decoderVars
  <2>2. Flying
    BY <1>2, <1>4, <2>1 DEF Idle, Arrived
  <2>3. ~FifoFull
    <3>1. Len(Contents) < Len(Stream)
      BY <2>1, WireIsExtra
    <3>2. Len(Stream) < FifoSize /\ Len(Stream) \in Nat
      BY <1>3, <2>2, FrameFits, FrameLength DEF Flying
    <3>3. Len(Contents) \in Nat
      BY StreamType, LenProperties
    <3> QED
      BY <3>1, <3>2, <3>3, FullRing, RxFifoAssumption
  <2>4. Stream' = Stream
    BY <1>8, <2>1, <2>3, CarryMoves DEF Stream, Partial, Pending
  <2> QED
    BY <1>2, <2>1, <2>2, <2>3, <2>4 DEF WaitingInv, Flying, InFrame, Done
<1>9. CASE LineDamages \/ LineLoses \/ LineAdds
  BY <1>1, <1>9 DEF LineDamages, LineLoses, LineAdds, Fault
<1>10. CASE Drains
  <2>1. UNCHANGED <<overflow, header, payload, ready, pc, quiet, request, pause>>
    BY <1>10 DEF Drains, decoderVars, hostVars
  <2>2. Stream' = Stream
    BY <1>10, <2>1, DrainsMoves DEF Stream, Partial
  <2> QED
    BY <1>2, <2>1, <2>2 DEF WaitingInv, Idle, Flying, Arrived, InFrame, Done
<1>11. CASE DrainFinished
  <2>1. /\ UNCHANGED <<overflow, header, payload, ready, request, pause>>
        /\ pc = "drain"
        /\ (pc' = "poll" /\ quiet' = quiet) \/ quiet' = FALSE
    BY <1>11 DEF DrainFinished, decoderVars, hostVars
  <2>2. Stream' = Stream
    BY <1>11, <2>1, OthersKeepPending DEF Stream, Partial
  <2> QED
    BY <1>2, <2>1, <2>2 DEF WaitingInv, Idle, Flying, Arrived, InFrame, Done
<1>12. CASE Feeds
  <2>1. UNCHANGED <<overflow, quiet, request, pause>> /\ pc = "feed" /\ ~quiet
    BY <1>2, <1>12 DEF Feeds, hostVars
  <2>2. Taken # <<>>
    BY <1>12, FeedsMoves
  <2>3. Flying
    BY <1>2, <1>4, <2>2 DEF Idle, Arrived
  <2>4. Advances(Stream, 0, Requests[request])
    BY <1>3, <1>12, <2>3, FrameAlone, FeedsAdvances DEF Flying
  <2>5. \A d \in 0 .. 0 : d + 1 = 1
    OBVIOUS
  <2>6. Flying' \/ Arrived'
    BY <1>3, <2>1, <2>3, <2>4, <2>5, FrameAlone DEF Flying, Arrived, Advances, Done
  <2> QED
    BY <1>2, <2>1, <2>6 DEF WaitingInv
<1>13. CASE Handles
  <2>1. /\ UNCHANGED <<overflow, header, payload, chunk>> /\ ready' = NotReady /\ pc = "handle"
        /\ pc' = IF chunk = <<>> THEN "poll" ELSE "feed"
    BY <1>13 DEF Handles, fifoVars
  <2>2. Arrived
    BY <1>2, <1>3, <2>1
  <2>3. Stream' = Stream /\ Stream = <<>>
    BY <1>13, <2>1, <2>2, OthersKeepPending DEF Stream, Partial, Arrived
  <2>4. chunk = <<>>
    BY <1>4, <2>1, <2>3 DEF Taken, TypeInv, LoopInv
  <2> QED
    BY <1>2, <1>4, <2>1, <2>3, <2>4 DEF WaitingInv, Idle, InFrame
<1>14. CASE Polls
  <2>1. /\ UNCHANGED <<overflow, quiet, request, ready>> /\ pc' = "drain"
        /\ pause = "none" => pause' = "none"
    BY <1>14 DEF Polls, IdleReset, NoIdleReset, decoderVars
  <2>2. UNCHANGED <<header, payload>>
    BY <1>2, <1>14 DEF Polls, IdleReset, NoIdleReset, decoderVars
  <2>3. Stream' = Stream
    BY <1>14, <2>2, OthersKeepPending DEF Stream, Partial
  <2> QED
    BY <1>2, <2>1, <2>2, <2>3 DEF WaitingInv, Idle, Flying, Arrived, InFrame, Done
<1>15. CASE UNCHANGED vars
  <2>1. UNCHANGED <<overflow, header, payload, ready, pc, quiet, request, pause>>
    BY <1>15 DEF vars, decoderVars, hostVars
  <2>2. Stream' = Stream
    BY <1>15, <2>1, OthersKeepPending DEF Stream, Partial
  <2> QED
    BY <1>2, <2>1, <2>2 DEF WaitingInv, Idle, Flying, Arrived, InFrame, Done
<1> QED
  BY <1>5, <1>6, <1>7, <1>8, <1>9, <1>10, <1>11, <1>12, <1>13, <1>14, <1>15 DEF Next

\* A host that waits for its answers never overflows the ring: a byte is
\* dropped only after frames sent without waiting, or faults of the line
\* (boot_fifo_push_isr; the ring is longer than the longest frame).
THEOREM WaitingHostFits == Spec => []WaitingHostNeverOverflows
<1>1. TypeInv /\ WaitingInv => WaitingHostNeverOverflows
  BY DEF TypeInv, LoopInv, WaitingInv, WaitingHostNeverOverflows
<1> QED
  BY <1>1, WaitingInvInit, WaitingInvNext, TypeInvHolds, PTL DEF Spec

-----------------------------------------------------------------------------
(* The idle reset *)

\* Whole frames, one after the other: the smallest set that has the empty
\* sequence and is closed under appending a frame.
ClosedUnderFrames(P) ==
  <<>> \in P /\ \A s \in P, kind \in Kind : s \o FrameOf(kind) \in P
Whole == {s \in Seq(Byte) : \A P \in SUBSET Seq(Byte) : ClosedUnderFrames(P) => s \in P}

LEMMA WholeIsClosed == ClosedUnderFrames(Whole)
<1>1. <<>> \in Whole
  BY EmptySeq DEF Whole, ClosedUnderFrames
<1>2. ASSUME NEW s \in Whole, NEW kind \in Kind PROVE s \o FrameOf(kind) \in Whole
  <2>1. s \o FrameOf(kind) \in Seq(Byte)
    BY FrameType, ConcatProperties DEF Whole
  <2>2. ASSUME NEW P \in SUBSET Seq(Byte), ClosedUnderFrames(P) PROVE s \o FrameOf(kind) \in P
    <3>1. s \in P
      BY <2>2 DEF Whole
    <3> QED
      BY <2>2, <3>1 DEF ClosedUnderFrames
  <2> QED
    BY <2>1, <2>2 DEF Whole
<1> QED
  BY <1>1, <1>2 DEF ClosedUnderFrames

\* What is not empty starts with a frame, and whole frames follow.
LEMMA WholeFront ==
  ASSUME NEW s \in Whole, s # <<>>
  PROVE  \E kind \in Kind, t \in Whole : s = FrameOf(kind) \o t
<1> DEFINE P == {u \in Seq(Byte) :
                   u = <<>> \/ \E kind \in Kind, t \in Whole : u = FrameOf(kind) \o t}
<1>1. P \in SUBSET Seq(Byte) /\ <<>> \in P
  BY EmptySeq
<1>2. <<>> \in Whole /\ \A t \in Whole, kind \in Kind : t \o FrameOf(kind) \in Whole
  BY WholeIsClosed DEF ClosedUnderFrames
<1>3. ASSUME NEW u \in P, NEW kind \in Kind PROVE u \o FrameOf(kind) \in P
  <2>1. FrameOf(kind) \in Seq(Byte) /\ u \in Seq(Byte) /\ u \o FrameOf(kind) \in Seq(Byte)
    BY FrameType, ConcatProperties
  <2>2. CASE u = <<>>
    <3>1. u \o FrameOf(kind) = FrameOf(kind) \o <<>>
      BY <2>1, <2>2, ConcatEmptySeq
    <3> QED
      BY <1>2, <2>1, <3>1
  <2>3. ASSUME NEW first \in Kind, NEW t \in Whole, u = FrameOf(first) \o t
        PROVE  u \o FrameOf(kind) \in P
    <3>1. FrameOf(first) \in Seq(Byte) /\ t \in Seq(Byte)
      BY FrameType DEF Whole
    <3>2. u \o FrameOf(kind) = FrameOf(first) \o (t \o FrameOf(kind))
      <4>1. FrameOf(kind) \in Seq(Byte)
        BY FrameType
      <4> QED
        BY <2>3, <3>1, <4>1, Regroup, Zenon
    <3> QED
      BY <1>2, <2>1, <3>2
  <2> QED
    BY <2>2, <2>3
<1>4. ClosedUnderFrames(P)
  BY <1>1, <1>3 DEF ClosedUnderFrames
<1>5. s \in P
  BY <1>1, <1>4 DEF Whole
<1> QED
  BY <1>5

\* Unhurt, the bytes on their way are whole frames; and the idle time passes
\* on a partial frame only while a command runs.
IdleInv ==
  /\ (pc \in {"feed", "handle"} /\ quiet) => slow
  /\ (quiet /\ ~slow /\ ~hurt) => ~InFrame
  /\ ~hurt => Stream \in Whole

LEMMA IdleInvInit == Init => IdleInv
<1> SUFFICES ASSUME Init PROVE IdleInv
  OBVIOUS
<1>1. header = <<>> /\ payload = <<>> /\ wire = <<>> /\ FifoEmpty /\ chunk = <<>> /\ pc = "drain"
  BY DEF Init, DecoderInit, FifoInit, FifoEmpty
<1>2. Stream = <<>>
  BY <1>1, TypeInvInit, NothingPending, EmptySeq, ConcatEmptySeq DEF Partial
<1> QED
  BY <1>1, <1>2, WholeIsClosed DEF IdleInv, InFrame, ClosedUnderFrames

\* The decoder takes whole frames as they are.
LEMMA FeedsKeepsWhole ==
  ASSUME TypeInv, TypeInv', Feeds, Stream \in Whole
  PROVE  Stream' \in Whole
<1>1. Stream # <<>>
  BY FeedsMoves, StreamEmpty
<1>2. PICK kind \in Kind, t \in Whole : Stream = FrameOf(kind) \o t
  BY <1>1, WholeFront
<1>3. /\ t \in Seq(Byte) /\ FrameAt(Stream, 0, kind)
      /\ SuffixFrom(Stream, 1) = Stream
      /\ SuffixFrom(Stream, Len(FrameOf(kind)) + 1) = t
  BY <1>2, FrameInFront DEF Whole
<1>4. Advances(Stream, 0, kind)
  BY <1>3, FeedsAdvances
<1>5. \A d \in 0 .. 0 : d + 1 = 1
  OBVIOUS
<1> QED
  BY <1>2, <1>3, <1>4, <1>5 DEF Advances

LEMMA IdleInvNext == TypeInv /\ TypeInv' /\ IdleInv /\ [Next]_vars => IdleInv'
<1> SUFFICES ASSUME TypeInv, TypeInv', IdleInv, [Next]_vars PROVE IdleInv'
  OBVIOUS
<1>1. ASSUME UNCHANGED <<pc, quiet, slow, hurt, header, Stream>> PROVE IdleInv'
  BY <1>1 DEF IdleInv, InFrame
<1>2. ASSUME UNCHANGED <<header, payload, Pending>> PROVE UNCHANGED <<header, Stream>>
  BY <1>2 DEF Stream, Partial
<1>3. CASE HostSendsInTurn \/ HostSendsAgain
  <2>1. HostSends
    BY <1>3 DEF HostSendsInTurn, HostSendsAgain
  <2>2. UNCHANGED <<pc, quiet, slow, hurt, header>>
    BY <2>1 DEF HostSends, decoderVars
  <2>3. Stream \in Whole => Stream' \in Whole
    BY <2>1, SendAppends, WholeIsClosed DEF ClosedUnderFrames
  <2> QED
    BY <2>2, <2>3 DEF IdleInv, InFrame
<1>4. CASE HostWaits
  <2>1. /\ FifoEmpty /\ chunk = <<>> /\ wire = <<>> /\ pc \in {"drain", "poll"}
        /\ UNCHANGED <<pc, slow, hurt, header, payload>>
    BY <1>4 DEF HostWaits, decoderVars, ghostVars
  <2>2. Stream' = Stream /\ Stream = Partial
    BY <1>2, <1>4, <2>1, NothingPending, OthersKeepPending
  <2>3. Stream \in Whole => Stream = <<>>
    <3>1. SUFFICES ASSUME Stream \in Whole, Stream # <<>> PROVE FALSE
      OBVIOUS
    <3>2. PICK kind \in Kind, t \in Whole : Partial = FrameOf(kind) \o t
      BY <2>2, <3>1, WholeFront
    <3>3. FrameAt(Partial, 0, kind)
      BY <3>2, FrameInFront DEF Whole
    <3> QED
      BY <3>3, HeldIsShort DEF TypeInv
  <2>4. ~hurt => ~InFrame
    BY <2>3, StreamEmpty DEF IdleInv, InFrame
  <2> QED
    BY <2>1, <2>2, <2>4 DEF IdleInv, InFrame
<1>5. CASE LineCarries
  <2>1. UNCHANGED <<pc, quiet, slow, header, payload>> /\ hurt' = (hurt \/ FifoFull)
    BY <1>5 DEF LineCarries, Interrupt, decoderVars
  <2>2. ~FifoFull => Stream' = Stream
    BY <1>2, <1>5, <2>1, CarryMoves DEF Pending
  <2> QED
    BY <2>1, <2>2 DEF IdleInv, InFrame
<1>6. CASE LineDamages \/ LineLoses \/ LineAdds
  BY <1>6 DEF LineDamages, LineLoses, LineAdds, Interrupt, Fault, IdleInv
<1>7. CASE Drains
  BY <1>1, <1>2, <1>7, DrainsMoves DEF Drains, decoderVars, ghostVars
<1>8. CASE DrainFinished
  <2>1. /\ UNCHANGED <<hurt, header, payload>> /\ pc = "drain"
        /\ (pc' = "poll" /\ UNCHANGED <<quiet, slow>>) \/ quiet' = FALSE
    BY <1>8 DEF DrainFinished, decoderVars
  <2>2. Stream' = Stream
    BY <1>2, <1>8, <2>1, OthersKeepPending
  <2> QED
    BY <2>1, <2>2 DEF IdleInv, InFrame
<1>9. CASE Feeds
  <2>1. /\ pc = "feed" /\ UNCHANGED <<quiet, slow, wire>>
        /\ hurt' = (hurt /\ ~(AtRest' /\ wire = <<>>))
    BY <1>9 DEF Feeds, hostVars
  <2>2. quiet => slow
    BY <2>1 DEF IdleInv
  <2>3. ~hurt => Stream' \in Whole
    BY <1>9, FeedsKeepsWhole DEF IdleInv
  <2>4. ASSUME AtRest', wire = <<>> PROVE Stream' \in Whole
    <3>1. TypeInv' /\ FifoEmpty' /\ chunk' = <<>> /\ wire' = <<>> /\ header' = <<>>
      BY <2>1, <2>4 DEF AtRest, InFrame
    <3>2. (TypeInv /\ FifoEmpty /\ chunk = <<>> /\ wire = <<>> => Stream = Partial)'
      BY NothingPending, PTL
    <3>3. payload' = <<>>
      BY <3>1, EmptyHeader, MagicType DEF TypeInv, DecoderInv, HeldIsPartial, InPayload, HeaderSize
    <3>4. Stream' = <<>>
      BY <3>1, <3>2, <3>3, EmptySeq, ConcatEmptySeq DEF Partial
    <3> QED
      BY <3>4, WholeIsClosed DEF ClosedUnderFrames
  <2> QED
    BY <2>1, <2>2, <2>3, <2>4 DEF IdleInv
<1>10. CASE Handles
  <2>1. /\ pc = "handle" /\ UNCHANGED <<hurt, header, payload>>
        /\ \E long \in BOOLEAN : quiet' = (quiet \/ long) /\ slow' = (slow \/ long)
    BY <1>10 DEF Handles
  <2>2. Stream' = Stream
    BY <1>2, <1>10, <2>1, OthersKeepPending
  <2>3. quiet' => slow'
    BY <2>1 DEF IdleInv
  <2> QED
    BY <2>1, <2>2, <2>3 DEF IdleInv
<1>11. CASE Polls /\ IdleReset
  <2>1. /\ header' = <<>> /\ payload' = <<>> /\ hurt' = ~(FifoEmpty /\ wire = <<>>)
        /\ pc = "poll" /\ pc' = "drain"
    BY <1>11 DEF Polls, IdleReset, DecoderReset
  <2>2. ~hurt' => Stream' = <<>>
    <3>1. Partial' = <<>>
      BY <2>1, EmptySeq, ConcatEmptySeq DEF Partial
    <3>2. FifoEmpty /\ wire = <<>> => Pending' = <<>>
      BY <1>11, <2>1, NothingPending, OthersKeepPending DEF TypeInv, LoopInv
    <3> QED
      BY <2>1, <3>1, <3>2, EmptySeq, ConcatEmptySeq DEF Stream
  <2> QED
    BY <2>1, <2>2, WholeIsClosed DEF IdleInv, InFrame, ClosedUnderFrames
<1>12. CASE Polls /\ NoIdleReset
  <2>1. /\ UNCHANGED <<quiet, hurt, header, payload>> /\ ~(InFrame /\ quiet) /\ pc' = "drain"
    BY <1>12 DEF Polls, NoIdleReset, decoderVars
  <2>2. Stream' = Stream
    BY <1>2, <1>12, <2>1, OthersKeepPending
  <2> QED
    BY <2>1, <2>2 DEF IdleInv, InFrame
<1>13. CASE UNCHANGED vars
  BY <1>1, <1>2, <1>13, OthersKeepPending DEF vars, decoderVars, ghostVars
<1> QED
  BY <1>3, <1>4, <1>5, <1>6, <1>7, <1>8, <1>9, <1>10, <1>11, <1>12, <1>13 DEF Next, Polls

LEMMA IdleInvHolds == Spec => []IdleInv
BY IdleInvInit, IdleInvNext, TypeInvHolds, PTL DEF Spec

\* The idle reset throws away only what is not a frame: bytes were lost,
\* damaged or added before it, or a command ran for longer than the idle time
\* after the batch came in (bootloader_poll, last_rx_ms).
THEOREM IdleResetIsJustified == Spec => IdleResetJustified
<1>1. IdleInv => [IdleReset => (hurt \/ slow)]_vars
  BY DEF IdleInv, IdleReset
<1> QED
  BY <1>1, IdleInvHolds, PTL DEF IdleResetJustified

-----------------------------------------------------------------------------
(* A frame that arrives whole is run *)

\* A tracked frame that has not run is still ahead, behind junk, or about to
\* run, and no idle reset falls on it.
Ahead ==
  (tracked /\ ~ran) =>
    /\ ~Done
    /\ \/ ready = FrameOf(Requests[request])
       \/ /\ ready = NotReady
          /\ \E n \in Nat : FrameAt(Stream, n, Requests[request])
          /\ (InFrame \/ pc = "feed") => ~quiet

\* While the host waits, only noise comes in, and no rest of a header is in it;
\* once it has waited, the decoder has none either.
Junk == Byte \ Kind
WaitIsQuiet ==
  /\ pause \in {"waiting", "over"} =>
       wire = <<>> /\ Contents \in Seq(Junk) /\ Taken \in Seq(Junk)
  /\ pause = "over" => /\ ready = NotReady /\ header \in Seq(Junk)
                       /\ (InFrame \/ pc = "feed") => ~quiet

TrackInv == Ahead /\ WaitIsQuiet

\* Junk completes no header.
LEMMA JunkIsNoHeader ==
  ASSUME NEW h \in Seq(Junk)
  PROVE  h \notin Headers
<1> SUFFICES ASSUME h \in Headers PROVE FALSE
  OBVIOUS
<1>1. Len(h) = HeaderSize /\ KindOf(h) \in Kind /\ HeaderSize \in 1 .. HeaderSize
  BY HeadersKind, MagicType
<1>2. h[HeaderSize] \in Junk
  BY <1>1, ElementOfSeq
<1> QED
  BY <1>1, <1>2 DEF KindOf, Junk

LEMMA ConsumeJunk ==
  ASSUME DecoderInv, header \in Seq(Junk), NEW byte \in Junk, Consume(byte)
  PROVE  header' \in Seq(Junk) /\ ready' = NotReady
<1> DEFINE h == Append(header, byte)
<1>1. h \in Seq(Junk) /\ byte \in Byte
  BY AppendProperties DEF Junk
<1>2. ~InPayload /\ h \notin Headers
  BY <1>1, JunkIsNoHeader DEF DecoderInv, HeldIsPartial
<1>3. CASE HeaderByte(byte)
  BY <1>1, <1>3 DEF HeaderByte
<1>4. CASE BadHeader(byte)
  <2>1. header' = Resync(h) /\ ready' = NotReady /\ h \in Seq(Byte) /\ h # <<>>
    BY <1>1, <1>2, <1>4, HeaderGrows DEF BadHeader
  <2> HIDE DEF h
  <2>2. PICK i \in 2 .. Len(h) + 1 : header' = SuffixFrom(h, i)
    BY <2>1, ResyncSuffix
  <2>3. i \in 1 .. Len(h) + 1
    BY <2>1, <2>2, LenProperties
  <2>4. header' \in Seq(Junk)
    BY <1>1, <2>2, <2>3, Suffix DEF SuffixFrom
  <2> QED
    BY <2>1, <2>4
<1> QED
  BY <1>2, <1>3, <1>4 DEF Consume, EmptyFrame, PayloadByte, LastPayloadByte

\* A frame behind junk.
LEMMA FrameBehindJunk ==
  ASSUME NEW s \in Seq(Junk), NEW kind \in Kind
  PROVE  Len(s) \in Nat /\ FrameAt(s \o FrameOf(kind), Len(s), kind)
<1> DEFINE f == FrameOf(kind)
           all == s \o f
<1>1. s \in Seq(Byte)
  <2>1. Junk \subseteq Byte
    BY DEF Junk
  <2> QED
    BY <2>1, SeqMonotonic
<1>2. f \in Seq(Byte) /\ Len(f) \in Nat /\ Len(s) \in Nat
  BY FrameType, LenProperties
<1> HIDE DEF f
<1>3. Len(all) = Len(s) + Len(f)
      /\ \A i \in 1 .. Len(s) + Len(f) : all[i] = IF i <= Len(s) THEN s[i] ELSE f[i - Len(s)]
  BY <1>1, <1>2, ConcatProperties
<1> HIDE DEF all
<1>4. ASSUME NEW i \in 1 .. Len(s) PROVE all[i] \notin Kind
  <2>1. all[i] = s[i]
    BY <1>2, <1>3
  <2>2. s[i] \in Junk
    BY ElementOfSeq
  <2> QED
    BY <2>1, <2>2 DEF Junk
<1>5. ASSUME NEW i \in 1 .. Len(f) PROVE all[Len(s) + i] = f[i]
  <2>1. Len(s) + i \in 1 .. Len(s) + Len(f) /\ ~(Len(s) + i <= Len(s)) /\ (Len(s) + i) - Len(s) = i
    BY <1>2
  <2> QED
    BY <1>3, <2>1
<1>6. Len(s) + Len(f) <= Len(all)
  BY <1>2, <1>3
<1> QED
  BY <1>2, <1>4, <1>5, <1>6 DEF FrameAt, f, all

\* Junk that has been passed leaves the frame where it is.
LEMMA FrameAfterJunk ==
  ASSUME NEW s \in Seq(Byte), NEW n \in Nat, NEW kind \in Kind, FrameAt(s, n, kind),
         NEW d \in 0 .. n
  PROVE  n - d \in Nat /\ FrameAt(SuffixFrom(s, d + 1), n - d, kind)
<1> DEFINE t == SuffixFrom(s, d + 1)
           l == Len(FrameOf(kind))
<1>1. Len(s) \in Nat /\ l \in Nat /\ n + l <= Len(s)
  BY LenProperties, FrameLength DEF FrameAt
<1> HIDE DEF l
<1>2. d + 1 \in 1 .. Len(s) + 1 /\ Len(s) - (d + 1) + 1 = Len(s) - d
  BY <1>1
<1>3. Len(t) = Len(s) - d /\ \A i \in 1 .. Len(s) - d : t[i] = s[d + i]
  <2>1. t \in Seq(Byte) /\ Len(t) = Len(s) - (d + 1) + 1
        /\ \A i \in 1 .. Len(s) - (d + 1) + 1 : t[i] = s[(d + 1) + i - 1]
    BY <1>2, SuffixType
  <2>2. \A i \in 1 .. Len(s) - d : (d + 1) + i - 1 = d + i
    BY <1>1
  <2> QED
    BY <1>2, <2>1, <2>2
<1> HIDE DEF t
<1>4. n - d \in Nat /\ (n - d) + l <= Len(t)
  BY <1>1, <1>3
<1>5. ASSUME NEW i \in 1 .. n - d PROVE t[i] \notin Kind
  <2>1. i \in 1 .. Len(s) - d /\ d + i \in 1 .. n
    BY <1>1
  <2> QED
    BY <1>3, <2>1 DEF FrameAt
<1>6. ASSUME NEW i \in 1 .. l PROVE t[(n - d) + i] = FrameOf(kind)[i]
  <2>1. (n - d) + i \in 1 .. Len(s) - d /\ d + ((n - d) + i) = n + i
    BY <1>1
  <2>2. s[n + i] = FrameOf(kind)[i]
    BY DEF FrameAt, l
  <2> QED
    BY <1>3, <2>1, <2>2
<1> QED
  BY <1>4, <1>5, <1>6 DEF FrameAt, t, l

\* A frame that is ahead keeps the device from being empty.
LEMMA AheadIsPending ==
  ASSUME TypeInv, Ahead, tracked, ~ran,
         FifoEmpty, chunk = <<>>, wire = <<>>, pc \in {"drain", "poll"}
  PROVE  FALSE
<1>1. ~Done /\ ready = NotReady /\ Requests[request] \in Kind
  BY RequestIsKind DEF Ahead, TypeInv, LoopInv
<1>2. PICK n \in Nat : FrameAt(Stream, n, Requests[request])
  BY <1>1, FrameType DEF Ahead
<1>3. Stream = Partial
  BY NothingPending
<1> QED
  BY <1>1, <1>2, <1>3, HeldIsShort DEF TypeInv

\* All that is there when the ring, the chunk and the decoder hold only junk and
\* the line is quiet.
LEMMA JunkStream ==
  ASSUME TypeInv, wire = <<>>, Contents \in Seq(Junk), Taken \in Seq(Junk), header \in Seq(Junk)
  PROVE  Stream \in Seq(Junk)
<1>1. ~InPayload
  BY JunkIsNoHeader DEF TypeInv, DecoderInv, HeldIsPartial
<1>2. payload = <<>>
  BY <1>1 DEF TypeInv, DecoderInv, HeldIsPartial
<1>3. <<>> \in Seq(Junk)
  BY EmptySeq
<1>4. ASSUME NEW s \in Seq(Junk), NEW t \in Seq(Junk) PROVE s \o t \in Seq(Junk)
  BY ConcatProperties
<1>5. Partial \in Seq(Junk)
  BY <1>2, <1>3, <1>4 DEF Partial
<1>6. Pending \in Seq(Junk)
  BY <1>3, <1>4 DEF Pending
<1> QED
  BY <1>4, <1>5, <1>6 DEF Stream

\* A header that is not complete holds bytes of the magic only.
LEMMA ShortHeaderIsJunk ==
  ASSUME DecoderInv, ~InPayload
  PROVE  header \in Seq(Junk)
<1>1. header \in Seq(Byte) /\ Len(header) \in Nat /\ Len(header) <= Len(Magic)
  BY MagicType, LenProperties DEF DecoderInv, InPayload
<1>2. ASSUME NEW i \in 1 .. Len(header) PROVE header[i] \in Junk
  <2>1. i \in 1 .. Len(Magic)
    BY <1>1, MagicType
  <2>2. header[i] = Magic[i]
    BY <1>1, <2>1, PrefixElements DEF DecoderInv
  <2> QED
    BY <2>1, <2>2, MagicType DEF Junk
<1>3. header = [i \in 1 .. Len(header) |-> header[i]]
  BY <1>1
<1> QED
  BY <1>1, <1>2, <1>3

\* When the host sends, a tracked frame lies behind junk.
LEMMA SentIsAhead ==
  ASSUME TypeInv, WaitIsQuiet, HostSends, tracked'
  PROVE  Ahead'
<1>1. wire = <<>> /\ UNCHANGED <<decoderVars, pc, quiet, request>>
      /\ (\/ pause = "over"
          \/ /\ FifoEmpty /\ ~copied /\ chunk = <<>> /\ pc \in {"drain", "poll"}
             /\ ~InPayload /\ ~(InFrame /\ quiet))
  BY DEF HostSends
<1>2. /\ ready = NotReady
      /\ Contents \in Seq(Junk) /\ Taken \in Seq(Junk) /\ header \in Seq(Junk)
      /\ (InFrame \/ pc = "feed") => ~quiet
  <2>1. CASE pause = "over"
    BY <2>1 DEF WaitIsQuiet
  <2>2. CASE /\ FifoEmpty /\ ~copied /\ chunk = <<>> /\ pc \in {"drain", "poll"}
             /\ ~InPayload /\ ~(InFrame /\ quiet)
    <3>1. Taken = <<>> /\ Contents = <<>>
      BY <1>1, <2>2, NothingPending
    <3>2. ready = NotReady
      BY <2>2 DEF TypeInv, LoopInv
    <3> QED
      BY <2>2, <3>1, <3>2, ShortHeaderIsJunk, EmptySeq DEF TypeInv
  <2> QED
    BY <1>1, <2>1, <2>2
<1>3. Stream \in Seq(Junk)
  BY <1>1, <1>2, JunkStream
<1>4. ~Done /\ Requests[request] \in Kind /\ Stream' = Stream \o FrameOf(Requests[request])
  BY SendAppends
<1>5. Len(Stream) \in Nat /\ FrameAt(Stream', Len(Stream), Requests[request])
  BY <1>3, <1>4, FrameBehindJunk
<1> QED
  BY <1>1, <1>2, <1>4, <1>5 DEF Ahead, Done, InFrame, decoderVars

\* A step that moves no byte past the decoder leaves a tracked frame ahead.
LEMMA AheadStays ==
  ASSUME Ahead, Stream' = Stream, UNCHANGED <<tracked, ran, ready, request, header>>,
         ~quiet' \/ (quiet' = quiet /\ (pc' = "feed" => pc = "feed"))
  PROVE  Ahead'
BY DEF Ahead, Done, InFrame

LEMMA TrackInvInit == Init => TrackInv
<1> SUFFICES ASSUME Init PROVE TrackInv
  OBVIOUS
<1>1. TypeInv /\ FifoEmpty /\ chunk = <<>> /\ wire = <<>>
  BY TypeInvInit DEF Init, FifoInit, FifoEmpty
<1>2. Contents = <<>> /\ Taken = <<>>
  BY <1>1, NothingPending
<1>3. WaitIsQuiet
  BY <1>1, <1>2, EmptySeq DEF Init, DecoderInit, WaitIsQuiet, InFrame
<1> QED
  BY <1>3 DEF Init, TrackInv, Ahead

LEMMA AheadNext ==
  ASSUME TypeInv, TypeInv', TrackInv, [Next]_vars
  PROVE  Ahead'
<1> SUFFICES ASSUME tracked', ~ran' PROVE Ahead'
  BY DEF Ahead
<1>0. Ahead /\ WaitIsQuiet
  BY DEF TrackInv
<1>1. ASSUME tracked, ~ran, ready = NotReady
      PROVE  /\ ~Done /\ Requests[request] \in Kind
             /\ \E n \in Nat : FrameAt(Stream, n, Requests[request])
             /\ (InFrame \/ pc = "feed") => ~quiet
  BY <1>0, <1>1, RequestIsKind, FrameType DEF Ahead, TypeInv, LoopInv
<1>2. CASE HostSendsInTurn \/ HostSendsAgain
  BY <1>0, <1>2, SentIsAhead DEF HostSendsInTurn, HostSendsAgain
<1>3. CASE HostWaits
  <2>1. /\ FifoEmpty /\ chunk = <<>> /\ wire = <<>> /\ pc \in {"drain", "poll"}
        /\ tracked' = tracked /\ ran' = ran
    BY <1>3 DEF HostWaits, ghostVars
  <2> QED
    BY <1>0, <2>1, AheadIsPending
<1>4. CASE LineCarries
  <2>1. /\ tracked' = (tracked /\ ~FifoFull)
        /\ UNCHANGED <<header, payload, ready, pc, quiet, request, ran>>
    BY <1>4 DEF LineCarries, Interrupt, decoderVars
  <2>2. Stream' = Stream
    BY <1>4, <2>1, CarryMoves DEF Stream, Partial, Pending
  <2>3. tracked
    BY <2>1
  <2> QED
    BY <1>0, <2>1, <2>2, <2>3 DEF Ahead, Done, InFrame
<1>5. CASE LineDamages \/ LineLoses \/ LineAdds
  BY <1>5 DEF LineDamages, LineLoses, LineAdds, Fault
<1>6. CASE Drains
  <2>1. UNCHANGED <<header, payload, ready, pc, quiet, request, tracked, ran>>
    BY <1>6 DEF Drains, decoderVars, hostVars, ghostVars
  <2>2. Stream' = Stream
    BY <1>6, <2>1, DrainsMoves DEF Stream, Partial
  <2> QED
    BY <1>0, <2>1, <2>2, AheadStays
<1>7. CASE DrainFinished
  <2>1. /\ UNCHANGED <<header, payload, ready, request, tracked, ran>>
        /\ (pc' = "poll" /\ quiet' = quiet) \/ ~quiet'
    BY <1>7 DEF DrainFinished, decoderVars, hostVars
  <2>2. Stream' = Stream
    BY <1>7, <2>1, OthersKeepPending DEF Stream, Partial
  <2> QED
    BY <1>0, <2>1, <2>2, AheadStays
<1>8. CASE Feeds
  <2>1. pc = "feed" /\ UNCHANGED <<quiet, request, tracked, ran>>
    BY <1>8 DEF Feeds, hostVars
  <2>2. tracked /\ ~ran /\ ready = NotReady
    BY <2>1 DEF TypeInv, LoopInv
  <2>3. ~Done /\ Requests[request] \in Kind /\ ~quiet
    BY <1>1, <2>1, <2>2
  <2>4. PICK n \in Nat : FrameAt(Stream, n, Requests[request])
    BY <1>1, <2>2
  <2>5. Advances(Stream, n, Requests[request])
    BY <1>8, <2>3, <2>4, FeedsAdvances
  <2>6. CASE ready' = FrameOf(Requests[request])
    BY <2>1, <2>3, <2>6 DEF Ahead, Done
  <2>7. ASSUME NEW d \in 0 .. n, ready' = NotReady, Stream' = SuffixFrom(Stream, d + 1)
        PROVE  Ahead'
    <3>1. n - d \in Nat /\ FrameAt(Stream', n - d, Requests[request])
      BY <2>3, <2>4, <2>7, StreamType, FrameAfterJunk
    <3> QED
      BY <2>1, <2>3, <2>7, <3>1 DEF Ahead, Done
  <2> QED
    BY <2>5, <2>6, <2>7 DEF Advances
<1>9. CASE Handles
  <2>1. pc = "handle" /\ ready # NotReady /\ tracked' = tracked
    BY <1>9 DEF Handles, TypeInv, LoopInv
  <2>2. ~(~Done /\ ready = FrameOf(Requests[request])) /\ ran' = ran
    BY <1>9 DEF Handles
  <2> QED
    BY <1>0, <2>1, <2>2 DEF Ahead
<1>10. CASE Polls
  <2>1. pc = "poll" /\ pc' = "drain" /\ UNCHANGED <<quiet, request, tracked, ran>>
    BY <1>10 DEF Polls, IdleReset, NoIdleReset
  <2>2. ready = NotReady
    BY <2>1 DEF TypeInv, LoopInv
  <2>3. ~(InFrame /\ quiet)
    BY <1>1, <2>1, <2>2
  <2>4. UNCHANGED <<header, payload, ready>>
    BY <1>10, <2>3 DEF Polls, IdleReset, NoIdleReset, decoderVars
  <2>5. Stream' = Stream
    BY <1>10, <2>4, OthersKeepPending DEF Stream, Partial
  <2> QED
    BY <1>0, <2>1, <2>4, <2>5, AheadStays
<1>11. CASE UNCHANGED vars
  <2>1. UNCHANGED <<header, payload, ready, pc, quiet, request, tracked, ran>>
    BY <1>11 DEF vars, decoderVars, hostVars, ghostVars
  <2>2. Stream' = Stream
    BY <1>11, <2>1, OthersKeepPending DEF Stream, Partial
  <2> QED
    BY <1>0, <2>1, <2>2, AheadStays
<1> QED
  BY <1>2, <1>3, <1>4, <1>5, <1>6, <1>7, <1>8, <1>9, <1>10, <1>11 DEF Next

LEMMA WaitIsQuietNext ==
  ASSUME TypeInv, TypeInv', TrackInv, [Next]_vars
  PROVE  WaitIsQuiet'
<1>0. WaitIsQuiet
  BY DEF TrackInv
<1>1. CASE HostSendsInTurn \/ HostSendsAgain
  BY <1>1 DEF HostSendsInTurn, HostSendsAgain, WaitIsQuiet
<1>2. CASE HostWaits
  <2>1. pause' = "waiting" /\ FifoEmpty /\ chunk = <<>> /\ wire = <<>>
    BY <1>2 DEF HostWaits
  <2>2. Contents = <<>> /\ Taken = <<>>
    BY <2>1, NothingPending
  <2> QED
    BY <1>2, <2>1, <2>2, OthersKeepPending, EmptySeq DEF WaitIsQuiet
<1>3. CASE LineCarries \/ LineDamages \/ LineLoses
  <2>1. wire # <<>> /\ pause' = pause
    BY <1>3 DEF LineCarries, LineDamages, LineLoses, Interrupt
  <2> QED
    BY <1>0, <2>1 DEF WaitIsQuiet
<1>4. CASE LineAdds
  <2>1. PICK byte \in Noise : Interrupt(byte)
    BY <1>4 DEF LineAdds
  <2>2. byte \in Byte /\ byte \in Junk
    BY ReceiveAssumption, HeadersAreSent DEF Junk
  <2>3. UNCHANGED <<wire, pause, header, ready, pc, quiet>>
    BY <1>4, <2>1 DEF LineAdds, Interrupt, decoderVars
  <2>4. CASE pause \in {"waiting", "over"}
    <3>1. Contents \in Seq(Junk) /\ Taken \in Seq(Junk)
      BY <1>0, <2>4 DEF WaitIsQuiet
    <3>2. Contents' \in Seq(Junk) /\ Taken' \in Seq(Junk)
      BY <2>1, <2>2, <3>1, InterruptKeepsBytes
    <3> QED
      BY <1>0, <2>3, <3>2 DEF WaitIsQuiet, InFrame, Junk
  <2> QED
    BY <2>3, <2>4 DEF WaitIsQuiet
<1>5. CASE Drains
  <2>1. UNCHANGED <<wire, pause, header, ready, pc, quiet>>
    BY <1>5 DEF Drains, decoderVars, hostVars
  <2>2. CASE pause \in {"waiting", "over"}
    <3>1. Contents \in Seq(Junk) /\ Taken \in Seq(Junk)
      BY <1>0, <2>2 DEF WaitIsQuiet
    <3>2. Contents' \in Seq(Junk) /\ Taken' \in Seq(Junk)
      BY <1>5, <3>1, DrainsKeepsBytes
    <3> QED
      BY <1>0, <2>1, <3>2 DEF WaitIsQuiet, InFrame, Junk
  <2> QED
    BY <2>1, <2>2 DEF WaitIsQuiet
<1>6. CASE DrainFinished
  <2>1. /\ UNCHANGED <<wire, pause, header, ready>>
        /\ (pc' = "poll" /\ quiet' = quiet) \/ ~quiet'
    BY <1>6 DEF DrainFinished, decoderVars, hostVars
  <2>2. UNCHANGED <<Contents, Taken>>
    BY <1>6, OthersKeepPending
  <2> QED
    BY <1>0, <2>1, <2>2 DEF WaitIsQuiet, InFrame, Junk
<1>7. CASE Feeds
  <2>1. pc = "feed" /\ UNCHANGED <<wire, pause, quiet>> /\ Consume(Head(chunk))
    BY <1>7 DEF Feeds, hostVars
  <2>2. CASE pause \in {"waiting", "over"}
    <3>1. Contents \in Seq(Junk) /\ Taken \in Seq(Junk)
      BY <1>0, <2>2 DEF WaitIsQuiet
    <3>2. Contents' \in Seq(Junk) /\ Taken' \in Seq(Junk) /\ Head(chunk) \in Junk
      BY <1>7, <3>1, FeedsKeepsBytes
    <3>3. pause = "over" => header' \in Seq(Junk) /\ ready' = NotReady /\ ~quiet
      BY <1>0, <2>1, <3>2, ConsumeJunk DEF WaitIsQuiet, TypeInv
    <3> QED
      BY <1>0, <2>1, <3>2, <3>3 DEF WaitIsQuiet, Junk
  <2> QED
    BY <2>1, <2>2 DEF WaitIsQuiet
<1>8. CASE Handles
  <2>1. wire' = wire /\ UNCHANGED <<Contents, Taken>> /\ ready # NotReady
    BY <1>8, OthersKeepPending DEF Handles, TypeInv, LoopInv
  <2>2. pause # "over" /\ (pause' = pause \/ pause' = "answered")
    BY <1>0, <1>8, <2>1 DEF Handles, WaitIsQuiet
  <2> QED
    BY <1>0, <2>1, <2>2 DEF WaitIsQuiet, Junk
<1>9. CASE Polls
  <2>1. /\ pc = "poll" /\ pc' = "drain" /\ UNCHANGED <<wire, quiet, ready>>
        /\ pause' = IF pause = "waiting" /\ quiet THEN "over" ELSE pause
    BY <1>9 DEF Polls, IdleReset, NoIdleReset, decoderVars
  <2>2. ready = NotReady /\ UNCHANGED <<Contents, Taken>>
    BY <1>9, <2>1, OthersKeepPending DEF TypeInv, LoopInv
  <2>3. CASE InFrame /\ quiet
    <3>1. header' = <<>>
      BY <1>9, <2>3 DEF Polls, IdleReset, NoIdleReset, DecoderReset
    <3> QED
      BY <1>0, <2>1, <2>2, <3>1, EmptySeq DEF WaitIsQuiet, InFrame, Junk
  <2>4. CASE ~(InFrame /\ quiet)
    <3>1. header' = header
      BY <1>9, <2>4 DEF Polls, IdleReset, NoIdleReset, decoderVars
    <3>2. pause = "waiting" /\ quiet => header = <<>>
      BY <2>4 DEF InFrame
    <3> QED
      BY <1>0, <2>1, <2>2, <2>4, <3>1, <3>2, EmptySeq DEF WaitIsQuiet, InFrame, Junk
  <2> QED
    BY <2>3, <2>4
<1>10. CASE UNCHANGED vars
  <2>1. UNCHANGED <<wire, pause, header, ready, pc, quiet>>
    BY <1>10 DEF vars, decoderVars, hostVars
  <2>2. UNCHANGED <<Contents, Taken>>
    BY <1>10, OthersKeepPending
  <2> QED
    BY <1>0, <2>1, <2>2 DEF WaitIsQuiet, InFrame, Junk
<1> QED
  BY <1>1, <1>2, <1>3, <1>4, <1>5, <1>6, <1>7, <1>8, <1>9, <1>10 DEF Next

LEMMA TrackInvNext == TypeInv /\ TypeInv' /\ TrackInv /\ [Next]_vars => TrackInv'
BY AheadNext, WaitIsQuietNext DEF TrackInv

\* A frame whose bytes all arrive is run, whatever junk came before it, unless
\* the decoder was in the payload of a damaged frame (boot_decoder_resync,
\* bootloader_poll's idle reset).
THEOREM IntactFramesRun == Spec => []IntactFrameRuns
<1>1. TypeInv /\ TrackInv => IntactFrameRuns
  BY AheadIsPending DEF TrackInv, IntactFrameRuns
<1> QED
  BY <1>1, TypeInvHolds, TypeInvInit, TypeInvNext, TrackInvInit, TrackInvNext, PTL DEF Spec

==============================================================================
