-------------------------- MODULE StreamDecoderProofs --------------------------
(***************************************************************************)
(* The decoder over any source. Spec leaves the wire to an environment     *)
(* that may write, cut and damage it in every step; all that is asked of   *)
(* it is that the wire consists of cells and that what has been read stays *)
(* as it was.                                                              *)
(***************************************************************************)
EXTENDS StreamDecoder, SequenceTheorems, TLAPS

WireOK ==
  /\ wire \in Seq(Cells)
  /\ cut \in (0 .. Len(wire)) \cup {Absent}

ReadIsStable ==
  \A i \in 1 .. position' :
    wire'[i] = wire[i] /\ (i \in damaged' <=> i \in damaged)

Environment == []WireOK /\ [][ReadIsStable]_<<vars, source>>

-----------------------------------------------------------------------------
LEMMA AbsentIsNoNumber == Absent \notin Nat
BY AbsentAssumption

LEMMA ArrivedOK ==
  ASSUME WireOK
  PROVE  Arrived \in Nat /\ Arrived <= Len(wire) /\ Len(wire) \in Nat
<1>1. Len(wire) \in Nat
  BY LenProperties DEF WireOK
<1> QED
  BY <1>1 DEF WireOK, Arrived

LEMMA ReadableCell ==
  ASSUME WireOK, position \in Nat, Readable
  PROVE  Cell \in Cells
<1>1. position + 1 \in 1 .. Len(wire)
  BY ArrivedOK DEF Readable
<1> QED
  BY <1>1, ElementOfSeq DEF WireOK, Cell

LEMMA ReceivedBytes ==
  /\ \A s \in Seq(Byte) : s \in Seq(Received)
  /\ Garbage \in Received
<1>1. Byte \subseteq Received
  BY DEF Received
<1> QED
  BY <1>1, SeqMonotonic DEF Received

LEMMA BlankOK ==
  ASSUME NEW n \in Nat
  PROVE  Blank(n) \in Seq(Received) /\ Len(Blank(n)) = n
<1>1. Blank(n) \in [1 .. n -> Received]
  BY ReceivedBytes DEF Blank
<1> QED
  BY <1>1

(* The three kinds of cells that the decoder looks into.                   *)
LEMMA CellFields ==
  ASSUME NEW c \in Cells
  PROVE  /\ c.kind = "header" => c.hasStreamChecksum \in BOOLEAN
         /\ c.kind = "block" => c \in MisreadHeaders
         /\ c.kind = "payload" => c.data \in Seq(Received)
<1>1. BlockHeaders \subseteq MisreadHeaders
  BY ReceivedBytes DEF BlockHeaders, MisreadHeaders
<1> QED
  BY <1>1, ReceivedBytes DEF Cells, BlockHeaders, EndCell, TornCell

LEMMA MisreadOK == Misread \subseteq MisreadHeaders
<1> SUFFICES ASSUME NEW n \in 0 .. MaxMisread, NEW c \in {Absent, Blank(n + 1)}
             PROVE  BlockCell("Raw", FALSE, 0, n, c) \in MisreadHeaders
  BY DEF Misread
<1>1. n \in Nat /\ n + 1 \in Nat
  BY DecoderOptionsAssumption
<1>2. c \in Seq(Received) \cup {Absent}
  BY <1>1, BlankOK
<1> QED
  BY <1>1, <1>2 DEF BlockCell, MisreadHeaders, BlockTypes

(* What a payload decodes to has the size that its header declares: with   *)
(* it, the sum of declared sizes counts what the caller gets.              *)
LEMMA DecodingsOK ==
  ASSUME WireOK, position \in Nat, Readable, header \in MisreadHeaders,
         NEW block \in Decodings
  PROVE  block \in Seq(Received) /\ Len(block) = header.usize
<1>1. header.usize \in Nat
  BY DEF MisreadHeaders
<1>2. CASE Sound("payload")
  <2>1. block = Cell.data /\ Len(Cell.data) = header.usize
    BY <1>2 DEF Decodings
  <2>2. Cell.data \in Seq(Received)
    BY <1>2, ReadableCell, CellFields DEF Sound, Cell
  <2> QED
    BY <2>1, <2>2
<1>3. CASE ~Sound("payload")
  BY <1>1, <1>3, BlankOK DEF Decodings
<1> QED
  BY <1>2, <1>3

-----------------------------------------------------------------------------
(* The hasher digests what is delivered; after the sentinel no payload is  *)
(* read, and a call that ended there did not answer as if there were more  *)
(* to come.                                                                *)
IInv ==
  /\ TypeOK
  /\ BombGuard
  /\ streamHasher = delivered
  /\ streamFinished => dpc \in {"ready", "hash"} /\ position >= 1
  /\ dpc = "hash" => streamFinished /\ answer # "end"
  /\ streamFinished /\ dpc = "ready" => answer \notin {"opened", "block"}
  /\ answer = "end" => streamFinished
  /\ EndIsVerified

LEMMA InitIInv == Init /\ WireOK => IInv
<1> SUFFICES ASSUME Init PROVE IInv
  OBVIOUS
<1>1. <<>> \in Seq(Received) /\ Len(<<>>) = 0
  BY EmptySeq
<1>2. TypeOK
  BY <1>1, DecoderOptionsAssumption DEF Init, TypeOK, Answers
<1>3. BombGuard
  <2>1. MaxOutputBytes # Absent => MaxOutputBytes \in Nat
    BY DecoderOptionsAssumption
  <2> QED
    BY <1>1, <2>1 DEF Init, BombGuard
<1> QED
  BY <1>2, <1>3 DEF Init, IInv, EndIsVerified

(* Completed speaks of the last cell read only, which no one changes.      *)
LEMMA CompletedStays ==
  ASSUME Completed, ReadIsStable \/ UNCHANGED source,
         position \in Nat \ {0}, position' = position,
         UNCHANGED <<streamFinished, hasStreamChecksum, delivered>>
  PROVE  Completed'
<1>1. wire'[position] = wire[position] /\ (position \in damaged' <=> position \in damaged)
  BY DEF ReadIsStable, source
<1> QED
  BY <1>1 DEF Completed

(* The steps that leave what is delivered and counted alone keep the guard *)
(* if they do not open a payload.                                          *)
LEMMA GuardStays ==
  ASSUME BombGuard, UNCHANGED <<total, delivered>>, dpc' # "payload"
  PROVE  BombGuard'
BY DEF BombGuard

LEMMA NextIInv ==
  ASSUME IInv, WireOK, [Next]_vars, [ReadIsStable]_<<vars, source>>
  PROVE  IInv'
<1> USE DEF IInv
<1>0. TypeOK /\ BombGuard /\ EndIsVerified /\ position \in Nat
  BY DEF TypeOK
<1>a. ReadIsStable \/ UNCHANGED source
  BY DEF vars, source
<1>1. CASE Open
  <2>1. hasStreamChecksum' \in BOOLEAN /\ position' \in Nat
    BY <1>0, <1>1, ReadableCell, CellFields DEF Open, Sound, Cell, TypeOK
  <2>2. dpc' \in {"ready", "dead"} /\ answer' \in {"opened", "CorruptedHeader", "Io"}
    BY <1>1 DEF Open
  <2>3. TypeOK'
    BY <1>0, <1>1, <2>1, <2>2 DEF Open, TypeOK, Answers, Failures
  <2>4. BombGuard'
    BY <1>0, <1>1, <2>2, GuardStays DEF Open
  <2>5. ~streamFinished
    BY <1>1 DEF Open
  <2> QED
    BY <1>1, <2>2, <2>3, <2>4, <2>5 DEF Open, EndIsVerified
<1>2. CASE EndAgain
  <2>1. TypeOK'
    BY <1>0, <1>2 DEF EndAgain, Answer, TypeOK, Answers
  <2>2. BombGuard'
    BY <1>0, <1>2, GuardStays DEF EndAgain, Answer
  <2>3. callAgain
    BY <1>2 DEF EndAgain, MayCall
  <2> QED
    BY <1>2, <2>1, <2>2, <2>3 DEF EndAgain, Answer, EndIsVerified
<1>3. CASE HeaderEof
  <2>1. answer' \in {"UnexpectedEof", "Io"}
    BY <1>3 DEF HeaderEof, Answer, EofAnswer
  <2>2. TypeOK'
    BY <1>0, <1>3, <2>1 DEF HeaderEof, Answer, TypeOK, Answers, Failures
  <2>3. BombGuard'
    BY <1>0, <1>3, GuardStays DEF HeaderEof, Answer
  <2> QED
    BY <1>3, <2>1, <2>2, <2>3 DEF HeaderEof, Answer, Expecting, EndIsVerified
<1>4. CASE RejectHeader
  <2>1. TypeOK'
    BY <1>0, <1>4 DEF RejectHeader, Answer, TypeOK, Answers, Failures
  <2>2. BombGuard'
    BY <1>0, <1>4, GuardStays DEF RejectHeader, Answer
  <2> QED
    BY <1>4, <2>1, <2>2 DEF RejectHeader, Answer, Expecting, EndIsVerified
<1>5. CASE ReadEndOfStream
  <2>1. dpc' \in {"ready", "hash"} /\ dpc' # "payload"
    BY <1>5 DEF ReadEndOfStream, Answer
  <2>2. header = Absent /\ header' = Absent
    BY <1>0, <1>5 DEF ReadEndOfStream, Answer, Expecting, MayCall, TypeOK
  <2>3. answer' \in Answers /\ aligned' \in BOOLEAN
    BY <1>0, <1>5 DEF ReadEndOfStream, Answer, TypeOK, Answers, Sound, Readable, TornEnd
  <2>4. TypeOK'
    BY <1>0, <1>5, <2>1, <2>2, <2>3 DEF ReadEndOfStream, TypeOK
  <2>5. BombGuard'
    BY <1>0, <1>5, <2>1, GuardStays DEF ReadEndOfStream
  <2>6. ~streamFinished /\ answer # "end"
    BY <1>5 DEF ReadEndOfStream, Expecting
  <2>7. CASE hasStreamChecksum /\ VerifyStream
    BY <1>0, <1>5, <2>4, <2>5, <2>6, <2>7 DEF ReadEndOfStream, EndIsVerified
  <2>8. CASE ~(hasStreamChecksum /\ VerifyStream)
    <3>1. Completed' /\ answer' = "end" /\ dpc' = "ready"
      BY <1>5, <2>8 DEF ReadEndOfStream, Answer, Completed
    <3> QED
      BY <1>0, <1>5, <2>4, <2>5, <3>1 DEF ReadEndOfStream, EndIsVerified
  <2> QED
    BY <2>7, <2>8
<1>6. CASE ReadBlockHeader
  <2>1. ~streamFinished /\ answer # "end" /\ dpc = "ready" /\ Readable
    BY <1>6 DEF ReadBlockHeader, Expecting, MayCall
  <2>2. PICK h : /\ h \in Misread \cup {Cell}
                 /\ h = Cell => Cell.kind = "block" \/ h \in Misread
                 /\ IF OverLimit(h) THEN Answer("DecompressionBombDetected")
                    ELSE dpc' = "payload" /\ header' = h /\ UNCHANGED answer
                 /\ aligned' = (Sound("block") \/ (aligned /\ h = Cell))
    BY <1>6 DEF ReadBlockHeader, Sound, Cell
  <2>3. h \in MisreadHeaders
    BY <1>0, <2>1, <2>2, MisreadOK, ReadableCell, CellFields
  <2>4. h.usize \in Nat /\ h # Absent
    BY <2>3, NoHeaderAssumption DEF MisreadHeaders
  <2>5. position' \in Nat /\ aligned' \in BOOLEAN
    BY <1>0, <1>6, <2>2 DEF ReadBlockHeader, Sound, Readable, TornEnd, TypeOK
  <2>6. CASE OverLimit(h)
    <3>1. TypeOK'
      BY <1>0, <1>6, <2>2, <2>5, <2>6
      DEF ReadBlockHeader, Answer, TypeOK, Answers, Failures
    <3>2. BombGuard'
      BY <1>0, <1>6, <2>2, <2>6, GuardStays DEF ReadBlockHeader, Answer
    <3> QED
      BY <1>6, <2>1, <2>2, <2>6, <3>1, <3>2 DEF ReadBlockHeader, Answer, EndIsVerified
  <2>7. CASE ~OverLimit(h)
    <3>1. TypeOK'
      BY <1>0, <1>6, <2>2, <2>3, <2>4, <2>5, <2>7 DEF ReadBlockHeader, TypeOK
    <3>2. BombGuard'
      <4>1. total \in Nat /\ MaxOutputBytes \in Nat \cup {Absent}
        BY <1>0, DecoderOptionsAssumption DEF TypeOK
      <4>2. /\ header' = h /\ UNCHANGED <<total, delivered>>
            /\ MaxOutputBytes # Absent => total + h.usize <= MaxOutputBytes
        BY <1>6, <2>2, <2>4, <2>7, <4>1 DEF ReadBlockHeader, OverLimit
      <4> QED
        BY <1>0, <4>1, <4>2 DEF BombGuard
    <3> QED
      BY <1>6, <2>1, <2>2, <2>7, <3>1, <3>2 DEF ReadBlockHeader, EndIsVerified
  <2> QED
    BY <2>6, <2>7
<1>7. CASE PayloadEof
  <2>1. TypeOK'
    BY <1>0, <1>7 DEF PayloadEof, Answer, TypeOK, Answers, Failures
  <2>2. BombGuard'
    BY <1>0, <1>7, GuardStays DEF PayloadEof, Answer
  <2> QED
    BY <1>7, <2>1, <2>2 DEF PayloadEof, Answer, EndIsVerified
<1>8. ASSUME Consume, Readable
      PROVE  position' \in Nat /\ aligned' \in BOOLEAN
  <2>1. CASE aligned
    <3>1. position' = position + 1 /\ aligned' = (Cell.kind = "payload")
      BY <1>8, <2>1 DEF Consume
    <3> QED
      BY <1>0, <3>1
  <2>2. CASE ~aligned
    <3>1. position' \in position + 1 .. Arrived /\ aligned' \in BOOLEAN
      BY <1>8, <2>2 DEF Consume
    <3> QED
      BY <1>0, <3>1, ArrivedOK
  <2> QED
    BY <2>1, <2>2
<1>9. CASE DecodeFails
  <2>1. TypeOK'
    BY <1>0, <1>8, <1>9 DEF DecodeFails, Answer, TypeOK, Answers, Failures
  <2>2. BombGuard'
    BY <1>0, <1>9, GuardStays DEF DecodeFails, Answer
  <2> QED
    BY <1>9, <2>1, <2>2 DEF DecodeFails, Answer, EndIsVerified
<1>10. CASE ChecksumFails
  <2>1. TypeOK'
    BY <1>0, <1>8, <1>10 DEF ChecksumFails, Answer, TypeOK, Answers, Failures
  <2>2. BombGuard'
    BY <1>0, <1>10, GuardStays DEF ChecksumFails, Answer
  <2> QED
    BY <1>10, <2>1, <2>2 DEF ChecksumFails, Answer, EndIsVerified
<1>11. CASE DeliverBlock
  <2>1. header \in MisreadHeaders /\ header.usize \in Nat /\ dpc = "payload"
    BY <1>0, <1>11 DEF DeliverBlock, TypeOK, MisreadHeaders
  <2>2. PICK block \in Decodings : /\ streamHasher' = streamHasher \o block
                                   /\ delivered' = delivered \o block
    BY <1>11 DEF DeliverBlock
  <2>3. block \in Seq(Received) /\ Len(block) = header.usize
    BY <1>0, <1>11, <2>1, DecodingsOK DEF DeliverBlock
  <2>4. /\ delivered' \in Seq(Received) /\ streamHasher' \in Seq(Received)
        /\ Len(delivered') = Len(delivered) + header.usize
    BY <1>0, <2>2, <2>3, ConcatProperties DEF TypeOK
  <2>5. TypeOK'
    BY <1>0, <1>8, <1>11, <2>1, <2>4 DEF DeliverBlock, Answer, TypeOK, Answers
  <2>6. BombGuard'
    BY <1>0, <1>11, <2>1, <2>4 DEF DeliverBlock, Answer, BombGuard
  <2> QED
    BY <1>11, <2>1, <2>2, <2>5, <2>6 DEF DeliverBlock, Answer, EndIsVerified
<1>12. CASE HashEof
  <2>1. TypeOK'
    BY <1>0, <1>12 DEF HashEof, Answer, TypeOK, Answers, Failures
  <2>2. BombGuard'
    BY <1>0, <1>12, GuardStays DEF HashEof, Answer
  <2> QED
    BY <1>12, <2>1, <2>2 DEF HashEof, Answer, EndIsVerified
<1>13. CASE CompareStreamChecksum
  <2>1. position' = position + 1 /\ position' \in Nat \ {0} /\ answer' \in {"end", "StreamChecksumMismatch"}
    BY <1>0, <1>13 DEF CompareStreamChecksum, Answer
  <2>2. TypeOK'
    BY <1>0, <1>13, <2>1 DEF CompareStreamChecksum, Answer, TypeOK, Answers, Failures
  <2>3. BombGuard'
    BY <1>0, <1>13, GuardStays DEF CompareStreamChecksum, Answer
  <2>4. ASSUME answer' = "end"
        PROVE  Completed'
    <3>1. DigestMatches
      BY <1>13, <2>4 DEF CompareStreamChecksum, Answer
    <3>2. wire'[position'] = Cell /\ (position' \in damaged' <=> position + 1 \in damaged)
      BY <1>a, <2>1 DEF ReadIsStable, source, Cell
    <3> QED
      BY <1>13, <3>1, <3>2, <2>1 DEF CompareStreamChecksum, Completed, DigestMatches, Sound, Cell
  <2> QED
    BY <1>13, <2>1, <2>2, <2>3, <2>4 DEF CompareStreamChecksum, Answer, EndIsVerified
<1>14. CASE UNCHANGED vars
  <2>1. TypeOK' /\ BombGuard'
    BY <1>0, <1>14 DEF vars, TypeOK, BombGuard
  <2>2. EndIsVerified'
    BY <1>0, <1>a, <1>14, CompletedStays DEF vars, EndIsVerified
  <2> QED
    BY <1>14, <2>1, <2>2 DEF vars
<1> QED
  BY <1>1, <1>2, <1>3, <1>4, <1>5, <1>6, <1>7, <1>9, <1>10, <1>11, <1>12,
     <1>13, <1>14 DEF Next

-----------------------------------------------------------------------------
LEMMA SpecIInv == Spec /\ Environment => []IInv
<1>1. Init /\ WireOK => IInv
  BY InitIInv
<1>2. IInv /\ WireOK /\ [Next]_vars /\ [ReadIsStable]_<<vars, source>> => IInv'
  BY NextIInv
<1> QED
  BY <1>1, <1>2, PTL DEF Spec, Environment

(* Every variable of the decoder keeps its type, whatever the source is.   *)
THEOREM DecoderTypes == Spec /\ Environment => []TypeOK
BY SpecIInv, PTL DEF IInv

(* The limit on the output holds over any source: whatever sizes headers   *)
(* declare, and however they are damaged, no caller receives more than     *)
(* max_output_bytes, and no payload is read whose block would exceed it.   *)
THEOREM DecoderBombGuard == Spec /\ Environment => []BombGuard
BY SpecIInv, PTL DEF IInv

(* decompress_to answers Ok only behind a sentinel and, where there is a   *)
(* stream checksum to verify, behind a sound one of all that was written   *)
(* to its output, for any source.                                          *)
THEOREM DecoderEndIsVerified == Spec /\ Environment => []EndIsVerified
BY SpecIInv, PTL DEF IInv

(* Behind the sentinel the decoder delivers nothing more, over any source  *)
(* and for callers that go on after an error.                              *)
THEOREM DecoderNothingAfterEnd == Spec /\ Environment => NothingAfterEnd
<1>1. IInv /\ [Next]_vars => [streamFinished => UNCHANGED delivered]_vars
  <2> SUFFICES ASSUME IInv, Next, streamFinished PROVE UNCHANGED delivered
    OBVIOUS
  <2>1. dpc # "payload"
    BY DEF IInv
  <2> QED
    BY <2>1 DEF Next, Open, EndAgain, HeaderEof, RejectHeader, ReadEndOfStream,
      ReadBlockHeader, PayloadEof, DecodeFails, ChecksumFails, DeliverBlock,
      HashEof, CompareStreamChecksum
<1> QED
  BY <1>1, SpecIInv, PTL DEF Spec, NothingAfterEnd
=============================================================================
