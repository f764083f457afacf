--------------------------- MODULE CodropPipeProofs ---------------------------
(***************************************************************************)
(* The two ends together. What each end guarantees is proved in its own    *)
(* module, the decoder's for every source that leaves alone what was read; *)
(* here the encoder behind its channel is shown to be such a source, and   *)
(* the guarantees are put together.                                        *)
(***************************************************************************)
EXTENDS CodropPipe, SliceLemmas

EncP == INSTANCE StreamEncoderProofs
DecP == INSTANCE StreamDecoderProofs WITH sourceClosed <- EncoderGone

LEMMA EncoderAssumptions ==
  /\ EncP!AbsentAssumption /\ EncP!InputAssumption /\ EncP!BlockSizeAssumption
  /\ EncP!OptionsAssumption /\ EncP!SizesAssumption
BY EndsAssumption, AbsentAssumption
DEF EncP!AbsentAssumption, EncP!InputAssumption, EncP!BlockSizeAssumption,
    EncP!OptionsAssumption, EncP!SizesAssumption, EncP!Levels, EncP!Candidates,
    Enc!AbsentAssumption, Enc!InputAssumption, Enc!BlockSizeAssumption,
    Enc!OptionsAssumption, Enc!SizesAssumption, Enc!Levels, Enc!Candidates

LEMMA DecoderAssumptions ==
  /\ DecP!AbsentAssumption /\ DecP!DecoderOptionsAssumption
  /\ DecP!GarbageAssumption /\ DecP!NoHeaderAssumption
BY EndsAssumption, AbsentAssumption
DEF DecP!AbsentAssumption, DecP!DecoderOptionsAssumption, DecP!GarbageAssumption,
    DecP!NoHeaderAssumption, DecP!MisreadHeaders, DecP!Received, DecP!BlockTypes,
    Dec!DecoderOptionsAssumption, Dec!GarbageAssumption,
    Dec!NoHeaderAssumption, Dec!MisreadHeaders, Dec!Received, Dec!BlockTypes

(* The ends of the pipe are those of the proofs.                           *)
LEMMA SameEncoder ==
  /\ Enc!Init <=> EncP!Init
  /\ Enc!Next <=> EncP!Next
  /\ Enc!vars = EncP!vars /\ Enc!vars = encoderVars
<1>1. Enc!Init <=> EncP!Init
  BY DEF Enc!Init, EncP!Init
<1>2. Enc!MayCall <=> EncP!MayCall
  BY DEF Enc!MayCall, EncP!MayCall
<1>3. ASSUME NEW n PROVE Enc!WriteChunk(n) <=> EncP!WriteChunk(n)
  BY <1>2 DEF Enc!WriteChunk, EncP!WriteChunk
<1>4. (Enc!Finish <=> EncP!Finish) /\ (Enc!Abandon <=> EncP!Abandon)
  BY <1>2 DEF Enc!Finish, EncP!Finish, Enc!Abandon, EncP!Abandon
<1>5. (Enc!WriteHeader <=> EncP!WriteHeader) /\ (Enc!Fill <=> EncP!Fill)
  BY DEF Enc!WriteHeader, EncP!WriteHeader, Enc!HeaderCell, EncP!HeaderCell,
    Enc!Fill, EncP!Fill, Enc!Copied, EncP!Copied, Enc!CopiedShort, EncP!CopiedShort,
    Enc!Uncopied, EncP!Uncopied
<1>6. Enc!FlushBlock <=> EncP!FlushBlock
  <2>1. ASSUME NEW best, NEW c, NEW len, NEW size
        PROVE  Enc!Better(best, c, len, size) = EncP!Better(best, c, len, size)
    BY DEF Enc!Better, EncP!Better, Enc!Offered, EncP!Offered, Enc!SizeOf, EncP!SizeOf,
      Enc!Optional, EncP!Optional
  <2>2. ASSUME NEW l, NEW len, NEW size
        PROVE  Enc!Choice(l, len, size) = EncP!Choice(l, len, size)
    BY <2>1 DEF Enc!Choice, EncP!Choice, Enc!FastChoice, EncP!FastChoice,
      Enc!BalancedChoice, EncP!BalancedChoice, Enc!CompactChoice, EncP!CompactChoice
  <2>3. ASSUME NEW c, NEW len, NEW size
        PROVE  Enc!TypeOf(c) = EncP!TypeOf(c) /\ Enc!SizeOf(c, len, size) = EncP!SizeOf(c, len, size)
    BY DEF Enc!TypeOf, EncP!TypeOf, Enc!SizeOf, EncP!SizeOf
  <2> QED
    BY <2>2, <2>3 DEF Enc!FlushBlock, EncP!FlushBlock, Enc!BlockCell, EncP!BlockCell
<1>7. /\ Enc!ChunkDone <=> EncP!ChunkDone
      /\ Enc!WriteBlockHeader <=> EncP!WriteBlockHeader
      /\ Enc!WritePayload <=> EncP!WritePayload
  BY DEF Enc!ChunkDone, EncP!ChunkDone, Enc!WriteBlockHeader, EncP!WriteBlockHeader,
    Enc!WritePayload, EncP!WritePayload, Enc!PayloadCell, EncP!PayloadCell
<1>8. /\ Enc!FlushTail <=> EncP!FlushTail
      /\ Enc!WriteEndOfStream <=> EncP!WriteEndOfStream
      /\ Enc!WriteStreamChecksum <=> EncP!WriteStreamChecksum
      /\ Enc!FlushWriter <=> EncP!FlushWriter
  BY DEF Enc!FlushTail, EncP!FlushTail, Enc!HasTail, EncP!HasTail, Enc!WriteEndOfStream, EncP!WriteEndOfStream,
    Enc!WriteStreamChecksum, EncP!WriteStreamChecksum, Enc!FlushWriter, EncP!FlushWriter,
    Enc!EndCell, EncP!EndCell, Enc!HashCell, EncP!HashCell
<1>9. Enc!vars = EncP!vars /\ Enc!vars = encoderVars
  BY DEF Enc!vars, EncP!vars, encoderVars
<1>10. (Enc!WriteFails <=> EncP!WriteFails) /\ (Enc!Gone <=> EncP!Gone)
  BY DEF Enc!WriteFails, EncP!WriteFails, Enc!Writing, EncP!Writing, Enc!TornCell,
    EncP!TornCell, Enc!Gone, EncP!Gone, Enc!vars, EncP!vars
<1> QED
  BY <1>1, <1>3, <1>4, <1>5, <1>6, <1>7, <1>8, <1>9, <1>10 DEF Enc!Next, EncP!Next

LEMMA SameDecoder ==
  /\ Dec!Init <=> DecP!Init
  /\ Dec!Next <=> DecP!Next
  /\ Dec!vars = DecP!vars /\ Dec!vars = decoderVars
<1>1. Dec!Init <=> DecP!Init
  BY DEF Dec!Init, DecP!Init
<1>2. /\ Dec!Arrived = DecP!Arrived
      /\ Dec!TornEnd <=> DecP!TornEnd
      /\ Dec!Cell = DecP!Cell
  BY DEF Dec!Arrived, DecP!Arrived, Dec!TornEnd, DecP!TornEnd, Dec!Cell, DecP!Cell
<1>3. (Dec!Readable <=> DecP!Readable) /\ (Dec!AtEof <=> DecP!AtEof)
  BY <1>2 DEF Dec!Readable, DecP!Readable, Dec!AtEof, DecP!AtEof
<1>4. ASSUME NEW kind PROVE Dec!Sound(kind) = DecP!Sound(kind)
  BY <1>3 DEF Dec!Sound, DecP!Sound
<1>5. ASSUME NEW n PROVE Dec!Blank(n) = DecP!Blank(n)
  BY DEF Dec!Blank, DecP!Blank
<1>6. Dec!Misread = DecP!Misread
  BY <1>5 DEF Dec!Misread, DecP!Misread, Dec!BlockCell, DecP!BlockCell
<1>7. ASSUME NEW a PROVE Dec!Answer(a) <=> DecP!Answer(a)
  BY DEF Dec!Answer, DecP!Answer
<1>8. (Dec!MayCall <=> DecP!MayCall) /\ (Dec!Expecting <=> DecP!Expecting)
  BY DEF Dec!MayCall, DecP!MayCall, Dec!Expecting, DecP!Expecting
<1>9. Dec!Open <=> DecP!Open
  BY <1>2, <1>3, <1>4 DEF Dec!Open, DecP!Open
<1>10. (Dec!EndAgain <=> DecP!EndAgain) /\ (Dec!HeaderEof <=> DecP!HeaderEof)
  BY <1>2, <1>3, <1>7, <1>8 DEF Dec!EndAgain, DecP!EndAgain, Dec!HeaderEof, DecP!HeaderEof,
    Dec!EofAnswer, DecP!EofAnswer
<1>11. (Dec!RejectHeader <=> DecP!RejectHeader) /\ (Dec!ReadEndOfStream <=> DecP!ReadEndOfStream)
  BY <1>3, <1>4, <1>7, <1>8 DEF Dec!RejectHeader, DecP!RejectHeader,
    Dec!ReadEndOfStream, DecP!ReadEndOfStream
<1>12. Dec!ReadBlockHeader <=> DecP!ReadBlockHeader
  <2>1. ASSUME NEW h PROVE Dec!OverLimit(h) <=> DecP!OverLimit(h)
    BY DEF Dec!OverLimit, DecP!OverLimit
  <2> QED
    BY <1>2, <1>3, <1>4, <1>6, <1>7, <1>8, <2>1 DEF Dec!ReadBlockHeader, DecP!ReadBlockHeader
<1>13. (Dec!PayloadEof <=> DecP!PayloadEof) /\ (Dec!HashEof <=> DecP!HashEof)
  BY <1>3, <1>7 DEF Dec!PayloadEof, DecP!PayloadEof, Dec!HashEof, DecP!HashEof
<1>14. Dec!Decodings = DecP!Decodings /\ (Dec!Consume <=> DecP!Consume)
  BY <1>2, <1>4, <1>5 DEF Dec!Decodings, DecP!Decodings, Dec!Consume, DecP!Consume
<1>15. ASSUME NEW b PROVE Dec!ChecksumHolds(b) <=> DecP!ChecksumHolds(b)
  BY DEF Dec!ChecksumHolds, DecP!ChecksumHolds
<1>16. (Dec!DecodeFails <=> DecP!DecodeFails) /\ (Dec!ChecksumFails <=> DecP!ChecksumFails)
  BY <1>3, <1>4, <1>7, <1>14, <1>15 DEF Dec!DecodeFails, DecP!DecodeFails,
    Dec!ChecksumFails, DecP!ChecksumFails
<1>17. Dec!DeliverBlock <=> DecP!DeliverBlock
  BY <1>3, <1>7, <1>14, <1>15 DEF Dec!DeliverBlock, DecP!DeliverBlock
<1>18. Dec!CompareStreamChecksum <=> DecP!CompareStreamChecksum
  BY <1>2, <1>3, <1>4, <1>7 DEF Dec!CompareStreamChecksum, DecP!CompareStreamChecksum,
    Dec!DigestMatches, DecP!DigestMatches
<1>19. Dec!vars = DecP!vars /\ Dec!vars = decoderVars
  BY DEF Dec!vars, DecP!vars, decoderVars
<1> QED
  BY <1>1, <1>9, <1>10, <1>11, <1>12, <1>13, <1>16, <1>17, <1>18, <1>19 DEF Dec!Next, DecP!Next

-----------------------------------------------------------------------------
(* What the channel does to the wire: it may lose its end, but nothing     *)
(* that was read, and it changes only cells that were not read yet.        *)
ChannelInv ==
  /\ position \in Nat
  /\ position <= DecP!Arrived
  /\ cut \in (0 .. Len(wire)) \cup {Absent}
  /\ \A i \in damaged : i \in 1 .. Len(wire) /\ wire[i].kind \in Damageable

PInv == EncP!CInv /\ DecP!IInv /\ ChannelInv

LEMMA ArrivedBounds ==
  ASSUME ChannelInv, Len(wire) \in Nat
  PROVE  /\ DecP!Arrived \in Nat /\ DecP!Arrived <= Len(wire)
         /\ position <= Len(wire)
BY DEF ChannelInv, DecP!Arrived

(* Every step is one of the encoder, one of the decoder, or one of the     *)
(* channel.                                                                *)
LEMMA Steps ==
  ASSUME [Next]_vars
  PROVE  \/ EncP!Next /\ UNCHANGED <<channelVars, decoderVars>>
         \/ DecP!Next /\ UNCHANGED <<channelVars, encoderVars>>
         \/ Cut \/ Damage \/ UNCHANGED vars
BY SameEncoder, SameDecoder DEF Next, Encode, Decode, Done

(* The decoder reads on, and no further than the wire reaches.             *)
LEMMA ReadsOn ==
  ASSUME ChannelInv, Len(wire) \in Nat, DecP!Next
  PROVE  position' \in Nat /\ position <= position' /\ position' <= DecP!Arrived
<1>1. /\ position \in Nat /\ position <= DecP!Arrived /\ DecP!Arrived \in Nat
      /\ DecP!Readable => position < DecP!Arrived
  BY ArrivedBounds DEF ChannelInv, DecP!Readable
<1>2. CASE DecP!Open \/ DecP!EndAgain \/ DecP!HeaderEof \/ DecP!RejectHeader \/ DecP!ReadEndOfStream
  <2>1. position' = position \/ (DecP!Readable /\ position' = position + 1)
    BY <1>2 DEF DecP!Open, DecP!Sound, DecP!EndAgain, DecP!HeaderEof,
      DecP!RejectHeader, DecP!ReadEndOfStream
  <2> QED
    BY <1>1, <2>1
<1>3. CASE DecP!ReadBlockHeader \/ DecP!PayloadEof \/ DecP!HashEof \/ DecP!CompareStreamChecksum
  BY <1>1, <1>3 DEF DecP!ReadBlockHeader, DecP!PayloadEof, DecP!HashEof, DecP!CompareStreamChecksum
<1>4. CASE DecP!DecodeFails \/ DecP!ChecksumFails \/ DecP!DeliverBlock
  <2>1. DecP!Readable /\ DecP!Consume
    BY <1>4 DEF DecP!DecodeFails, DecP!ChecksumFails, DecP!DeliverBlock
  <2>2. position' = position + 1 \/ position' \in position + 1 .. DecP!Arrived
    BY <2>1 DEF DecP!Consume
  <2> QED
    BY <1>1, <2>1, <2>2
<1> QED
  BY <1>2, <1>3, <1>4 DEF DecP!Next

LEMMA EncoderWire ==
  ASSUME EncP!CInv
  PROVE  wire \in Seq(Cells) /\ Len(wire) \in Nat
<1>1. EncP!Cells = Cells
  BY DEF EncP!Cells, EncP!BlockHeaders, EncP!BlockTypes, EncP!EndCell, EncP!TornCell,
    Cells, BlockHeaders, BlockTypes, EndCell, TornCell
<1>2. wire \in Seq(Cells)
  BY <1>1 DEF EncP!CInv, EncP!IInv, EncP!TypeOK
<1> QED
  BY <1>2, LenProperties

(* The source that the decoder's theorems ask for.                         *)
LEMMA ChannelIsSource ==
  ASSUME EncP!CInv, ChannelInv
  PROVE  DecP!WireOK
<1>1. DecP!Cells = Cells
  BY DEF DecP!Cells, DecP!BlockHeaders, DecP!BlockTypes, DecP!EndCell, DecP!TornCell,
    Cells, BlockHeaders, BlockTypes, EndCell, TornCell
<1> QED
  BY <1>1, EncoderWire DEF ChannelInv, DecP!WireOK

LEMMA NextChannelInv ==
  ASSUME EncP!CInv, ChannelInv, [Next]_vars
  PROVE  ChannelInv' /\ DecP!ReadIsStable
<1>0. /\ Len(wire) \in Nat /\ position \in Nat /\ position <= DecP!Arrived
      /\ DecP!Arrived \in Nat /\ DecP!Arrived <= Len(wire) /\ position <= Len(wire)
      /\ cut \in (0 .. Len(wire)) \cup {Absent} /\ Absent \notin Nat
      /\ \A i \in damaged : i \in 1 .. Len(wire) /\ wire[i].kind \in Damageable
  BY EncoderWire, ArrivedBounds, AbsentAssumption DEF ChannelInv
<1>1. CASE EncP!Next /\ UNCHANGED <<channelVars, decoderVars>>
  <2>1. /\ Len(wire') \in Nat /\ Len(wire) <= Len(wire')
        /\ \A i \in 1 .. Len(wire) : wire'[i] = wire[i]
    BY <1>1, EncP!WireGrows, EncoderAssumptions
  <2>2. UNCHANGED <<cut, damaged, position>>
    BY <1>1 DEF channelVars, decoderVars
  <2>3. ChannelInv'
    BY <1>0, <2>1, <2>2 DEF ChannelInv, DecP!Arrived
  <2>4. DecP!ReadIsStable
    BY <1>0, <2>1, <2>2 DEF DecP!ReadIsStable
  <2> QED
    BY <2>3, <2>4
<1>2. CASE DecP!Next /\ UNCHANGED <<channelVars, encoderVars>>
  <2>1. position' \in Nat /\ position <= position' /\ position' <= DecP!Arrived
    BY <1>0, <1>2, ReadsOn
  <2>2. UNCHANGED <<cut, damaged, wire>>
    BY <1>2 DEF channelVars, encoderVars
  <2> QED
    BY <1>0, <2>1, <2>2 DEF ChannelInv, DecP!Arrived, DecP!ReadIsStable
<1>3. CASE Cut
  <2>1. cut = Absent /\ cut' \in position .. Len(wire) /\ UNCHANGED <<damaged, wire, position>>
    BY <1>3 DEF Cut, encoderVars, decoderVars
  <2>2. cut' \in Nat /\ cut' # Absent /\ cut' \in 0 .. Len(wire') /\ position' <= cut'
    BY <1>0, <2>1
  <2> QED
    BY <1>0, <2>1, <2>2 DEF ChannelInv, DecP!Arrived, DecP!ReadIsStable
<1>4. CASE Damage
  <2>1. /\ UNCHANGED <<cut, wire, position>>
        /\ \E i \in position + 1 .. Len(wire) :
             wire[i].kind \in Damageable /\ damaged' = damaged \cup {i}
    BY <1>4 DEF Damage, encoderVars, decoderVars
  <2> QED
    BY <1>0, <2>1 DEF ChannelInv, DecP!Arrived, DecP!ReadIsStable
<1>5. CASE UNCHANGED vars
  <2>1. UNCHANGED <<cut, damaged, wire, position>>
    BY <1>5 DEF vars, encoderVars, channelVars, decoderVars
  <2> QED
    BY <1>0, <2>1 DEF ChannelInv, DecP!Arrived, DecP!ReadIsStable
<1> QED
  BY <1>1, <1>2, <1>3, <1>4, <1>5, Steps

LEMMA InitPInv == Init => PInv
<1> SUFFICES ASSUME Init PROVE PInv
  OBVIOUS
<1>1. EncP!Init /\ DecP!Init /\ cut = Absent /\ damaged = {}
  BY SameEncoder, SameDecoder DEF Init
<1>2. EncP!CInv
  BY <1>1, EncP!InitCInv, EncoderAssumptions
<1>3. ChannelInv
  BY <1>1, <1>2, EncoderWire DEF DecP!Init, ChannelInv, DecP!Arrived
<1>4. DecP!IInv
  BY <1>1, <1>2, <1>3, ChannelIsSource, DecP!InitIInv, DecoderAssumptions
<1> QED
  BY <1>2, <1>3, <1>4 DEF PInv

LEMMA NextPInv ==
  ASSUME PInv, [Next]_vars
  PROVE  PInv' /\ [EncP!Next]_EncP!vars /\ [DecP!Next]_DecP!vars /\ DecP!ReadIsStable
<1>1. ChannelInv' /\ DecP!ReadIsStable
  BY NextChannelInv DEF PInv
<1>2. [EncP!Next]_EncP!vars
  BY Steps DEF EncP!vars, encoderVars, channelVars, decoderVars, vars, Cut, Damage
<1>3. [DecP!Next]_DecP!vars
  BY Steps DEF DecP!vars, encoderVars, channelVars, decoderVars, vars, Cut, Damage
<1>4. EncP!CInv'
  BY <1>2, EncP!NextCInv, EncoderAssumptions DEF PInv
<1>5. DecP!IInv'
  BY <1>1, <1>3, ChannelIsSource, DecP!NextIInv, DecoderAssumptions DEF PInv
<1> QED
  BY <1>1, <1>2, <1>3, <1>4, <1>5 DEF PInv

LEMMA SpecPInv == Spec => []PInv
BY InitPInv, NextPInv, PTL DEF Spec

-----------------------------------------------------------------------------
(* The decoder that has read the stream header knows whether there is a    *)
(* checksum to come: a header that does not get through as it was opens no *)
(* stream.                                                                 *)
HeaderRead ==
  /\ dpc \notin {"open", "dead"} => hasStreamChecksum = StreamChecksum
  /\ callAgain \in Callers

LEMMA InitHeaderRead == Init => HeaderRead
BY SameDecoder DEF Init, DecP!Init, HeaderRead

LEMMA NextHeaderRead ==
  ASSUME PInv, HeaderRead, [Next]_vars
  PROVE  HeaderRead'
<1>1. CASE UNCHANGED decoderVars
  BY <1>1 DEF decoderVars, HeaderRead
<1>2. CASE DecP!Open
  <2>1. CASE DecP!Sound("header")
    <3>1. position + 1 \in 1 .. Len(wire)
      <4>1. position + 1 <= DecP!Arrived /\ position \in Nat
        BY <2>1 DEF DecP!Sound, DecP!Readable, PInv, ChannelInv, DecP!Arrived
      <4> QED
        BY <4>1, EncoderWire, ArrivedBounds DEF PInv
    <3>2. DecP!Cell.hasStreamChecksum = StreamChecksum
      BY <2>1, <3>1 DEF DecP!Sound, DecP!Cell, PInv, EncP!CInv, EncP!DigestsAreFinal
    <3> QED
      BY <1>2, <2>1, <3>2 DEF DecP!Open, HeaderRead
  <2>2. CASE ~DecP!Sound("header")
    BY <1>2, <2>2 DEF DecP!Open, HeaderRead
  <2> QED
    BY <2>1, <2>2
<1>3. CASE DecP!Next /\ ~DecP!Open
  <2>1. dpc \notin {"open", "dead"} /\ UNCHANGED <<hasStreamChecksum, callAgain>>
    BY <1>3 DEF DecP!Next, DecP!EndAgain, DecP!HeaderEof, DecP!RejectHeader,
      DecP!ReadEndOfStream, DecP!ReadBlockHeader, DecP!PayloadEof, DecP!DecodeFails,
      DecP!ChecksumFails, DecP!DeliverBlock, DecP!HashEof, DecP!CompareStreamChecksum,
      DecP!MayCall, DecP!Expecting
  <2> QED
    BY <2>1 DEF HeaderRead
<1> QED
  BY <1>1, <1>2, <1>3, Steps DEF Cut, Damage, vars

(* With a stream checksum that is written and verified, decompress_to      *)
(* returns Ok only with all that was digested, of an encoder that was      *)
(* finished, whichever cells are damaged or cut off, with or without block *)
(* checksums and after any errors of the writer: a checksum that is on the *)
(* wire and sound is that of everything digested, and what follows it was  *)
(* never written.                                                          *)
THEOREM PipeEndMeansComplete ==
  StreamChecksum /\ VerifyStream /\ Callers \subseteq {FALSE} /\ Spec
    => []EndMeansComplete
<1> SUFFICES ASSUME StreamChecksum, VerifyStream, Callers \subseteq {FALSE}
             PROVE  Spec => []EndMeansComplete
  OBVIOUS
<1>1. PInv /\ HeaderRead => EndMeansComplete
  <2> SUFFICES ASSUME PInv, HeaderRead, answer = "end" PROVE delivered = hashed /\ finishing
    BY DEF EndMeansComplete
  <2>1. DecP!IInv /\ position \in Nat
    BY DEF PInv, ChannelInv
  <2>2. streamFinished /\ dpc = "ready" /\ position >= 1 /\ ~callAgain
    BY <2>1 DEF DecP!IInv, HeaderRead
  <2>3. DecP!Completed /\ hasStreamChecksum
    BY <2>1, <2>2 DEF DecP!IInv, DecP!EndIsVerified, HeaderRead
  <2>4. wire[position].kind = "hash" /\ wire[position].digest = delivered
    BY <2>3 DEF DecP!Completed
  <2>5. position \in 1 .. Len(wire)
    BY <2>1, <2>2, EncoderWire, ArrivedBounds DEF PInv
  <2> QED
    BY <2>4, <2>5 DEF PInv, EncP!CInv, EncP!DigestsAreFinal
<1>2. HeaderRead /\ PInv /\ [Next]_vars => HeaderRead'
  BY NextHeaderRead
<1>3. Spec => []HeaderRead
  BY <1>2, InitHeaderRead, SpecPInv, PTL DEF Spec
<1> QED
  BY <1>1, <1>3, SpecPInv, PTL

-----------------------------------------------------------------------------
(* The lossless stream. Blocks must be verified; a caller that goes on     *)
(* after an error is left out at both ends.                                *)
BlocksVerified ==
  /\ BlockChecksum /\ VerifyBlocks
  /\ ~RetryAfterError
  /\ Callers \subseteq {FALSE}

(* How much of what is digested the first n blocks hold.                   *)
Upto(n) == IF n * BlockSize <= Len(hashed) THEN n * BlockSize ELSE Len(hashed)

(* The decoder has consumed the stream header and n blocks, and is at one  *)
(* of three places behind them.                                            *)
HasRead(n) ==
  /\ delivered = SubSeq(hashed, 1, Upto(n))
  /\ n * BlockSize <= Len(hashed) \/ finishing
  /\ \/ dpc = "ready" /\ position = 2 * n + 1
     \/ /\ dpc = "payload" /\ position = 2 * n + 2
        /\ header = wire[position] /\ header.kind = "block"
     \/ dpc = "hash" /\ position = 2 * n + 2 /\ wire[position] = EndCell

InStep ==
  /\ callAgain = FALSE
  /\ dpc = "open" => answer = "none" /\ position = 0 /\ delivered = <<>> /\ aligned
  /\ Outcome # "open" => dpc \in {"ready", "dead"}
  /\ Outcome = "open" /\ dpc # "open" =>
       /\ aligned
       /\ answer \in {"opened", "block"}
       /\ \E n \in Nat : HasRead(n)

(* The whole inductive invariant.                                          *)
LosslessInv == PInv /\ EncP!WInv /\ (FramesSpared => InStep)

LEMMA HashedOK ==
  ASSUME PInv
  PROVE  /\ hashed \in Seq(Byte) /\ Len(hashed) \in Nat /\ BlockSize \in Nat \ {0}
         /\ finishing \in BOOLEAN /\ position \in Nat
         /\ wire \in Seq(Cells) /\ Len(wire) \in Nat /\ position <= Len(wire)
         /\ DecP!Arrived \in Nat /\ DecP!Arrived <= Len(wire)
<1>1. hashed \in Seq(Byte) /\ finishing \in BOOLEAN
  BY DEF PInv, EncP!CInv, EncP!IInv, EncP!TypeOK
<1>2. BlockSize \in Nat \ {0}
  BY EncoderAssumptions DEF EncP!BlockSizeAssumption
<1> QED
  BY <1>1, <1>2, LenProperties, EncoderWire, ArrivedBounds DEF PInv, ChannelInv

(* The next block of what is digested, appended to those before it.        *)
LEMMA NextBlock ==
  ASSUME PInv, NEW n \in Nat, n * BlockSize < Len(hashed)
  PROVE  /\ n * BlockSize \in Nat /\ Upto(n) = n * BlockSize
         /\ Upto(n + 1) \in Upto(n) .. Len(hashed)
         /\ SubSeq(hashed, 1, Upto(n)) \o EncP!Slice(hashed, n + 1)
              = SubSeq(hashed, 1, Upto(n + 1))
         /\ EncP!Slice(hashed, n + 1) \in Seq(Byte)
<1> DEFINE p == n * BlockSize
           q == Upto(n + 1)
<1>1. /\ hashed \in Seq(Byte) /\ Len(hashed) \in Nat /\ BlockSize \in Nat \ {0}
      /\ p \in Nat /\ (n + 1) * BlockSize = p + BlockSize /\ (n + 1) - 1 = n
  BY HashedOK, Multiples
<1>2. EncP!Slice(hashed, n + 1) = SubSeq(hashed, p + 1, q)
  BY <1>1 DEF EncP!Slice, Upto
<1>3. Upto(n) = p /\ p < Len(hashed)
  BY <1>1 DEF Upto
<1>4. q = IF p + BlockSize <= Len(hashed) THEN p + BlockSize ELSE Len(hashed)
  BY <1>1 DEF Upto
<1> HIDE DEF p, q
<1>5. q \in p .. Len(hashed)
  BY <1>1, <1>3, <1>4
<1>6. 1 \in 1 .. Len(hashed) + 1 /\ p \in 1 - 1 .. Len(hashed)
  BY <1>1, <1>3
<1>7. SubSeq(hashed, 1, p) \o SubSeq(hashed, p + 1, q) = SubSeq(hashed, 1, q)
  BY <1>1, <1>5, <1>6, ConcatAdjacentSubSeq
<1>8. SubSeq(hashed, p + 1, q) \in Seq(Byte)
  <2>1. p + 1 \in Nat \ {0} /\ q \in 0 .. Len(hashed)
    BY <1>1, <1>5
  <2> QED
    BY <1>1, <2>1, SliceType
<1> QED
  BY <1>1, <1>2, <1>3, <1>5, <1>7, <1>8 DEF p, q

LEMMA UptoOK ==
  ASSUME PInv, NEW n \in Nat
  PROVE  Upto(n) \in 0 .. Len(hashed)
<1>1. Len(hashed) \in Nat /\ n * BlockSize \in Nat
  BY HashedOK
<1> QED
  BY <1>1 DEF Upto

(* The beginnings of what is digested are prefixes of each other.          *)
LEMMA Prefixes ==
  ASSUME PInv, NEW k \in 0 .. Len(hashed), NEW j \in 0 .. k
  PROVE  /\ Lossless!IsPrefix(SubSeq(hashed, 1, j), SubSeq(hashed, 1, k))
         /\ Lossless!IsPrefix(SubSeq(hashed, 1, k), hashed)
<1>1. hashed \in Seq(Byte) /\ Len(hashed) \in Nat /\ j \in 0 .. Len(hashed) /\ j <= k
  BY HashedOK
<1>2. Len(SubSeq(hashed, 1, k)) = k /\ Len(SubSeq(hashed, 1, j)) = j /\ k <= Len(hashed)
  BY <1>1, PrefixOfPrefix
<1>3. SubSeq(SubSeq(hashed, 1, k), 1, j) = SubSeq(hashed, 1, j)
  BY <1>1, PrefixOfPrefix
<1> QED
  BY <1>1, <1>2, <1>3 DEF Lossless!IsPrefix

LEMMA GrowsByPrefix ==
  ASSUME PInv, NEW t \in Seq(Byte)
  PROVE  Lossless!IsPrefix(hashed, hashed \o t)
<1>1. /\ hashed \in Seq(Byte) /\ Len(hashed) \in Nat /\ Len(t) \in Nat
      /\ Len(hashed \o t) = Len(hashed) + Len(t) /\ Len(hashed) \in 0 .. Len(hashed)
  BY HashedOK, ConcatProperties, LenProperties
<1>2. SubSeq(hashed \o t, 1, Len(hashed)) = SubSeq(hashed, 1, Len(hashed))
  BY <1>1, PrefixOfConcat
<1> QED
  BY <1>1, <1>2 DEF Lossless!IsPrefix

(* A step of the encoder takes more data, or finishes, or is not seen; the *)
(* blocks that were read were full or the data were final.                 *)
LEMMA EncoderImplements ==
  ASSUME LosslessInv, FramesSpared, EncP!Next, UNCHANGED <<channelVars, decoderVars>>
  PROVE  InStep' /\ [Lossless!Next]_Lossless!vars
<1>1. UNCHANGED <<dpc, position, aligned, header, delivered, answer, callAgain>>
  BY DEF decoderVars
<1>2. UNCHANGED Outcome
  BY <1>1 DEF Outcome, Dec!Failures
<1>3. PInv /\ InStep /\ EncP!CInv
  BY DEF LosslessInv, PInv
<1>4. /\ hashed \in Seq(Byte) /\ Len(hashed) \in Nat /\ position \in Nat
      /\ position <= Len(wire) /\ Len(wire) \in Nat /\ BlockSize \in Nat
  BY <1>3, HashedOK
<1>5. \A i \in 1 .. Len(wire) : wire'[i] = wire[i]
  BY <1>3, EncP!WireGrows, EncoderAssumptions
<1>6. \/ ~finishing /\ finishing' = finishing /\ \E t \in Seq(Byte) : hashed' = hashed \o t
      \/ finishing' /\ hashed' = hashed
  BY <1>3, EncP!HashedGrows, EncoderAssumptions
<1>7. [Lossless!Next]_Lossless!vars
  <2>1. CASE finishing' /\ hashed' = hashed
    BY <1>1, <1>2, <2>1 DEF Lossless!Next, Lossless!Finish
  <2>2. ASSUME NEW t \in Seq(Byte), ~finishing, finishing' = finishing, hashed' = hashed \o t
        PROVE  Lossless!Next
    <3>1. Lossless!IsPrefix(hashed, hashed')
      BY <1>3, <2>2, GrowsByPrefix
    <3> QED
      BY <1>1, <1>2, <2>2, <3>1 DEF Lossless!Next, Lossless!Send
  <2> QED
    BY <1>6, <2>1, <2>2
<1>8. ASSUME NEW n \in Nat, HasRead(n) PROVE HasRead(n)'
  <2>1. n * BlockSize \in Nat
    BY <1>4
  <2>2. delivered' = SubSeq(hashed', 1, Upto(n)') /\ (n * BlockSize <= Len(hashed') \/ finishing')
    <3>1. CASE finishing' /\ hashed' = hashed
      BY <1>1, <1>8, <3>1 DEF HasRead, Upto
    <3>2. ASSUME NEW t \in Seq(Byte), ~finishing, finishing' = finishing, hashed' = hashed \o t
          PROVE  /\ delivered' = SubSeq(hashed', 1, Upto(n)')
                 /\ n * BlockSize <= Len(hashed')
      <4>1. n * BlockSize <= Len(hashed) /\ Len(hashed') = Len(hashed) + Len(t) /\ Len(t) \in Nat
        BY <1>4, <1>8, <3>2, ConcatProperties, LenProperties DEF HasRead
      <4> DEFINE p == n * BlockSize
      <4>2. p \in Nat /\ p <= Len(hashed)
        BY <2>1, <4>1
      <4> HIDE DEF p
      <4>3. p \in 0 .. Len(hashed) /\ p <= Len(hashed')
        BY <1>4, <4>1, <4>2
      <4>4. SubSeq(hashed', 1, p) = SubSeq(hashed, 1, p)
        BY <1>4, <3>2, <4>3, PrefixOfConcat
      <4> QED
        BY <1>1, <1>8, <4>2, <4>3, <4>4 DEF HasRead, Upto, p
    <3> QED
      BY <1>6, <3>1, <3>2
  <2>3. \/ dpc' = "ready" /\ position' = 2 * n + 1
        \/ /\ dpc' = "payload" /\ position' = 2 * n + 2
           /\ header' = wire'[position'] /\ header'.kind = "block"
        \/ dpc' = "hash" /\ position' = 2 * n + 2 /\ wire'[position'] = EndCell
    BY <1>1, <1>4, <1>5, <1>8 DEF HasRead
  <2> QED
    BY <2>2, <2>3 DEF HasRead
<1>9. InStep'
  BY <1>1, <1>2, <1>3, <1>8 DEF InStep
<1> QED
  BY <1>7, <1>9

(* A torn cell is the last one, and is never read as a whole.              *)
LEMMA ReadableIsWhole ==
  ASSUME PInv, DecP!Readable
  PROVE  position + 1 \in 1 .. Len(wire) /\ ~EncP!Torn(position + 1)
<1>1. /\ position \in Nat /\ Len(wire) \in Nat /\ DecP!Arrived \in Nat
      /\ DecP!Arrived <= Len(wire) /\ position < DecP!Arrived /\ ~DecP!TornEnd
  BY HashedOK DEF DecP!Readable
<1>2. ASSUME EncP!Torn(position + 1) PROVE FALSE
  <2>1. position + 1 = DecP!Arrived /\ wire[position + 1] = EncP!TornCell
    BY <1>1, <1>2 DEF EncP!Torn
  <2> QED
    BY <1>1, <2>1 DEF EncP!TornCell, DecP!TornEnd
<1> QED
  BY <1>1, <1>2

(* Between blocks comes the next block, or the sentinel once everything    *)
(* was read; either is sound.                                              *)
LEMMA BetweenBlocks ==
  ASSUME BlocksVerified, LosslessInv, FramesSpared, NEW n \in Nat, HasRead(n), dpc = "ready", aligned,
         DecP!Readable
  PROVE  /\ position + 1 = 2 * n + 2 /\ DecP!Cell = wire[2 * n + 2]
         /\ \/ DecP!Cell.kind = "block" /\ DecP!Sound("block")
            \/ DecP!Cell = EndCell /\ DecP!Sound("eos") /\ ~DecP!Sound("block")
               /\ finishing /\ delivered = hashed
<1>1. PInv /\ EncP!WireInv /\ ChannelInv
  BY DEF LosslessInv, EncP!WInv, PInv
<1>2. /\ position \in Nat /\ position + 1 \in 1 .. Len(wire) /\ ~EncP!Torn(position + 1)
      /\ Len(wire) \in Nat /\ BlockSize \in Nat /\ Len(hashed) \in Nat /\ hashed \in Seq(Byte)
  BY <1>1, HashedOK, ReadableIsWhole
<1>3. position + 1 = 2 * n + 2 /\ 2 * (n + 1) = 2 * n + 2 /\ n + 1 - 1 = n
  BY DEF HasRead
<1>4. EncP!BlockOrEnd(n + 1)
  <2>1. n + 1 \in 1 .. Len(wire) /\ 2 * (n + 1) <= Len(wire)
    BY <1>2, <1>3
  <2> QED
    BY <1>1, <2>1 DEF EncP!WireInv
<1>5. DecP!Cell = wire[2 * n + 2]
  BY <1>3 DEF DecP!Cell
<1>6. ASSUME DecP!Cell.kind \in {"block", "eos"}
      PROVE  DecP!Sound(DecP!Cell.kind)
  <2>1. position + 1 \notin damaged
    BY <1>6 DEF FramesSpared, DecP!Cell
  <2> QED
    BY <2>1 DEF DecP!Sound, DecP!Cell
<1>7. CASE EncP!HeaderOf(wire[2 * (n + 1)], EncP!Slice(hashed, n + 1))
  <2>1. DecP!Cell.kind = "block"
    BY <1>3, <1>5, <1>7 DEF EncP!HeaderOf
  <2> QED
    BY <1>3, <1>5, <1>6, <2>1
<1>8. CASE wire[2 * (n + 1)] = EncP!EndCell /\ finishing /\ Len(hashed) <= (n + 1 - 1) * BlockSize
  <2>1. DecP!Cell = EndCell /\ DecP!Cell.kind = "eos"
    BY <1>3, <1>5, <1>8 DEF EncP!EndCell, EndCell
  <2>2. Upto(n) = Len(hashed)
    <3>1. n * BlockSize \in Nat /\ Len(hashed) <= n * BlockSize
      BY <1>2, <1>3, <1>8
    <3> QED
      BY <1>2, <3>1 DEF Upto
  <2>3. delivered = hashed
    BY <1>2, <2>2, SubSeqFull DEF HasRead
  <2>4. ~DecP!Sound("block")
    BY <2>1 DEF DecP!Sound, DecP!Cell
  <2> QED
    BY <1>3, <1>5, <1>6, <1>8, <2>1, <2>3, <2>4
<1> QED
  BY <1>2, <1>3, <1>4, <1>7, <1>8 DEF EncP!BlockOrEnd

(* Behind the header of a block: its checksum is that of the next block of *)
(* what is digested, so nothing else is delivered.                         *)
LEMMA InsideBlock ==
  ASSUME BlocksVerified, LosslessInv, FramesSpared, NEW n \in Nat, HasRead(n), dpc = "payload"
  PROVE  /\ header.crc = EncP!Slice(hashed, n + 1) /\ header.crc # Absent
         /\ n * BlockSize < Len(hashed)
         /\ (n + 1) * BlockSize <= Len(hashed) \/ finishing
         /\ DecP!Readable => position + 1 = 2 * n + 3 /\ DecP!Cell.kind = "payload"
<1>1. PInv /\ EncP!WireInv /\ ChannelInv
  BY DEF LosslessInv, EncP!WInv, PInv
<1>2. /\ position \in Nat /\ position <= Len(wire) /\ Len(wire) \in Nat
      /\ BlockSize \in Nat \ {0} /\ Len(hashed) \in Nat /\ hashed \in Seq(Byte)
  BY <1>1, HashedOK
<1>3. position = 2 * n + 2 /\ header = wire[position] /\ header.kind = "block"
  BY DEF HasRead
<1>4. position = 2 * (n + 1) /\ n + 1 - 1 = n /\ n + 1 \in 1 .. Len(wire)
  BY <1>2, <1>3
<1>5. EncP!BlockOrEnd(n + 1)
  BY <1>1, <1>2, <1>4 DEF EncP!WireInv
<1>6. wire[position].kind # "eos" /\ wire[position].kind # "torn"
  BY <1>3
<1>7. /\ EncP!HeaderOf(wire[2 * (n + 1)], EncP!Slice(hashed, n + 1))
      /\ (n + 1 - 1) * BlockSize < Len(hashed)
      /\ (n + 1) * BlockSize <= Len(hashed) \/ finishing
  BY <1>4, <1>5, <1>6 DEF EncP!BlockOrEnd, EncP!EndCell, EncP!Torn, EncP!TornCell
<1>8. header.crc = EncP!Slice(hashed, n + 1)
  BY <1>3, <1>4, <1>7 DEF EncP!HeaderOf, BlocksVerified
<1>9. EncP!Slice(hashed, n + 1) \in Seq(Byte)
  BY <1>1, <1>4, <1>7, NextBlock
<1>10. ASSUME DecP!Readable PROVE position + 1 = 2 * n + 3 /\ DecP!Cell.kind = "payload"
  <2>1. position + 1 \in 1 .. Len(wire) /\ ~EncP!Torn(position + 1)
    BY <1>1, <1>10, ReadableIsWhole
  <2>2. position + 1 = 2 * n + 3 /\ 2 * (n + 1) + 1 = position + 1
    BY <1>3, <1>4
  <2>3. EncP!PayloadOrHash(n + 1)
    BY <1>1, <1>2, <1>4, <2>1, <2>2 DEF EncP!WireInv
  <2>4. wire[position + 1] = EncP!PayloadCell(EncP!Slice(hashed, n + 1))
    BY <1>4, <1>6, <2>1, <2>2, <2>3 DEF EncP!PayloadOrHash, EncP!EndCell
  <2> QED
    BY <2>2, <2>4 DEF DecP!Cell, EncP!PayloadCell
<1> QED
  BY <1>2, <1>4, <1>7, <1>8, <1>9, <1>10, AbsentAssumption

(* Behind the sentinel everything was delivered.                           *)
LEMMA BehindEnd ==
  ASSUME BlocksVerified, LosslessInv, FramesSpared, NEW n \in Nat, HasRead(n), dpc = "hash"
  PROVE  finishing /\ delivered = hashed
<1>1. PInv /\ EncP!WireInv
  BY DEF LosslessInv, EncP!WInv
<1>2. /\ position \in Nat /\ position <= Len(wire) /\ Len(wire) \in Nat
      /\ BlockSize \in Nat \ {0} /\ Len(hashed) \in Nat /\ hashed \in Seq(Byte)
  BY <1>1, HashedOK
<1>3. position = 2 * (n + 1) /\ n + 1 - 1 = n /\ n + 1 \in 1 .. Len(wire) /\ wire[position] = EndCell
  BY <1>2 DEF HasRead
<1>4. EncP!BlockOrEnd(n + 1) /\ wire[position].kind = "eos"
  BY <1>1, <1>2, <1>3 DEF EncP!WireInv, EndCell
<1>5. finishing /\ Len(hashed) <= n * BlockSize
  BY <1>3, <1>4 DEF EncP!BlockOrEnd, EncP!HeaderOf, EncP!Torn, EncP!TornCell
<1>6. n * BlockSize \in Nat
  BY <1>2
<1>7. Upto(n) = Len(hashed)
  BY <1>2, <1>5, <1>6 DEF Upto
<1> QED
  BY <1>2, <1>5, <1>7, SubSeqFull DEF HasRead

(* The ways in which a call of the decoder ends the stream.                *)
LEMMA Fails ==
  ASSUME InStep, Outcome = "open", answer' \in Dec!Failures, dpc' \in {"ready", "dead"},
         UNCHANGED <<hashed, finishing, delivered, callAgain>>
  PROVE  InStep' /\ Lossless!Next
<1>1. Outcome' = "failed" /\ answer' # "end"
  BY DEF Outcome, Dec!Failures
<1> QED
  BY <1>1 DEF InStep, Lossless!Next, Lossless!Fail

LEMMA Completes ==
  ASSUME InStep, Outcome = "open", answer' = "end", dpc' = "ready", finishing, delivered = hashed,
         UNCHANGED <<hashed, finishing, delivered, callAgain>>
  PROVE  InStep' /\ Lossless!Next
<1>1. Outcome' = "complete"
  BY DEF Outcome
<1> QED
  BY <1>1 DEF InStep, Lossless!Next, Lossless!Complete

(* A step of the decoder delivers the next block as it was digested, or    *)
(* ends the stream, cleanly only behind its end, or is not seen.           *)
LEMMA DecoderImplements ==
  ASSUME BlocksVerified, LosslessInv, FramesSpared, DecP!Next, UNCHANGED <<channelVars, encoderVars>>
  PROVE  InStep' /\ [Lossless!Next]_Lossless!vars
<1>1. UNCHANGED <<hashed, finishing, wire>>
  BY DEF encoderVars
<1>2. PInv /\ InStep /\ DecP!IInv
  BY DEF LosslessInv, PInv
<1>3. callAgain = FALSE /\ callAgain' = callAgain
  BY <1>2 DEF InStep, DecP!Next, DecP!Open, DecP!EndAgain, DecP!HeaderEof, DecP!RejectHeader,
    DecP!ReadEndOfStream, DecP!ReadBlockHeader, DecP!PayloadEof, DecP!DecodeFails,
    DecP!ChecksumFails, DecP!DeliverBlock, DecP!HashEof, DecP!CompareStreamChecksum
<1>4. DecP!MayCall => dpc = "ready" /\ answer \in {"opened", "block"} /\ Outcome = "open"
  BY <1>3 DEF DecP!MayCall, Outcome, Dec!Failures
<1>5. CASE DecP!Open
  <2>1. /\ dpc = "open" /\ answer = "none" /\ position = 0 /\ delivered = <<>> /\ aligned
        /\ delivered' = delivered /\ aligned' = aligned /\ Outcome = "open"
    BY <1>2, <1>5 DEF DecP!Open, InStep, Outcome, Dec!Failures
  <2>2. CASE answer' = "opened" /\ dpc' = "ready" /\ position' = position + 1
    <3>1. Outcome' = "open"
      BY <2>2 DEF Outcome, Dec!Failures
    <3>2. HasRead(0)'
      <4>1. /\ 0 * BlockSize = 0 /\ 0 <= Len(hashed) /\ hashed \in Seq(Byte)
            /\ 2 * 0 + 1 = 1 /\ Len(hashed') = Len(hashed)
        BY <1>1, <1>2, HashedOK
      <4>2. Upto(0)' = 0
        BY <4>1 DEF Upto
      <4>3. SubSeq(hashed', 1, 0) = <<>>
        BY SubSeqEmpty
      <4> QED
        BY <2>1, <2>2, <4>1, <4>2, <4>3 DEF HasRead
    <3>3. InStep'
      BY <1>3, <2>1, <2>2, <3>1, <3>2 DEF InStep
    <3> QED
      BY <1>1, <2>1, <3>1, <3>3 DEF Lossless!vars
  <2>3. CASE answer' \in {"CorruptedHeader", "Io"} /\ dpc' = "dead"
    BY <1>1, <1>2, <1>3, <2>1, <2>3, Fails DEF Dec!Failures
  <2> QED
    BY <1>5, <2>2, <2>3 DEF DecP!Open
<1>6. CASE DecP!EndAgain
  BY <1>2, <1>4, <1>6 DEF DecP!EndAgain, DecP!IInv
<1>7. CASE DecP!HeaderEof \/ DecP!RejectHeader
  <2>1. /\ Outcome = "open" /\ dpc' = "ready" /\ delivered' = delivered
        /\ answer' \in {"UnexpectedEof", "Io", "CorruptedHeader"}
    BY <1>4, <1>7 DEF DecP!HeaderEof, DecP!RejectHeader, DecP!Expecting, DecP!Answer, DecP!EofAnswer
  <2> QED
    BY <1>1, <1>2, <1>3, <2>1, Fails DEF Dec!Failures
<1>8. ASSUME dpc \in {"ready", "payload", "hash"}, Outcome = "open"
      PROVE  aligned /\ answer \in {"opened", "block"} /\ \E n \in Nat : HasRead(n)
  BY <1>2, <1>8 DEF InStep
<1>9. dpc \in {"payload", "hash"} => Outcome = "open"
  BY <1>2 DEF InStep
<1>10. CASE DecP!ReadEndOfStream
  <2>1. /\ dpc = "ready" /\ Outcome = "open" /\ DecP!Readable /\ ~DecP!Sound("block")
        /\ delivered' = delivered /\ position' = position + 1
        /\ aligned' = DecP!Sound("eos")
    BY <1>4, <1>10 DEF DecP!ReadEndOfStream, DecP!Expecting
  <2>2. PICK n \in Nat : HasRead(n)
    BY <1>8, <2>1
  <2>3. /\ position + 1 = 2 * n + 2 /\ wire[2 * n + 2] = EndCell /\ DecP!Sound("eos")
        /\ finishing /\ delivered = hashed
    BY <1>8, <2>1, <2>2, BetweenBlocks
  <2>4. CASE dpc' = "hash" /\ answer' = answer
    <3>1. HasRead(n)'
      BY <1>1, <2>1, <2>2, <2>3, <2>4 DEF HasRead, Upto
    <3>2. Outcome' = "open" /\ answer' \in {"opened", "block"}
      BY <1>8, <2>1, <2>4 DEF Outcome, Dec!Failures
    <3>3. InStep'
      BY <1>3, <2>1, <2>3, <2>4, <3>1, <3>2 DEF InStep
    <3> QED
      BY <1>1, <2>1, <3>2, <3>3 DEF Lossless!vars
  <2>5. CASE DecP!Answer("end")
    BY <1>1, <1>2, <1>3, <2>1, <2>3, <2>5, Completes DEF DecP!Answer
  <2> QED
    BY <1>10, <2>4, <2>5 DEF DecP!ReadEndOfStream
<1>11. CASE DecP!ReadBlockHeader
  <2>1. /\ dpc = "ready" /\ Outcome = "open" /\ DecP!Readable /\ ~DecP!Sound("eos")
        /\ delivered' = delivered /\ position' = position + 1
    BY <1>4, <1>11 DEF DecP!ReadBlockHeader, DecP!Expecting
  <2>2. PICK n \in Nat : HasRead(n)
    BY <1>8, <2>1
  <2>3. /\ position + 1 = 2 * n + 2 /\ DecP!Cell = wire[2 * n + 2]
        /\ DecP!Cell.kind = "block" /\ DecP!Sound("block")
    BY <1>8, <2>1, <2>2, BetweenBlocks
  <2>4. CASE DecP!Answer("DecompressionBombDetected")
    BY <1>1, <1>2, <1>3, <2>1, <2>4, Fails DEF DecP!Answer, Dec!Failures
  <2>5. CASE dpc' = "payload" /\ header' = DecP!Cell /\ answer' = answer
    <3>1. HasRead(n)'
      BY <1>1, <2>1, <2>2, <2>3, <2>5 DEF HasRead, Upto
    <3>2. Outcome' = "open" /\ answer' \in {"opened", "block"} /\ aligned'
      BY <1>8, <1>11, <2>1, <2>3, <2>5 DEF Outcome, Dec!Failures, DecP!ReadBlockHeader
    <3>3. InStep'
      BY <1>3, <2>5, <3>1, <3>2 DEF InStep
    <3> QED
      BY <1>1, <2>1, <3>2, <3>3 DEF Lossless!vars
  <2> QED
    BY <1>11, <2>3, <2>4, <2>5 DEF DecP!ReadBlockHeader
<1>12. CASE DecP!PayloadEof \/ DecP!HashEof \/ DecP!DecodeFails \/ DecP!ChecksumFails
  <2>1. /\ Outcome = "open" /\ dpc' = "ready" /\ delivered' = delivered
        /\ answer' \in {"UnexpectedEof", "Codec", "BlockChecksumMismatch"}
    BY <1>9, <1>12 DEF DecP!PayloadEof, DecP!HashEof, DecP!DecodeFails, DecP!ChecksumFails, DecP!Answer
  <2> QED
    BY <1>1, <1>2, <1>3, <2>1, Fails DEF Dec!Failures
<1>13. CASE DecP!DeliverBlock
  <2>1. /\ dpc = "payload" /\ Outcome = "open" /\ DecP!Readable /\ DecP!Consume
        /\ dpc' = "ready" /\ answer' = "block"
    BY <1>9, <1>13 DEF DecP!DeliverBlock, DecP!Answer
  <2>2. PICK n \in Nat : HasRead(n)
    BY <1>8, <2>1
  <2>3. /\ header.crc = EncP!Slice(hashed, n + 1) /\ header.crc # Absent
        /\ n * BlockSize < Len(hashed)
        /\ (n + 1) * BlockSize <= Len(hashed) \/ finishing
        /\ position + 1 = 2 * n + 3 /\ DecP!Cell.kind = "payload"
    BY <2>1, <2>2, InsideBlock
  <2>4. PICK block : DecP!ChecksumHolds(block) /\ delivered' = delivered \o block
    BY <1>13 DEF DecP!DeliverBlock
  <2>5. block = EncP!Slice(hashed, n + 1)
    BY <2>3, <2>4 DEF DecP!ChecksumHolds, BlocksVerified
  <2>6. /\ delivered = SubSeq(hashed, 1, Upto(n))
        /\ delivered' = SubSeq(hashed, 1, Upto(n + 1))
        /\ Upto(n + 1) \in Upto(n) .. Len(hashed)
    <3>1. /\ Upto(n + 1) \in Upto(n) .. Len(hashed)
          /\ SubSeq(hashed, 1, Upto(n)) \o EncP!Slice(hashed, n + 1)
               = SubSeq(hashed, 1, Upto(n + 1))
      BY <1>2, <2>2, <2>3, NextBlock
    <3>2. delivered = SubSeq(hashed, 1, Upto(n))
      BY <2>2 DEF HasRead
    <3> QED
      BY <2>4, <2>5, <3>1, <3>2
  <2>7. HasRead(n + 1)'
    <3>1. position' = position + 1
      BY <1>8, <2>1 DEF DecP!Consume
    <3>2. position' = 2 * (n + 1) + 1
      BY <2>3, <3>1
    <3>3. Upto(n + 1)' = Upto(n + 1)
      BY <1>1 DEF Upto
    <3> QED
      BY <1>1, <2>1, <2>3, <2>6, <3>2, <3>3 DEF HasRead
  <2>8. Outcome' = "open" /\ aligned'
    BY <1>8, <2>1, <2>3 DEF Outcome, Dec!Failures, DecP!Consume
  <2>9. InStep'
    BY <1>3, <2>1, <2>7, <2>8 DEF InStep
  <2>10. Lossless!IsPrefix(delivered, delivered') /\ Lossless!IsPrefix(delivered', hashed)
    <3>1. Upto(n) \in 0 .. Upto(n + 1) /\ Upto(n + 1) \in 0 .. Len(hashed)
      BY <1>2, <2>6, HashedOK, UptoOK
    <3> QED
      BY <1>2, <2>6, <3>1, Prefixes
  <2> QED
    BY <1>1, <2>1, <2>8, <2>9, <2>10 DEF Lossless!Next, Lossless!Receive
<1>14. CASE DecP!CompareStreamChecksum
  <2>1. /\ dpc = "hash" /\ Outcome = "open" /\ dpc' = "ready" /\ delivered' = delivered
        /\ answer' = "end" \/ answer' = "StreamChecksumMismatch"
    BY <1>9, <1>14 DEF DecP!CompareStreamChecksum, DecP!Answer
  <2>2. PICK n \in Nat : HasRead(n)
    BY <1>8, <2>1
  <2>3. finishing /\ delivered = hashed
    BY <2>1, <2>2, BehindEnd
  <2>4. CASE answer' = "end"
    BY <1>1, <1>2, <1>3, <2>1, <2>3, <2>4, Completes
  <2>5. CASE answer' = "StreamChecksumMismatch"
    BY <1>1, <1>2, <1>3, <2>1, <2>5, Fails DEF Dec!Failures
  <2> QED
    BY <2>1, <2>4, <2>5
<1> QED
  BY <1>5, <1>6, <1>7, <1>10, <1>11, <1>12, <1>13, <1>14 DEF DecP!Next

LEMMA InitInStep == Callers \subseteq {FALSE} /\ Init => InStep /\ Lossless!Init
<1> SUFFICES ASSUME Callers \subseteq {FALSE}, Init PROVE InStep /\ Lossless!Init
  OBVIOUS
<1>1. EncP!Init /\ DecP!Init
  BY SameEncoder, SameDecoder DEF Init
<1>2. Outcome = "open"
  BY <1>1 DEF DecP!Init, Outcome, Dec!Failures
<1> QED
  BY <1>1, <1>2 DEF EncP!Init, DecP!Init, InStep, Lossless!Init

(* What spares frames after a step has spared them before: cells that are  *)
(* on the wire stay as they are, and damage is never undone.               *)
LEMMA SparedBefore ==
  ASSUME PInv, [Next]_vars, FramesSpared'
  PROVE  FramesSpared
<1>1. EncP!CInv /\ ChannelInv
  BY DEF PInv
<1>2. \A i \in damaged : i \in 1 .. Len(wire)
  BY <1>1 DEF ChannelInv
<1>3. damaged \subseteq damaged' /\ \A i \in 1 .. Len(wire) : wire'[i] = wire[i]
  <2>1. CASE EncP!Next /\ UNCHANGED <<channelVars, decoderVars>>
    BY <1>1, <2>1, EncP!WireGrows, EncoderAssumptions DEF channelVars
  <2>2. CASE UNCHANGED <<damaged, wire>>
    BY <2>2
  <2>3. CASE Damage
    BY <2>3 DEF Damage, encoderVars
  <2> QED
    BY <2>1, <2>2, <2>3, Steps DEF Cut, channelVars, encoderVars, vars
<1> QED
  BY <1>2, <1>3 DEF FramesSpared

(* The pipe implements the lossless stream, for every input, block size    *)
(* and level, with a stream checksum or without: if the blocks carry       *)
(* checksums and they are verified, and block headers and sentinels get    *)
(* through as they were or not at all, then damage to payloads, stream     *)
(* headers and stream checksums, a cut anywhere, and errors of the writer  *)
(* never put a wrong byte into the output and never end it cleanly before  *)
(* its end.                                                                *)
THEOREM PipeImplementsLossless == BlocksVerified /\ Spec => ImplementsLossless
<1> SUFFICES ASSUME BlocksVerified PROVE Spec => ImplementsLossless
  OBVIOUS
<1>1. Init => LosslessInv /\ Lossless!Init
  BY InitPInv, InitInStep, SameEncoder, EncP!InitWInv, EncoderAssumptions
  DEF LosslessInv, BlocksVerified, Init
<1>2. LosslessInv /\ [Next]_vars
        => LosslessInv' /\ [FramesSpared => Lossless!Next]_Lossless!vars
  <2> SUFFICES ASSUME LosslessInv, [Next]_vars
               PROVE  LosslessInv' /\ [FramesSpared => Lossless!Next]_Lossless!vars
    OBVIOUS
  <2>1. PInv /\ PInv' /\ [EncP!Next]_EncP!vars
    BY NextPInv DEF LosslessInv
  <2>2. EncP!WInv'
    BY <2>1, EncP!NextWInv, EncoderAssumptions DEF LosslessInv, BlocksVerified
  <2>3. ASSUME FramesSpared PROVE InStep' /\ [Lossless!Next]_Lossless!vars
    <3>1. CASE EncP!Next /\ UNCHANGED <<channelVars, decoderVars>>
      BY <2>3, <3>1, EncoderImplements
    <3>2. CASE DecP!Next /\ UNCHANGED <<channelVars, encoderVars>>
      BY <2>3, <3>2, DecoderImplements
    <3>3. CASE UNCHANGED <<encoderVars, decoderVars>>
      <4>1. UNCHANGED <<dpc, position, aligned, header, delivered, answer, callAgain,
                        hashed, finishing, wire>>
        BY <3>3 DEF encoderVars, decoderVars
      <4>2. UNCHANGED Outcome
        BY <4>1 DEF Outcome, Dec!Failures
      <4>3. InStep' = InStep
        BY <4>1, <4>2 DEF InStep, HasRead, Upto
      <4> QED
        BY <2>3, <4>1, <4>2, <4>3 DEF LosslessInv, Lossless!vars
    <3> QED
      BY <3>1, <3>2, <3>3, Steps DEF Cut, Damage, vars
  <2>4. FramesSpared' => FramesSpared
    BY <2>1, SparedBefore
  <2> QED
    BY <2>1, <2>2, <2>3, <2>4 DEF LosslessInv
<1> QED
  BY <1>1, <1>2, PTL DEF Spec, ImplementsLossless
=============================================================================
