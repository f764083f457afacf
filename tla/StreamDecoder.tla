---------------------------- MODULE StreamDecoder ----------------------------
(***************************************************************************)
(* Decoder<R> of libcodrop/src/streaming/decoder.rs, reading a wire that   *)
(* its environment owns: another party writes it, it may be cut short, and *)
(* cells of it may be damaged. One action is one read of a cell with all   *)
(* that decode_next_block does until its next read or its return.          *)
(*                                                                         *)
(* Bytes that are not what the decoder takes them for (a damaged cell, a   *)
(* cell of another kind, whatever follows a misread size) parse as         *)
(* anything the parser can accept. Checksums are ideal: garbage never      *)
(* matches one. A misread block spans at least one cell and declares at    *)
(* most MaxMisread bytes.                                                  *)
(***************************************************************************)
EXTENDS Container

CONSTANTS
  MaxOutputBytes,        \* DecoderOptions::max_output_bytes, or Absent
  VerifyBlocks,          \* DecoderOptions::verify_block_checksums
  VerifyStream,          \* DecoderOptions::verify_stream_checksum
  Callers,               \* the callers there may be, as values of callAgain
  Garbage,               \* a byte that no source ever held
  MaxMisread             \* bound: the size a misread block header declares

ASSUME DecoderOptionsAssumption ==
  /\ MaxOutputBytes \in Nat \cup {Absent}
  /\ VerifyBlocks \in BOOLEAN
  /\ VerifyStream \in BOOLEAN
  /\ Callers \subseteq BOOLEAN
  /\ MaxMisread \in Nat
ASSUME GarbageAssumption == Garbage \notin Byte

(* The bytes that a caller can receive, and the block headers read.        *)
Received == Byte \cup {Garbage}

MisreadHeaders ==
  [kind : {"block"}, type : BlockTypes, last : BOOLEAN,
   csize : Nat, usize : Nat, crc : Seq(Received) \cup {Absent}]

ASSUME NoHeaderAssumption == Absent \notin MisreadHeaders

VARIABLES
  wire,            \* the cells written so far
  cut,             \* how many cells of the wire get through, or Absent
  damaged,         \* the cells that do not get through as they were
  sourceClosed     \* nothing more will be written

VARIABLES
  dpc,             \* what the decoder reads next
  position,        \* how many cells the decoder has consumed
  aligned,         \* the next byte is the first of a cell
  hasStreamChecksum, \* self.header.flags.has_stream_checksum
  streamHasher,    \* what self.stream_hasher has digested
  total,           \* self.total_decompressed
  streamFinished,  \* self.stream_finished
  header,          \* the block header of the call that is running, or Absent
  delivered,       \* what the caller has received
  answer,          \* of the last call
  callAgain        \* whether the caller goes on after Ok(None) or an Err

source == <<wire, cut, damaged, sourceClosed>>
vars == <<dpc, position, aligned, hasStreamChecksum, streamHasher, total,
          streamFinished, header, delivered, answer, callAgain>>

Failures ==
  {"Io", "UnexpectedEof", "CorruptedHeader", "Codec", "BlockChecksumMismatch",
   "StreamChecksumMismatch", "DecompressionBombDetected"}

(* "opened" answers Decoder::new, "block" Ok(Some(_)), "end" Ok(None).     *)
Answers == {"none", "opened", "block", "end"} \cup Failures

Init ==
  /\ dpc = "open"
  /\ position = 0
  /\ aligned = TRUE
  /\ hasStreamChecksum = FALSE
  /\ streamHasher = <<>>
  /\ total = 0
  /\ streamFinished = FALSE
  /\ header = Absent
  /\ delivered = <<>>
  /\ answer = "none"
  /\ callAgain \in Callers

-----------------------------------------------------------------------------
(* What R::read_exact sees.                                                *)
Arrived == IF cut = Absent THEN Len(wire) ELSE cut

(* The wire ends inside the next cell: its writer failed half way.         *)
TornEnd == position + 1 = Arrived /\ wire[Arrived].kind = "torn"

Readable == position < Arrived /\ ~TornEnd

AtEof ==
  /\ position = Arrived \/ TornEnd
  /\ cut # Absent \/ sourceClosed

(* The next cell is a whole, undamaged one of the kind the decoder reads.  *)
Sound(kind) ==
  /\ Readable
  /\ aligned
  /\ position + 1 \notin damaged
  /\ wire[position + 1].kind = kind

Cell == wire[position + 1]

Blank(n) == [i \in 1 .. n |-> Garbage]

(* The block headers that unsound bytes can parse to: any size, with a     *)
(* checksum that matches nothing or with none. A damaged header may also   *)
(* keep its fields (the last-block flag says nothing to the decoder).      *)
Misread ==
  UNION {{BlockCell("Raw", FALSE, 0, n, c) : c \in {Absent, Blank(n + 1)}} :
           n \in 0 .. MaxMisread}

(* Mutant of Answer: the header of a block outlives its call.              *)
AnswerKeepingHeader(a) == dpc' = "ready" /\ answer' = a /\ UNCHANGED header

Answer(a) == dpc' = "ready" /\ answer' = a /\ header' = Absent

(* The caller loops as decompress_to does: it stops at Ok(None) and, with  *)
(* `?`, at the first Err, unless it is one that calls again.               *)
MayCall == dpc = "ready" /\ (answer \in {"opened", "block"} \/ callAgain)

(* Mutant of Expecting: stream_finished is not looked at.                  *)
ExpectingAlways == MayCall

(* The call that is made goes on to read a block header.                   *)
Expecting == MayCall /\ ~streamFinished

-----------------------------------------------------------------------------
(* Decoder::new. The magic and the CRC-8 reject what is not a header; EOF  *)
(* in it is an io::Error like any other.                                   *)
Open ==
  /\ dpc = "open"
  /\ \/ /\ Sound("header")
        /\ hasStreamChecksum' = Cell.hasStreamChecksum
        /\ position' = position + 1
        /\ dpc' = "ready"
        /\ answer' = "opened"
     \/ /\ Readable /\ ~Sound("header")
        /\ dpc' = "dead"
        /\ answer' = "CorruptedHeader"
        /\ UNCHANGED <<hasStreamChecksum, position>>
     \/ /\ AtEof
        /\ dpc' = "dead"
        /\ answer' = "Io"
        /\ UNCHANGED <<hasStreamChecksum, position>>
  /\ UNCHANGED <<aligned, streamHasher, total, streamFinished, header, delivered, callAgain>>

(* A call on a finished stream reads nothing.                              *)
EndAgain ==
  /\ MayCall
  /\ streamFinished
  /\ Answer("end")
  /\ UNCHANGED <<position, aligned, hasStreamChecksum, streamHasher, total,
                 streamFinished, delivered, callAgain>>

(* Mutants of EofAnswer: an end without sentinel is a clean one; it is an  *)
(* empty block.                                                            *)
EofIsEnd == "end"
EofIsBlock == "block"

EofAnswer == "UnexpectedEof"

(* EOF before the first byte of a block header is UnexpectedEof; inside    *)
(* the header it is the io::Error that the `?` of the later reads yields.  *)
HeaderEof ==
  /\ Expecting
  /\ AtEof
  /\ \/ ~TornEnd /\ Answer(EofAnswer)
     \/ (TornEnd \/ cut # Absent \/ ~aligned) /\ Answer("Io")
  /\ UNCHANGED <<position, aligned, hasStreamChecksum, streamHasher, total,
                 streamFinished, delivered, callAgain>>

(* Reserved bits, an over-long ULEB128: the reader stops inside the cell.  *)
RejectHeader ==
  /\ Expecting
  /\ Readable /\ ~Sound("block") /\ ~Sound("eos")
  /\ Answer("CorruptedHeader")
  /\ aligned' = FALSE
  /\ UNCHANGED <<position, hasStreamChecksum, streamHasher, total,
                 streamFinished, delivered, callAgain>>

(* The END_OF_STREAM type. stream_finished is set before the checksum is   *)
(* read and compared.                                                      *)
ReadEndOfStream ==
  /\ Expecting
  /\ Readable
  /\ ~Sound("block")
  /\ streamFinished' = TRUE
  /\ position' = position + 1
  /\ aligned' = Sound("eos")
  /\ IF hasStreamChecksum /\ VerifyStream
       THEN dpc' = "hash" /\ UNCHANGED <<answer, header>>
       ELSE Answer("end")
  /\ UNCHANGED <<hasStreamChecksum, streamHasher, total, delivered, callAgain>>

(* Mutant of OverLimit: every block has the limit to itself.               *)
BlockOverLimit(h) == MaxOutputBytes # Absent /\ h.usize > MaxOutputBytes

OverLimit(h) == MaxOutputBytes # Absent /\ total + h.usize > MaxOutputBytes

(* A data block's header: the bomb check comes before the payload is read, *)
(* against the size the header declares.                                   *)
ReadBlockHeader ==
  /\ Expecting
  /\ Readable
  /\ ~Sound("eos")
  /\ position' = position + 1
  /\ \E h \in IF Sound("block") THEN {Cell}
              ELSE Misread \cup (IF aligned /\ Cell.kind = "block" THEN {Cell} ELSE {}) :
       /\ IF OverLimit(h)
            THEN Answer("DecompressionBombDetected")
            ELSE dpc' = "payload" /\ header' = h /\ UNCHANGED answer
       /\ aligned' = (Sound("block") \/ (aligned /\ h = Cell))
  /\ UNCHANGED <<hasStreamChecksum, streamHasher, total, streamFinished, delivered, callAgain>>

PayloadEof ==
  /\ dpc = "payload"
  /\ AtEof
  /\ Answer("UnexpectedEof")
  /\ UNCHANGED <<position, aligned, hasStreamChecksum, streamHasher, total,
                 streamFinished, delivered, callAgain>>

(* What the payload can decode to: its data, when it is sound and of the   *)
(* declared size; otherwise a codec error, or garbage of that size. Every  *)
(* codec checks the length of its own output.                              *)
Decodings ==
  IF Sound("payload")
    THEN IF Len(Cell.data) = header.usize THEN {Cell.data} ELSE {}
    ELSE {Blank(header.usize)}

(* After a misread size, the reader may be anywhere further on.            *)
Consume ==
  IF aligned
    THEN position' = position + 1 /\ aligned' = (Cell.kind = "payload")
    ELSE /\ position' \in position + 1 .. Arrived
         /\ aligned' \in BOOLEAN

(* The codec or, for the reserved type, the match on the type refuses.     *)
DecodeFails ==
  /\ dpc = "payload"
  /\ Readable
  /\ ~Sound("payload") \/ Decodings = {}
  /\ Consume
  /\ Answer("Codec")
  /\ UNCHANGED <<hasStreamChecksum, streamHasher, total, streamFinished, delivered, callAgain>>

(* Mutant of ChecksumHolds: only the last block of a stream is verified.   *)
LastChecksumHolds(block) ==
  VerifyBlocks /\ header.crc # Absent /\ header.last => header.crc = block

ChecksumHolds(block) == VerifyBlocks /\ header.crc # Absent => header.crc = block

ChecksumFails ==
  /\ dpc = "payload"
  /\ Readable
  /\ Consume
  /\ \E block \in Decodings : ~ChecksumHolds(block)
  /\ Answer("BlockChecksumMismatch")
  /\ UNCHANGED <<hasStreamChecksum, streamHasher, total, streamFinished, delivered, callAgain>>

DeliverBlock ==
  /\ dpc = "payload"
  /\ Readable
  /\ Consume
  /\ \E block \in Decodings :
       /\ ChecksumHolds(block)
       /\ streamHasher' = streamHasher \o block
       /\ delivered' = delivered \o block
  /\ total' = total + header.usize
  /\ Answer("block")
  /\ UNCHANGED <<hasStreamChecksum, streamFinished, callAgain>>

HashEof ==
  /\ dpc = "hash"
  /\ AtEof
  /\ Answer("UnexpectedEof")
  /\ UNCHANGED <<position, aligned, hasStreamChecksum, streamHasher, total,
                 streamFinished, delivered, callAgain>>

(* Mutant of DigestMatches: checksums of equally long data are equal.      *)
DigestLengthMatches == Sound("hash") /\ Len(Cell.digest) = Len(streamHasher)

DigestMatches == Sound("hash") /\ Cell.digest = streamHasher

CompareStreamChecksum ==
  /\ dpc = "hash"
  /\ Readable
  /\ position' = position + 1
  /\ Answer(IF DigestMatches THEN "end" ELSE "StreamChecksumMismatch")
  /\ UNCHANGED <<aligned, hasStreamChecksum, streamHasher, total,
                 streamFinished, delivered, callAgain>>

Next ==
  \/ Open \/ EndAgain \/ HeaderEof \/ RejectHeader \/ ReadEndOfStream
  \/ ReadBlockHeader \/ PayloadEof \/ DecodeFails \/ ChecksumFails
  \/ DeliverBlock \/ HashEof \/ CompareStreamChecksum

(* Decoder::new failed, or the caller's loop has ended.                    *)
Stopped == dpc = "dead" \/ (dpc = "ready" /\ ~MayCall)

(* The environment may change the wire in any step.                        *)
Spec == Init /\ [][Next]_vars

-----------------------------------------------------------------------------
(* Types: every variable of the decoder keeps its type, and there is a     *)
(* header exactly while its block is being read.                           *)
TypeOK ==
  /\ dpc \in {"open", "ready", "payload", "hash", "dead"}
  /\ position \in Nat
  /\ aligned \in BOOLEAN
  /\ hasStreamChecksum \in BOOLEAN
  /\ streamHasher \in Seq(Received)
  /\ total \in Nat
  /\ streamFinished \in BOOLEAN
  /\ header \in MisreadHeaders \cup {Absent}
  /\ header = Absent <=> dpc # "payload"
  /\ delivered \in Seq(Received)
  /\ answer \in Answers
  /\ callAgain \in BOOLEAN

(* max_output_bytes bounds what the caller receives over all blocks, not   *)
(* one block, whatever sizes the headers declare: total_decompressed, which *)
(* sums declared sizes, is exactly the number of bytes delivered, and a    *)
(* payload is read only if its block still fits (CODROP_SPEC 10.4).        *)
BombGuard ==
  /\ total = Len(delivered)
  /\ MaxOutputBytes # Absent =>
       /\ Len(delivered) <= MaxOutputBytes
       /\ dpc = "payload" => Len(delivered) + header.usize <= MaxOutputBytes

(* The stream was completed: the sentinel was read and, where there is a  *)
(* stream checksum to verify, a sound one was read and is that of all the  *)
(* caller has received.                                                    *)
Completed ==
  /\ streamFinished
  /\ hasStreamChecksum /\ VerifyStream =>
       /\ wire[position].kind = "hash"
       /\ position \notin damaged
       /\ wire[position].digest = delivered

(* decompress_to returns Ok only on a completed stream: no sequence of     *)
(* short, oversized or missing cells makes the loop end without one.       *)
EndIsVerified == answer = "end" /\ ~callAgain => Completed

(* Once the sentinel has been seen nothing more is delivered, whatever     *)
(* follows it on the wire and however often the caller calls again.        *)
NothingAfterEnd == [][streamFinished => UNCHANGED delivered]_vars

(* The loop of a caller that stops at the first Ok(None) or Err ends on    *)
(* every wire, well-formed or not, once its writer is gone.                *)
Terminates == sourceClosed /\ ~callAgain ~> Stopped
=============================================================================
