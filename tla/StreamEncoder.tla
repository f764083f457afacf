---------------------------- MODULE StreamEncoder ----------------------------
(***************************************************************************)
(* Encoder<W> of libcodrop/src/streaming/encoder.rs: write_chunk cuts the  *)
(* caller's data into blocks of BlockSize bytes and writes each one as a   *)
(* header and a payload; finish flushes the rest and writes the sentinel   *)
(* and the stream checksum. Every write to W may fail, half done or not.   *)
(*                                                                         *)
(* One action is one unit of work between two writes, so that the wire is  *)
(* seen by its reader at every point a real one could see it. The caller   *)
(* hands over Input slice by slice, in slices of any length.               *)
(***************************************************************************)
EXTENDS Container, BlockChoice

CONSTANTS
  Input,            \* everything the caller means to compress
  BlockSize,        \* EncoderOptions::block_size
  BlockChecksum,    \* EncoderOptions::include_block_checksum
  StreamChecksum,   \* EncoderOptions::include_stream_checksum
  LevelChoices,     \* the levels a behaviour may be started with
  CandidateSizes,   \* the sizes the codecs may reach on a block
  MaxWriteErrors,   \* bound: how often W may fail
  RetryAfterError   \* whether the caller goes on after write_chunk failed

ASSUME InputAssumption == Input \in Seq(Byte)
ASSUME BlockSizeAssumption == BlockSize \in Nat \ {0}
ASSUME OptionsAssumption ==
  /\ BlockChecksum \in BOOLEAN
  /\ StreamChecksum \in BOOLEAN
  /\ RetryAfterError \in BOOLEAN
  /\ LevelChoices \subseteq Levels
  /\ MaxWriteErrors \in Nat
ASSUME SizesAssumption == CandidateSizes \subseteq [Candidates -> Nat]

VARIABLES
  level,          \* options.level
  pc,             \* where the running call is; "idle" between calls
  finishing,      \* the running call is finish, not write_chunk
  given,          \* how much of Input the caller has handed over
  data,           \* what write_chunk has not yet copied of its argument
  buffer,         \* self.buffer
  hashed,         \* what self.stream_hasher has digested
  headerWritten,  \* self.header_written
  pending,        \* the header of the block flush_block is writing, or Absent
  result,         \* of the last call: "none", "ok" or "err"
  errors,         \* how often W has failed
  wire            \* what W has received

vars == <<level, pc, finishing, given, data, buffer, hashed, headerWritten,
          pending, result, errors, wire>>

Phases == {"idle", "header", "fill", "flush", "blockHeader", "payload",
           "tail", "eos", "hash", "sync", "closed", "dropped"}

(* The phases in which the next step is a call of W's write_all or flush.  *)
Writing == {"header", "blockHeader", "payload", "eos", "hash", "sync"}

Init ==
  /\ level \in LevelChoices
  /\ pc = "idle"
  /\ finishing = FALSE
  /\ given = 0
  /\ data = <<>>
  /\ buffer = <<>>
  /\ hashed = <<>>
  /\ headerWritten = FALSE
  /\ pending = Absent
  /\ result = "none"
  /\ errors = 0
  /\ wire = <<>>

-----------------------------------------------------------------------------
(* A caller that saw write_chunk fail normally gives the encoder up.       *)
MayCall == pc = "idle" /\ (result # "err" \/ RetryAfterError)

(* write_chunk with the next n bytes of Input. With the header already     *)
(* written, ensure_header_written does nothing and the hasher takes the    *)
(* whole slice before any of it is copied. The test of self.finished never *)
(* succeeds: only finish sets it, and finish consumes the encoder.         *)
WriteChunk(n) ==
  LET chunk == SubSeq(Input, given + 1, given + n) IN
  /\ MayCall
  /\ finishing' = FALSE
  /\ given' = given + n
  /\ data' = chunk
  /\ IF headerWritten
       THEN pc' = "fill" /\ hashed' = hashed \o chunk
       ELSE pc' = "header" /\ UNCHANGED hashed
  /\ UNCHANGED <<level, buffer, headerWritten, pending, result, errors, wire>>

(* finish consumes the encoder: it can be called once, and not retried.    *)
Finish ==
  /\ MayCall
  /\ finishing' = TRUE
  /\ pc' = IF headerWritten THEN "tail" ELSE "header"
  /\ UNCHANGED <<level, given, data, buffer, hashed, headerWritten, pending,
                 result, errors, wire>>

(* The caller drops the encoder unfinished; it has no Drop of its own.     *)
Abandon ==
  /\ pc = "idle"
  /\ pc' = "dropped"
  /\ UNCHANGED <<level, finishing, given, data, buffer, hashed, headerWritten,
                 pending, result, errors, wire>>

WriteHeader ==
  /\ pc = "header"
  /\ wire' = Append(wire, HeaderCell(StreamChecksum))
  /\ headerWritten' = TRUE
  /\ hashed' = hashed \o data
  /\ pc' = IF finishing THEN "tail" ELSE "fill"
  /\ UNCHANGED <<level, finishing, given, data, buffer, pending, result, errors>>

(* Mutants of Copied: the room in the buffer is not looked at; one byte of *)
(* it is never used.                                                       *)
CopiedUncapped == Len(data)
CopiedShort ==
  IF Len(data) < BlockSize - Len(buffer) THEN Len(data) ELSE BlockSize - Len(buffer) - 1

(* What the buffer has room for of the data.                               *)
Copied ==
  IF Len(data) < BlockSize - Len(buffer) THEN Len(data) ELSE BlockSize - Len(buffer)

(* Mutant of Uncopied: the cursor runs one byte ahead.                     *)
UncopiedAhead == SubSeq(data, Copied + 2, Len(data))

Uncopied == SubSeq(data, Copied + 1, Len(data))

(* One turn of write_chunk's loop.                                         *)
Fill ==
  /\ pc = "fill"
  /\ data # <<>>
  /\ buffer' = buffer \o SubSeq(data, 1, Copied)
  /\ data' = Uncopied
  /\ pc' = IF Len(buffer) + Copied = BlockSize THEN "flush" ELSE "fill"
  /\ UNCHANGED <<level, finishing, given, hashed, headerWritten, pending,
                 result, errors, wire>>

ChunkDone ==
  /\ pc = "fill"
  /\ data = <<>>
  /\ pc' = "idle"
  /\ result' = "ok"
  /\ UNCHANGED <<level, finishing, given, data, buffer, hashed, headerWritten,
                 pending, errors, wire>>

(* flush_block up to its first write: encode the candidates, choose, and   *)
(* compute the checksum. finish flushes a buffer it found non-empty, so    *)
(* the early return on an empty buffer is never taken.                     *)
FlushBlock ==
  /\ pc = "flush"
  /\ \E size \in CandidateSizes :
       LET c == Choice(level, Len(buffer), size) IN
       pending' = BlockCell(IF c = "Raw" THEN c ELSE TypeOf(c), finishing,
                            SizeOf(c, Len(buffer), size), Len(buffer),
                            IF BlockChecksum THEN buffer ELSE Absent)
  /\ pc' = "blockHeader"
  /\ UNCHANGED <<level, finishing, given, data, buffer, hashed, headerWritten,
                 result, errors, wire>>

WriteBlockHeader ==
  /\ pc = "blockHeader"
  /\ wire' = Append(wire, pending)
  /\ pc' = "payload"
  /\ UNCHANGED <<level, finishing, given, data, buffer, hashed, headerWritten,
                 pending, result, errors>>

WritePayload ==
  /\ pc = "payload"
  /\ wire' = Append(wire, PayloadCell(buffer))
  /\ buffer' = <<>>
  /\ pending' = Absent
  /\ pc' = IF finishing THEN "eos" ELSE "fill"
  /\ UNCHANGED <<level, finishing, given, data, hashed, headerWritten, result,
                 errors>>

(* Mutant of HasTail: only a full buffer is flushed.                       *)
HasFullTail == Len(buffer) = BlockSize

HasTail == buffer # <<>>

(* finish, once the stream header is there.                                *)
FlushTail ==
  /\ pc = "tail"
  /\ pc' = IF HasTail THEN "flush" ELSE "eos"
  /\ UNCHANGED <<level, finishing, given, data, buffer, hashed, headerWritten,
                 pending, result, errors, wire>>

WriteEndOfStream ==
  /\ pc = "eos"
  /\ wire' = Append(wire, EndCell)
  /\ pc' = IF StreamChecksum THEN "hash" ELSE "sync"
  /\ UNCHANGED <<level, finishing, given, data, buffer, hashed, headerWritten,
                 pending, result, errors>>

WriteStreamChecksum ==
  /\ pc = "hash"
  /\ wire' = Append(wire, HashCell(hashed))
  /\ pc' = "sync"
  /\ UNCHANGED <<level, finishing, given, data, buffer, hashed, headerWritten,
                 pending, result, errors>>

(* writer.flush and finished = true; the writer goes back to the caller.   *)
FlushWriter ==
  /\ pc = "sync"
  /\ pc' = "closed"
  /\ result' = "ok"
  /\ UNCHANGED <<level, finishing, given, data, buffer, hashed, headerWritten,
                 pending, errors, wire>>

(* W fails and `?` leaves the call: the rest of the chunk is dropped, the  *)
(* buffer keeps the block, the hasher keeps what it digested, and finish   *)
(* drops the encoder. A cell of more than one byte may be there in part.   *)
WriteFails ==
  /\ pc \in Writing
  /\ errors < MaxWriteErrors
  /\ errors' = errors + 1
  /\ \/ UNCHANGED wire
     \/ pc \notin {"eos", "sync"} /\ wire' = Append(wire, TornCell)
  /\ data' = <<>>
  /\ pending' = Absent
  /\ result' = "err"
  /\ pc' = IF finishing THEN "dropped" ELSE "idle"
  /\ UNCHANGED <<level, finishing, given, buffer, hashed, headerWritten>>

(* The encoder is gone, with its writer handed back or dropped.            *)
Gone == pc \in {"closed", "dropped"} /\ UNCHANGED vars

Next ==
  \/ \E n \in 0 .. Len(Input) - given : WriteChunk(n)
  \/ Finish
  \/ Abandon
  \/ WriteHeader
  \/ Fill
  \/ ChunkDone
  \/ FlushBlock
  \/ WriteBlockHeader
  \/ WritePayload
  \/ FlushTail
  \/ WriteEndOfStream
  \/ WriteStreamChecksum
  \/ FlushWriter
  \/ WriteFails
  \/ Gone

Spec == Init /\ [][Next]_vars

(* A call runs to its end; whether there is another call, and whether a    *)
(* write fails, is not the encoder's choice.                               *)
CallSteps ==
  \/ WriteHeader \/ Fill \/ ChunkDone \/ FlushBlock \/ WriteBlockHeader
  \/ WritePayload \/ FlushTail \/ WriteEndOfStream \/ WriteStreamChecksum
  \/ FlushWriter

FairSpec == Spec /\ WF_vars(CallSteps)

-----------------------------------------------------------------------------
(* Types: every variable keeps its type, and self.buffer never outgrows a  *)
(* block, so that the subtraction `block_size - buffer.len()` of           *)
(* write_chunk cannot underflow.                                           *)
TypeOK ==
  /\ level \in LevelChoices
  /\ pc \in Phases
  /\ finishing \in BOOLEAN
  /\ given \in 0 .. Len(Input)
  /\ data \in Seq(Byte)
  /\ buffer \in Seq(Byte) /\ Len(buffer) <= BlockSize
  /\ hashed \in Seq(Byte)
  /\ headerWritten \in BOOLEAN
  /\ pending \in BlockHeaders \cup {Absent}
  /\ result \in {"none", "ok", "err"}
  /\ errors \in 0 .. MaxWriteErrors
  /\ wire \in Seq(Cells)

(* The j-th block of s: the split depends on s alone, never on the slices  *)
(* in which the caller handed s over.                                      *)
Slice(s, j) ==
  SubSeq(s, (j - 1) * BlockSize + 1,
         IF j * BlockSize <= Len(s) THEN j * BlockSize ELSE Len(s))

(* Complete blocks on a wire that holds a header and blocks only.          *)
NumBlocks == IF wire = <<>> THEN 0 ELSE (Len(wire) - 1) \div 2

(* The phases of finish after the last block: the wire holds more than     *)
(* blocks, or is about to.                                                 *)
Ending == {"eos", "hash", "sync", "closed", "dropped"}

(* As long as W has not failed, every byte handed to write_chunk is in     *)
(* exactly one place, in order: in block j of the wire, in the buffer or   *)
(* still to be copied; and the hasher has digested exactly these bytes.    *)
(* (The header is written before the first slice reaches the hasher.)      *)
InputAccounted ==
  errors = 0 /\ headerWritten /\ pc \notin Ending =>
    /\ hashed = SubSeq(Input, 1, given)
    /\ NumBlocks * BlockSize + Len(buffer) + Len(data) = given
    /\ buffer \o data = SubSeq(Input, NumBlocks * BlockSize + 1, given)
    /\ \A j \in 1 .. NumBlocks : wire[2 * j + 1] = PayloadCell(Slice(Input, j))

(* What w must be to be the container of s: a header, the blocks of s with *)
(* their true sizes and checksums, only a short block flagged as the last, *)
(* the sentinel and the checksum of all of s.                              *)
IsContainerOf(w, s) ==
  LET n == (Len(s) + BlockSize - 1) \div BlockSize IN
  /\ Len(w) = 2 * n + (IF StreamChecksum THEN 3 ELSE 2)
  /\ w[1] = HeaderCell(StreamChecksum)
  /\ \A j \in 1 .. n :
       /\ w[2 * j].kind = "block"
       /\ w[2 * j].usize = Len(Slice(s, j))
       /\ w[2 * j].crc = IF BlockChecksum THEN Slice(s, j) ELSE Absent
       /\ w[2 * j].last = (Len(Slice(s, j)) < BlockSize)
       /\ w[2 * j + 1] = PayloadCell(Slice(s, j))
  /\ w[2 * n + 2] = EndCell
  /\ StreamChecksum => w[2 * n + 3] = HashCell(s)

(* finish answers Ok only over a complete, well-formed container of what   *)
(* the encoder digested, however the input was sliced (CODROP_SPEC 11.1    *)
(* and 11.2). A caller that went on after a failed write breaks it.        *)
FinishedIsContainer == pc = "closed" => IsContainerOf(wire, hashed)

(* No block on the wire is larger than its data, and none but RAW is as    *)
(* large (CODROP_SPEC 11.3); no block is empty.                            *)
ExpansionSafeguard ==
  \A i \in DOMAIN wire : wire[i].kind = "block" =>
    /\ wire[i].usize > 0
    /\ IF wire[i].type = "Raw" THEN wire[i].csize = wire[i].usize
                               ELSE wire[i].csize < wire[i].usize

(* Every call returns: the copy loop of write_chunk makes progress on each *)
(* turn, whatever the slice, the buffer and the block size are.            *)
CallsReturn == pc \notin {"idle", "closed", "dropped"} ~>
                 pc \in {"idle", "closed", "dropped"}
=============================================================================
