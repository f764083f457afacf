------------------------- MODULE StreamEncoderProofs -------------------------
(***************************************************************************)
(* What TLC checks of the encoder on five bytes, for every input, block    *)
(* size, level and candidate sizes: first the choice of a block's codec,   *)
(* then types and the sizes of what is written, for callers of any kind,   *)
(* and at last where each byte is, and that finish leaves a container.     *)
(***************************************************************************)
EXTENDS StreamEncoder, SliceLemmas

(* The choice of the codec.                                                *)

Sizes == [Candidates -> Nat]

(* One comparison keeps the smaller of the two, RAW at the start.          *)
LEMMA BetterKeepsSmaller ==
  ASSUME NEW len \in Nat, NEW size \in Sizes, NEW c \in Candidates,
         NEW best \in Candidates \cup {"Raw"}
  PROVE  LET b == Better(best, c, len, size) IN
         /\ b \in {best, c}
         /\ SizeOf(b, len, size) <= SizeOf(best, len, size)
         /\ b = best \/ SizeOf(b, len, size) < SizeOf(best, len, size)
         /\ Offered(c, size) => SizeOf(b, len, size) <= size[c]
<1>1. "Raw" \notin Candidates
  BY DEF Candidates
<1>2. SizeOf(c, len, size) = size[c] /\ size[c] \in Nat
  BY <1>1 DEF SizeOf, Sizes
<1>3. SizeOf(best, len, size) \in Nat
  BY DEF SizeOf, Sizes
<1>4. CASE Offered(c, size) /\ size[c] < SizeOf(best, len, size)
  BY <1>2, <1>3, <1>4 DEF Better
<1>5. CASE ~(Offered(c, size) /\ size[c] < SizeOf(best, len, size))
  BY <1>2, <1>3, <1>5 DEF Better
<1> QED
  BY <1>4, <1>5

(* The cascades of flush_block, at every level, for blocks and candidates  *)
(* of every size: the codec that is written is the smallest the level has  *)
(* tried, and nothing but RAW is written unless it is smaller than the     *)
(* block. This is the expansion safeguard of CODROP_SPEC 11.3.             *)
THEOREM ChoiceIsBest ==
  ASSUME NEW lev \in Levels, NEW len \in Nat, NEW size \in Sizes
  PROVE  IsBestChoice(Choice(lev, len, size), lev, len, size)
<1> DEFINE S(c) == SizeOf(c, len, size)
<1>1. "Raw" \notin Candidates /\ S("Raw") = len
  BY DEF Candidates, SizeOf
<1>2. \A c \in Candidates : S(c) = size[c] /\ size[c] \in Nat
  BY <1>1 DEF SizeOf, Sizes
<1>3. {"Rle", "Lzf", "Lzh", "Lza", "PreLzh", "PreLza"} = Candidates
  BY DEF Candidates
<1>4. CASE lev = "Fast"
  <2>1. Choice(lev, len, size) = FastChoice(len, size)
    BY <1>4 DEF Choice
  <2>2. Evaluated(lev) = {"Rle", "Lzf"}
    BY <1>4 DEF Evaluated
  <2>3. S("Rle") = size["Rle"] /\ S("Lzf") = size["Lzf"]
        /\ size["Rle"] \in Nat /\ size["Lzf"] \in Nat
    BY <1>2, <1>3
  <2> QED
    BY <1>1, <2>1, <2>2, <2>3 DEF IsBestChoice, FastChoice
<1>5. CASE lev = "Balanced"
  <2> DEFINE rle == Better("Raw", "Rle", len, size)
             lzf == Better(rle, "Lzf", len, size)
             lzh == Better(lzf, "Lzh", len, size)
             pre == Better(lzh, "PreLzh", len, size)
  <2>1. Choice(lev, len, size) = pre
    BY <1>5 DEF Choice, BalancedChoice
  <2>2. Evaluated(lev) = {"Rle", "Lzf", "Lzh", "PreLzh"}
    BY <1>5 DEF Evaluated
  <2> HIDE DEF rle, lzf, lzh, pre, S
  <2>3. /\ rle \in {"Raw", "Rle"} /\ S(rle) <= S("Raw")
        /\ rle = "Raw" \/ S(rle) < S("Raw")
        /\ Offered("Rle", size) => S(rle) <= size["Rle"]
    BY <1>3, BetterKeepsSmaller DEF rle, S
  <2>4. /\ lzf \in {rle, "Lzf"} /\ S(lzf) <= S(rle)
        /\ lzf = rle \/ S(lzf) < S(rle)
        /\ Offered("Lzf", size) => S(lzf) <= size["Lzf"]
    BY <1>3, <2>3, BetterKeepsSmaller DEF lzf, S
  <2>5. /\ lzh \in {lzf, "Lzh"} /\ S(lzh) <= S(lzf)
        /\ lzh = lzf \/ S(lzh) < S(lzf)
        /\ Offered("Lzh", size) => S(lzh) <= size["Lzh"]
    BY <1>3, <2>3, <2>4, BetterKeepsSmaller DEF lzh, S
  <2>6. /\ pre \in {lzh, "PreLzh"} /\ S(pre) <= S(lzh)
        /\ pre = lzh \/ S(pre) < S(lzh)
        /\ Offered("PreLzh", size) => S(pre) <= size["PreLzh"]
    BY <1>3, <2>3, <2>4, <2>5, BetterKeepsSmaller DEF pre, S
  <2>7. /\ S("Raw") \in Nat /\ S(rle) \in Nat /\ S(lzf) \in Nat
        /\ S(lzh) \in Nat /\ S(pre) \in Nat
    BY <1>1, <1>2, <1>3, <2>3, <2>4, <2>5, <2>6
  <2>8. \A d \in Candidates : size[d] \in Nat
    BY <1>2
  <2>9. pre \in Evaluated(lev) \cup {"Raw"}
    BY <2>2, <2>3, <2>4, <2>5, <2>6
  <2>10. pre # "Raw" => S(pre) < len
    BY <1>1, <2>3, <2>4, <2>5, <2>6, <2>7
  <2>11. ASSUME NEW d \in Evaluated(lev), Offered(d, size)
         PROVE  S(pre) <= size[d]
    BY <1>3, <2>2, <2>3, <2>4, <2>5, <2>6, <2>7, <2>8, <2>11
  <2> QED
    BY <2>1, <2>9, <2>10, <2>11 DEF IsBestChoice, S
<1>6. CASE lev \notin {"Fast", "Balanced"}
  <2> DEFINE rle == Better("Raw", "Rle", len, size)
             lzf == Better(rle, "Lzf", len, size)
             lzh == Better(lzf, "Lzh", len, size)
             lza == Better(lzh, "Lza", len, size)
             pra == Better(lza, "PreLza", len, size)
             prh == Better(pra, "PreLzh", len, size)
  <2>1. Choice(lev, len, size) = prh
    BY <1>6 DEF Choice, CompactChoice
  <2>2. Evaluated(lev) = Candidates
    BY <1>6 DEF Evaluated
  <2> HIDE DEF rle, lzf, lzh, lza, pra, prh, S
  <2>3. /\ rle \in {"Raw", "Rle"} /\ S(rle) <= S("Raw")
        /\ rle = "Raw" \/ S(rle) < S("Raw")
        /\ Offered("Rle", size) => S(rle) <= size["Rle"]
    BY <1>3, BetterKeepsSmaller DEF rle, S
  <2>4. /\ lzf \in {rle, "Lzf"} /\ S(lzf) <= S(rle)
        /\ lzf = rle \/ S(lzf) < S(rle)
        /\ Offered("Lzf", size) => S(lzf) <= size["Lzf"]
    BY <1>3, <2>3, BetterKeepsSmaller DEF lzf, S
  <2>5. /\ lzh \in {lzf, "Lzh"} /\ S(lzh) <= S(lzf)
        /\ lzh = lzf \/ S(lzh) < S(lzf)
        /\ Offered("Lzh", size) => S(lzh) <= size["Lzh"]
    BY <1>3, <2>3, <2>4, BetterKeepsSmaller DEF lzh, S
  <2>6. /\ lza \in {lzh, "Lza"} /\ S(lza) <= S(lzh)
        /\ lza = lzh \/ S(lza) < S(lzh)
        /\ Offered("Lza", size) => S(lza) <= size["Lza"]
    BY <1>3, <2>3, <2>4, <2>5, BetterKeepsSmaller DEF lza, S
  <2>7. /\ pra \in {lza, "PreLza"} /\ S(pra) <= S(lza)
        /\ pra = lza \/ S(pra) < S(lza)
        /\ Offered("PreLza", size) => S(pra) <= size["PreLza"]
    BY <1>3, <2>3, <2>4, <2>5, <2>6, BetterKeepsSmaller DEF pra, S
  <2>8. /\ prh \in {pra, "PreLzh"} /\ S(prh) <= S(pra)
        /\ prh = pra \/ S(prh) < S(pra)
        /\ Offered("PreLzh", size) => S(prh) <= size["PreLzh"]
    BY <1>3, <2>3, <2>4, <2>5, <2>6, <2>7, BetterKeepsSmaller DEF prh, S
  <2>9. /\ S("Raw") \in Nat /\ S(rle) \in Nat /\ S(lzf) \in Nat
        /\ S(lzh) \in Nat /\ S(lza) \in Nat /\ S(pra) \in Nat /\ S(prh) \in Nat
    BY <1>1, <1>2, <1>3, <2>3, <2>4, <2>5, <2>6, <2>7, <2>8
  <2>10. \A d \in Candidates : size[d] \in Nat
    BY <1>2
  <2>11. prh \in Evaluated(lev) \cup {"Raw"}
    BY <1>3, <2>2, <2>3, <2>4, <2>5, <2>6, <2>7, <2>8
  <2>12. prh # "Raw" => S(prh) < len
    BY <1>1, <2>3, <2>4, <2>5, <2>6, <2>7, <2>8, <2>9
  <2>13. ASSUME NEW d \in Evaluated(lev), Offered(d, size)
         PROVE  S(prh) <= size[d]
    BY <1>3, <2>2, <2>3, <2>4, <2>5, <2>6, <2>7, <2>8, <2>9, <2>10, <2>13
  <2> QED
    BY <2>1, <2>11, <2>12, <2>13 DEF IsBestChoice, S
<1> QED
  BY <1>4, <1>5, <1>6

-----------------------------------------------------------------------------
(* Types, and the sizes of what is written.                                *)

(* What a block header owes the expansion safeguard.                       *)
SafeBlock(h) ==
  /\ h.usize > 0
  /\ IF h.type = "Raw" THEN h.csize = h.usize ELSE h.csize < h.usize

(* TypeOK is not inductive: that the cell written by WriteBlockHeader is a *)
(* block header, and a safe one, is decided by FlushBlock one step before; *)
(* that its block is not empty, by the step that decides to flush.         *)
IInv ==
  /\ TypeOK
  /\ pc = "flush" => buffer # <<>>
  /\ pc = "blockHeader" => pending \in BlockHeaders /\ SafeBlock(pending)
  /\ ExpansionSafeguard

-----------------------------------------------------------------------------
(* A cell that is no block, or is a safe one, keeps the wire as it should  *)
(* be.                                                                     *)
LEMMA AppendCell ==
  ASSUME wire \in Seq(Cells), ExpansionSafeguard, NEW cell \in Cells,
         wire' = Append(wire, cell),
         cell.kind = "block" => SafeBlock(cell)
  PROVE  wire' \in Seq(Cells) /\ ExpansionSafeguard'
<1>1. /\ wire' \in Seq(Cells)
      /\ Len(wire') = Len(wire) + 1
      /\ \A i \in 1 .. Len(wire) : wire'[i] = wire[i]
      /\ wire'[Len(wire) + 1] = cell
  BY AppendProperties
<1>2. DOMAIN wire = 1 .. Len(wire) /\ DOMAIN wire' = 1 .. Len(wire)' /\ Len(wire) \in Nat
  BY <1>1, LenProperties
<1>3. ASSUME NEW i \in DOMAIN wire', wire'[i].kind = "block"
      PROVE  SafeBlock(wire'[i])
  <2>1. CASE i \in 1 .. Len(wire)
    BY <1>1, <1>2, <1>3, <2>1 DEF ExpansionSafeguard, SafeBlock
  <2>2. CASE i = Len(wire) + 1
    BY <1>1, <1>3, <2>2
  <2> QED
    BY <1>1, <1>2, <2>1, <2>2
<1> QED
  BY <1>1, <1>3 DEF ExpansionSafeguard, SafeBlock

(* The cells that are not blocks.                                          *)
LEMMA OtherCells ==
  ASSUME NEW s \in Seq(Byte), NEW b \in BOOLEAN
  PROVE  /\ HeaderCell(b) \in Cells /\ HeaderCell(b).kind # "block"
         /\ PayloadCell(s) \in Cells /\ PayloadCell(s).kind # "block"
         /\ HashCell(s) \in Cells /\ HashCell(s).kind # "block"
         /\ EndCell \in Cells /\ EndCell.kind # "block"
         /\ TornCell \in Cells /\ TornCell.kind # "block"
BY DEF HeaderCell, PayloadCell, HashCell, EndCell, TornCell, Cells

LEMMA CopiedType ==
  ASSUME TypeOK, data # <<>>
  PROVE  /\ Copied \in 0 .. Len(data)
         /\ Len(buffer) + Copied <= BlockSize
         /\ SubSeq(data, 1, Copied) \in Seq(Byte)
         /\ Len(SubSeq(data, 1, Copied)) = Copied
         /\ Uncopied \in Seq(Byte)
<1>1. /\ Len(data) \in Nat /\ Len(buffer) \in Nat /\ BlockSize \in Nat
      /\ Len(buffer) <= BlockSize /\ data \in Seq(Byte)
  BY BlockSizeAssumption, LenProperties DEF TypeOK
<1>2. Copied \in 0 .. Len(data) /\ Len(buffer) + Copied <= BlockSize
  BY <1>1 DEF Copied
<1> QED
  BY <1>1, <1>2, SliceType DEF Uncopied

(* The header that FlushBlock decides on.                                  *)
LEMMA ChosenHeader ==
  ASSUME IInv, NEW size \in CandidateSizes, buffer # <<>>,
         NEW c, c = Choice(level, Len(buffer), size),
         NEW h, h = BlockCell(IF c = "Raw" THEN c ELSE TypeOf(c), finishing,
                              SizeOf(c, Len(buffer), size), Len(buffer),
                              IF BlockChecksum THEN buffer ELSE Absent)
  PROVE  h \in BlockHeaders /\ SafeBlock(h)
<1>1. buffer \in Seq(Byte) /\ Len(buffer) \in Nat \ {0} /\ finishing \in BOOLEAN
  BY EmptySeq, LenProperties DEF IInv, TypeOK
<1>2. level \in Levels /\ size \in Sizes
  BY OptionsAssumption, SizesAssumption DEF IInv, TypeOK, Sizes
<1>3. IsBestChoice(c, level, Len(buffer), size)
  BY <1>1, <1>2, ChoiceIsBest
<1>4. Evaluated(level) \subseteq Candidates
  BY DEF Evaluated, Candidates
<1>5. c \in Candidates \cup {"Raw"}
  BY <1>3, <1>4 DEF IsBestChoice
<1>6. SizeOf(c, Len(buffer), size) \in Nat
  BY <1>1, <1>2, <1>5 DEF SizeOf, Sizes
<1>7. CASE c = "Raw"
  BY <1>1, <1>6, <1>7 DEF BlockCell, BlockHeaders, BlockTypes, SafeBlock, SizeOf
<1>8. CASE c # "Raw"
  <2>1. TypeOf(c) \in BlockTypes \ {"Raw"}
    BY <1>5, <1>8 DEF TypeOf, BlockTypes, Candidates
  <2>2. SizeOf(c, Len(buffer), size) < Len(buffer)
    BY <1>3, <1>8 DEF IsBestChoice
  <2> QED
    BY <1>1, <1>6, <1>8, <2>1, <2>2 DEF BlockCell, BlockHeaders, SafeBlock
<1> QED
  BY <1>7, <1>8

-----------------------------------------------------------------------------
LEMMA InitIInv == Init => IInv
<1> SUFFICES ASSUME Init PROVE IInv
  OBVIOUS
<1>1. Len(Input) \in Nat
  BY InputAssumption, LenProperties
<1>2. BlockSize \in Nat /\ MaxWriteErrors \in Nat
  BY BlockSizeAssumption, OptionsAssumption
<1>3. /\ <<>> \in Seq(Byte) /\ <<>> \in Seq(Cells)
      /\ Len(<<>>) = 0
  BY EmptySeq
<1>4. wire \in Seq(Cells) /\ buffer \in Seq(Byte) /\ Len(buffer) <= BlockSize
  BY <1>2, <1>3 DEF Init
<1>5. TypeOK
  <2>1. level \in LevelChoices /\ pc \in Phases
    BY DEF Init, Phases
  <2>2. finishing \in BOOLEAN /\ headerWritten \in BOOLEAN
    BY DEF Init
  <2>3. given \in 0 .. Len(Input) /\ errors \in 0 .. MaxWriteErrors
    BY <1>1, <1>2 DEF Init
  <2>4. data \in Seq(Byte) /\ hashed \in Seq(Byte)
    BY <1>3 DEF Init
  <2>5. pending \in BlockHeaders \cup {Absent}
    BY DEF Init
  <2>6. result \in {"none", "ok", "err"}
    BY DEF Init
  <2> QED
    BY <1>4, <2>1, <2>2, <2>3, <2>4, <2>5, <2>6 DEF TypeOK
<1>6. ExpansionSafeguard
  BY DEF Init, ExpansionSafeguard
<1> QED
  BY <1>5, <1>6 DEF IInv, Init

LEMMA NextIInv == IInv /\ [Next]_vars => IInv'
<1> SUFFICES ASSUME IInv, [Next]_vars PROVE IInv'
  OBVIOUS
<1> USE DEF IInv
<1>0. /\ Len(Input) \in Nat /\ BlockSize \in Nat \ {0} /\ MaxWriteErrors \in Nat
      /\ StreamChecksum \in BOOLEAN
  BY InputAssumption, BlockSizeAssumption, OptionsAssumption, LenProperties
<1>a. TypeOK
  OBVIOUS
<1>1. ASSUME NEW n \in 0 .. Len(Input) - given, WriteChunk(n) PROVE IInv'
  <2>1. given \in Nat /\ given + n \in 0 .. Len(Input)
    BY <1>0, <1>a DEF TypeOK
  <2>2. SubSeq(Input, given + 1, given + n) \in Seq(Byte)
    BY <2>1, InputAssumption, SliceType
  <2>3. hashed' \in Seq(Byte)
    BY <1>1, <1>a, <2>2, ConcatProperties, ZenonT(30) DEF WriteChunk, TypeOK
  <2>4. TypeOK'
    BY <1>1, <1>a, <2>1, <2>2, <2>3 DEF WriteChunk, TypeOK, Phases
  <2> QED
    BY <1>1, <2>4 DEF WriteChunk, ExpansionSafeguard
<1>2. CASE Finish
  BY <1>2 DEF Finish, TypeOK, Phases, ExpansionSafeguard
<1>3. CASE Abandon
  BY <1>3 DEF Abandon, TypeOK, Phases, ExpansionSafeguard
<1>4. CASE WriteHeader
  <2>1. wire' \in Seq(Cells) /\ ExpansionSafeguard'
    BY <1>0, <1>4, <1>a, EmptySeq, OtherCells, AppendCell DEF WriteHeader, TypeOK
  <2>2. hashed' \in Seq(Byte)
    BY <1>4, <1>a, ConcatProperties DEF WriteHeader, TypeOK
  <2> QED
    BY <1>4, <2>1, <2>2 DEF WriteHeader, TypeOK, Phases
<1>5. CASE Fill
  <2>1. /\ Copied \in 0 .. Len(data) /\ Len(buffer) + Copied <= BlockSize
        /\ SubSeq(data, 1, Copied) \in Seq(Byte)
        /\ Len(SubSeq(data, 1, Copied)) = Copied
        /\ Uncopied \in Seq(Byte)
    BY <1>5, <1>a, CopiedType DEF Fill
  <2>2. buffer' \in Seq(Byte) /\ Len(buffer') = Len(buffer) + Copied
    BY <1>5, <1>a, <2>1, ConcatProperties DEF Fill, TypeOK
  <2>3. pc' = "flush" => buffer' # <<>>
    BY <1>0, <1>5, <2>2, EmptySeq DEF Fill
  <2> QED
    BY <1>5, <1>a, <2>1, <2>2, <2>3 DEF Fill, TypeOK, Phases, ExpansionSafeguard
<1>6. CASE ChunkDone
  BY <1>6 DEF ChunkDone, TypeOK, Phases, ExpansionSafeguard
<1>7. CASE FlushBlock
  <2>1. pending' \in BlockHeaders /\ SafeBlock(pending')
    BY <1>7, ChosenHeader DEF FlushBlock
  <2> QED
    BY <1>7, <2>1 DEF FlushBlock, TypeOK, Phases, ExpansionSafeguard, SafeBlock
<1>8. CASE WriteBlockHeader
  <2>1. pending \in Cells /\ SafeBlock(pending)
    BY <1>8 DEF WriteBlockHeader, Cells
  <2>2. wire' \in Seq(Cells) /\ ExpansionSafeguard'
    BY <1>8, <1>a, <2>1, AppendCell DEF WriteBlockHeader, TypeOK
  <2> QED
    BY <1>8, <2>2 DEF WriteBlockHeader, TypeOK, Phases
<1>9. CASE WritePayload
  <2>1. wire' \in Seq(Cells) /\ ExpansionSafeguard'
    BY <1>9, <1>a, OtherCells, AppendCell DEF WritePayload, TypeOK
  <2> QED
    BY <1>0, <1>9, <2>1, EmptySeq DEF WritePayload, TypeOK, Phases
<1>10. CASE FlushTail
  BY <1>10 DEF FlushTail, HasTail, TypeOK, Phases, ExpansionSafeguard
<1>11. CASE WriteEndOfStream
  <2>1. wire' \in Seq(Cells) /\ ExpansionSafeguard'
    BY <1>11, <1>a, EmptySeq, OtherCells, AppendCell DEF WriteEndOfStream, TypeOK
  <2> QED
    BY <1>11, <2>1 DEF WriteEndOfStream, TypeOK, Phases
<1>12. CASE WriteStreamChecksum
  <2>1. wire' \in Seq(Cells) /\ ExpansionSafeguard'
    BY <1>12, <1>a, OtherCells, AppendCell DEF WriteStreamChecksum, TypeOK
  <2> QED
    BY <1>12, <2>1 DEF WriteStreamChecksum, TypeOK, Phases
<1>13. CASE FlushWriter
  BY <1>13 DEF FlushWriter, TypeOK, Phases, ExpansionSafeguard
<1>14. CASE WriteFails
  <2>1. CASE UNCHANGED wire
    BY <1>0, <1>14, <2>1, EmptySeq DEF WriteFails, TypeOK, Phases, ExpansionSafeguard
  <2>2. CASE wire' = Append(wire, TornCell)
    <3>1. wire' \in Seq(Cells) /\ ExpansionSafeguard'
      BY <1>a, <2>2, EmptySeq, OtherCells, AppendCell DEF TypeOK
    <3> QED
      BY <1>0, <1>14, <3>1, EmptySeq DEF WriteFails, TypeOK, Phases
  <2> QED
    BY <1>14, <2>1, <2>2 DEF WriteFails
<1>15. CASE Gone \/ UNCHANGED vars
  BY <1>15 DEF Gone, vars, TypeOK, ExpansionSafeguard, SafeBlock
<1> QED
  BY <1>1, <1>2, <1>3, <1>4, <1>5, <1>6, <1>7, <1>8, <1>9, <1>10, <1>11,
     <1>12, <1>13, <1>14, <1>15 DEF Next

LEMMA SpecIInv == Spec => []IInv
BY InitIInv, NextIInv, PTL DEF Spec

(* Every variable of the encoder keeps its type, and the buffer never      *)
(* outgrows a block, so that write_chunk's `space_remaining` is a          *)
(* subtraction that cannot underflow, after failed writes included.        *)
THEOREM EncoderTypes == Spec => []TypeOK
BY SpecIInv, PTL DEF IInv

(* flush_block never writes an empty block, nor one that is larger than    *)
(* its data, nor one of another type than RAW that is not smaller: for     *)
(* every level, and whatever the codecs make of the block.                 *)
THEOREM EncoderNeverExpands == Spec => []ExpansionSafeguard
BY SpecIInv, PTL DEF IInv

-----------------------------------------------------------------------------
(* The container.                                                          *)

LEMMA Products ==
  ASSUME NEW n \in Nat
  PROVE  /\ n * BlockSize \in Nat
         /\ (n + 1) * BlockSize = n * BlockSize + BlockSize
         /\ \A j \in 1 .. n : j * BlockSize \in Nat /\ j * BlockSize <= n * BlockSize
         /\ \A j \in 1 .. n : (j - 1) * BlockSize \in Nat /\ (j - 1) * BlockSize + BlockSize = j * BlockSize
<1>1. BlockSize \in Nat \ {0}
  BY BlockSizeAssumption
<1> QED
  BY <1>1, Multiples

-----------------------------------------------------------------------------
(* A block that is full is the same slice whatever follows it.             *)
LEMMA SliceStays ==
  ASSUME NEW s \in Seq(Byte), NEW t \in Seq(Byte), NEW n \in Nat,
         n * BlockSize <= Len(s), NEW j \in 1 .. n
  PROVE  /\ Slice(s \o t, j) = Slice(s, j)
         /\ Slice(s, j) = SubSeq(s, (j - 1) * BlockSize + 1, j * BlockSize)
<1>1. Len(s) \in Nat /\ Len(t) \in Nat /\ Len(s \o t) = Len(s) + Len(t)
  BY LenProperties, ConcatProperties
<1>2. /\ j * BlockSize \in Nat /\ j * BlockSize <= n * BlockSize /\ n * BlockSize \in Nat
      /\ (j - 1) * BlockSize \in Nat /\ (j - 1) * BlockSize + BlockSize = j * BlockSize
      /\ BlockSize \in Nat \ {0}
  BY Products, BlockSizeAssumption
<1> DEFINE lo == (j - 1) * BlockSize
           hi == j * BlockSize
<1>3. hi <= Len(s) /\ hi <= Len(s \o t) /\ lo + 1 \in 1 .. Len(s) /\ hi \in 1 .. Len(s)
  BY <1>1, <1>2
<1>4. Slice(s, j) = SubSeq(s, lo + 1, hi) /\ Slice(s \o t, j) = SubSeq(s \o t, lo + 1, hi)
  BY <1>3 DEF Slice
<1> HIDE DEF lo, hi
<1>5. SubSeq(s \o t, lo + 1, hi) = SubSeq(s, lo + 1, hi)
  BY <1>3, SubSeqOfConcat1
<1> QED
  BY <1>4, <1>5 DEF lo, hi

HeaderOf(h, s) ==
  /\ h.kind = "block"
  /\ h.usize = Len(s)
  /\ h.crc = IF BlockChecksum THEN s ELSE Absent
  /\ h.last = (Len(s) < BlockSize)

BlockAt(w, s, j) ==
  HeaderOf(w[2 * j], Slice(s, j)) /\ w[2 * j + 1] = PayloadCell(Slice(s, j))

LEMMA BlocksStay ==
  ASSUME NEW w \in Seq(Cells), NEW c \in Cells, NEW n \in Nat, NEW s,
         2 * n + 1 <= Len(w), \A j \in 1 .. n : BlockAt(w, s, j)
  PROVE  /\ \A j \in 1 .. n : BlockAt(Append(w, c), s, j)
         /\ Append(w, c)[1] = w[1]
         /\ Len(Append(w, c)) = Len(w) + 1
         /\ Append(w, c)[Len(w) + 1] = c
<1>1. /\ Len(Append(w, c)) = Len(w) + 1 /\ Append(w, c)[Len(w) + 1] = c
      /\ \A i \in 1 .. Len(w) : Append(w, c)[i] = w[i]
      /\ Len(w) \in Nat
  BY AppendProperties, LenProperties
<1>2. ASSUME NEW j \in 1 .. n PROVE BlockAt(Append(w, c), s, j)
  <2>1. 2 * j \in 1 .. Len(w) /\ 2 * j + 1 \in 1 .. Len(w)
    BY <1>1
  <2>2. Append(w, c)[2 * j] = w[2 * j] /\ Append(w, c)[2 * j + 1] = w[2 * j + 1]
    BY <1>1, <2>1
  <2> QED
    BY <2>2 DEF BlockAt
<1>3. 1 \in 1 .. Len(w)
  BY <1>1
<1> QED
  BY <1>1, <1>2, <1>3

LEMMA BlocksGrow ==
  ASSUME NEW w, NEW s \in Seq(Byte), NEW t \in Seq(Byte), NEW n \in Nat,
         n * BlockSize <= Len(s), \A j \in 1 .. n : BlockAt(w, s, j)
  PROVE  \A j \in 1 .. n : BlockAt(w, s \o t, j)
BY SliceStays DEF BlockAt

LEMMA BlocksOnWire ==
  ASSUME NEW w \in Seq(Cells), NEW n \in Nat, Len(w) = 2 * n + 1 \/ Len(w) = 2 * n + 2
  PROVE  (IF w = <<>> THEN 0 ELSE (Len(w) - 1) \div 2) = n
<1>1. w # <<>>
  BY EmptySeq
<1>2. (Len(w) - 1) \div 2 = n
  OBVIOUS
<1> QED
  BY <1>1, <1>2

-----------------------------------------------------------------------------
(* Before the stream header is written nothing has reached the hasher, the *)
(* buffer or the wire.                                                     *)
Unwritten ==
  /\ pc \in {"idle", "header", "dropped"}
  /\ wire = <<>> /\ buffer = <<>> /\ hashed = <<>>
  /\ data = SubSeq(Input, 1, given)
  /\ pc = "idle" \/ finishing => data = <<>>

(* While blocks are written: the wire holds the full blocks of what was    *)
(* digested, the buffer and data hold the rest of it; only the last block  *)
(* of finish is short.                                                     *)
Filling ==
  /\ Len(wire) = 2 * NumBlocks + (IF pc = "payload" THEN 2 ELSE 1)
  /\ wire[1] = HeaderCell(StreamChecksum)
  /\ \A j \in 1 .. NumBlocks : BlockAt(wire, hashed, j)
  /\ NumBlocks * BlockSize + Len(buffer) + Len(data) = Len(hashed)
  /\ buffer \o data = SubSeq(hashed, NumBlocks * BlockSize + 1, Len(hashed))
  /\ hashed = SubSeq(Input, 1, given)
  /\ pc \in {"idle", "fill", "tail"} => Len(buffer) < BlockSize
  /\ pc \in {"flush", "blockHeader", "payload"} =>
       /\ Len(buffer) > 0
       /\ finishing <=> Len(buffer) < BlockSize
  /\ pc = "blockHeader" => HeaderOf(pending, buffer)
  /\ pc = "payload" => HeaderOf(wire[Len(wire)], buffer)
  /\ pc \in {"idle", "tail"} \/ finishing => data = <<>>
  /\ pc = "fill" => ~finishing
  /\ pc = "tail" => finishing

BlockCount == (Len(hashed) + BlockSize - 1) \div BlockSize

(* After the last block: the container of what was digested, as far as     *)
(* finish has come.                                                        *)
Completing ==
  /\ Len(wire) = 2 * BlockCount +
       (IF pc = "eos" THEN 1 ELSE IF pc = "hash" \/ ~StreamChecksum THEN 2 ELSE 3)
  /\ wire[1] = HeaderCell(StreamChecksum)
  /\ \A j \in 1 .. BlockCount : BlockAt(wire, hashed, j)
  /\ pc # "eos" => wire[2 * BlockCount + 2] = EndCell
  /\ pc = "hash" => StreamChecksum
  /\ pc \in {"sync", "closed"} /\ StreamChecksum => wire[2 * BlockCount + 3] = HashCell(hashed)

FillingPhases == {"idle", "fill", "flush", "blockHeader", "payload", "tail"}
EndPhases == {"eos", "hash", "sync", "closed"}

Accounting ==
  /\ ~headerWritten => Unwritten
  /\ headerWritten => pc # "header"
  /\ headerWritten /\ pc \in FillingPhases => Filling
  /\ pc \in EndPhases => Completing

(* A caller that gives up after an error reaches no further than that.     *)
AInv ==
  /\ IInv
  /\ errors = 0 => Accounting
  /\ errors > 0 /\ ~RetryAfterError => pc = "dropped" \/ (pc = "idle" /\ result = "err")

-----------------------------------------------------------------------------
LEMMA InitAInv == Init => AInv
<1> SUFFICES ASSUME Init PROVE AInv
  OBVIOUS
<1>1. IInv
  BY InitIInv
<1>2. SubSeq(Input, 1, 0) = <<>>
  BY SubSeqEmpty
<1>3. Accounting
  BY <1>2 DEF Init, Accounting, Unwritten, EndPhases
<1> QED
  BY <1>1, <1>3 DEF Init, AInv

(* The facts about types that every step needs.                            *)
LEMMA Lengths ==
  ASSUME TypeOK
  PROVE  /\ Len(hashed) \in Nat /\ Len(buffer) \in Nat /\ Len(data) \in Nat
         /\ Len(wire) \in Nat /\ Len(Input) \in Nat
         /\ given \in 0 .. Len(Input)
         /\ hashed \in Seq(Byte) /\ buffer \in Seq(Byte) /\ data \in Seq(Byte)
         /\ wire \in Seq(Cells) /\ Input \in Seq(Byte)
         /\ BlockSize \in Nat \ {0}
         /\ Len(buffer) <= BlockSize
         /\ finishing \in BOOLEAN
         /\ StreamChecksum \in BOOLEAN
BY LenProperties, InputAssumption, BlockSizeAssumption, OptionsAssumption DEF TypeOK

LEMMA NumBlocksIsNat ==
  ASSUME TypeOK
  PROVE  NumBlocks \in Nat
<1>1. Len(wire) \in Nat /\ wire \in Seq(Cells)
  BY Lengths
<1>2. wire # <<>> => Len(wire) \in Nat \ {0}
  BY <1>1, EmptySeq
<1> QED
  BY <1>1, <1>2 DEF NumBlocks

(* The next n bytes of the input behind those that were handed over.       *)
LEMMA HandOver ==
  ASSUME TypeOK, NEW n \in 0 .. Len(Input) - given
  PROVE  /\ SubSeq(Input, given + 1, given + n) \in Seq(Byte)
         /\ Len(SubSeq(Input, given + 1, given + n)) = n
         /\ Len(SubSeq(Input, 1, given)) = given
         /\ SubSeq(Input, 1, given) \o SubSeq(Input, given + 1, given + n)
              = SubSeq(Input, 1, given + n)
<1>1. /\ Input \in Seq(Byte) /\ Len(Input) \in Nat /\ given \in 0 .. Len(Input)
      /\ n \in Nat /\ given + n \in 0 .. Len(Input) /\ given + 1 \in Nat \ {0}
  BY Lengths
<1>2. /\ SubSeq(Input, given + 1, given + n) \in Seq(Byte)
      /\ Len(SubSeq(Input, given + 1, given + n))
           = IF given + 1 <= given + n THEN given + n - (given + 1) + 1 ELSE 0
  BY <1>1, SliceType
<1>3. Len(SubSeq(Input, 1, given)) = IF 1 <= given THEN given - 1 + 1 ELSE 0
  BY <1>1, SliceType
<1>4. SubSeq(Input, 1, given) \o SubSeq(Input, given + 1, given + n)
        = SubSeq(Input, 1, given + n)
  <2>1. 1 \in 1 .. Len(Input) + 1 /\ given \in 1 - 1 .. Len(Input)
        /\ given + n \in given .. Len(Input)
    BY <1>1
  <2> QED
    BY <1>1, <2>1, ConcatAdjacentSubSeq
<1> QED
  BY <1>1, <1>2, <1>3, <1>4

-----------------------------------------------------------------------------
(* One lemma per action, on Accounting alone.                              *)
LEMMA WriteChunkAccounting ==
  ASSUME TypeOK, Accounting, NEW n \in 0 .. Len(Input) - given, WriteChunk(n)
  PROVE  Accounting'
<1> DEFINE chunk == SubSeq(Input, given + 1, given + n)
<1>1. /\ pc = "idle" /\ finishing' = FALSE /\ given' = given + n /\ data' = chunk
      /\ UNCHANGED <<buffer, headerWritten, wire>>
      /\ IF headerWritten THEN pc' = "fill" /\ hashed' = hashed \o chunk
         ELSE pc' = "header" /\ UNCHANGED hashed
  BY DEF WriteChunk, MayCall
<1>2. /\ chunk \in Seq(Byte) /\ Len(chunk) = n /\ n \in Nat
      /\ Len(SubSeq(Input, 1, given)) = given
      /\ SubSeq(Input, 1, given) \o chunk = SubSeq(Input, 1, given + n)
  <2>1. n \in Nat
    BY Lengths
  <2> QED
    BY <2>1, HandOver
<1> HIDE DEF chunk
<1>3. /\ hashed \in Seq(Byte) /\ buffer \in Seq(Byte) /\ Len(buffer) \in Nat
      /\ Len(hashed) \in Nat /\ NumBlocks \in Nat /\ NumBlocks * BlockSize \in Nat
  BY Lengths, NumBlocksIsNat, Products
<1>4. CASE ~headerWritten
  <2>1. data = <<>> /\ data = SubSeq(Input, 1, given) /\ Unwritten
    BY <1>1, <1>4 DEF Accounting, Unwritten
  <2>2. SubSeq(Input, 1, given) \o chunk = chunk
    BY <1>2, <2>1, ConcatEmptySeq
  <2> QED
    BY <1>1, <1>2, <1>4, <2>1, <2>2 DEF Accounting, Unwritten, EndPhases
<1>5. CASE headerWritten
  <2>1. Filling /\ data = <<>>
    BY <1>1, <1>5 DEF Accounting, Filling, FillingPhases
  <2>2. /\ NumBlocks * BlockSize + Len(buffer) = Len(hashed)
        /\ buffer = SubSeq(hashed, NumBlocks * BlockSize + 1, Len(hashed))
    BY <1>3, <2>1, ConcatEmptySeq, EmptySeq, SMTT(30) DEF Filling
  <2>3. hashed' = hashed \o chunk /\ Len(hashed') = Len(hashed) + Len(chunk)
    BY <1>1, <1>2, <1>3, <1>5, ConcatProperties
  <2>4. buffer' \o data' = SubSeq(hashed', NumBlocks * BlockSize + 1, Len(hashed'))
    <3>1. NumBlocks * BlockSize \in 0 .. Len(hashed)
      BY <1>3, <2>2
    <3> QED
      BY <1>1, <1>2, <1>3, <2>2, <2>3, <3>1, SuffixConcat
  <2>5. \A j \in 1 .. NumBlocks : BlockAt(wire', hashed', j)
    <3>1. NumBlocks * BlockSize <= Len(hashed)
      BY <1>3, <2>2
    <3> QED
      BY <1>1, <1>2, <1>3, <2>1, <2>3, <3>1, BlocksGrow DEF Filling
  <2>6. NumBlocks' = NumBlocks
    BY <1>1 DEF NumBlocks
  <2>7. hashed' = SubSeq(Input, 1, given')
    BY <1>1, <1>2, <2>1, <2>3 DEF Filling
  <2>8. NumBlocks * BlockSize + Len(buffer') + Len(data') = Len(hashed')
    BY <1>1, <1>2, <1>3, <2>2, <2>3
  <2>9. Filling'
    BY <1>1, <1>5, <2>1, <2>4, <2>5, <2>6, <2>7, <2>8 DEF Filling
  <2> QED
    BY <1>1, <1>5, <2>9 DEF Accounting, EndPhases
<1> QED
  BY <1>4, <1>5

LEMMA WriteHeaderAccounting ==
  ASSUME TypeOK, Accounting, WriteHeader
  PROVE  Accounting'
<1>1. Unwritten
  BY DEF Accounting, WriteHeader
<1>2. /\ wire = <<>> /\ buffer' = <<>> /\ hashed = <<>> /\ data' = data /\ given' = given
      /\ data = SubSeq(Input, 1, given)
      /\ wire' = Append(wire, HeaderCell(StreamChecksum)) /\ headerWritten' = TRUE
      /\ hashed' = hashed \o data /\ finishing' = finishing
      /\ pc' = IF finishing THEN "tail" ELSE "fill"
      /\ finishing => data = <<>>
  BY <1>1 DEF WriteHeader, Unwritten
<1>3. wire' = <<HeaderCell(StreamChecksum)>> /\ Len(wire') = 1
      /\ wire'[1] = HeaderCell(StreamChecksum) /\ NumBlocks' = 0
  BY <1>2 DEF NumBlocks
<1>4. data \in Seq(Byte) /\ Len(data) \in Nat /\ BlockSize \in Nat \ {0} /\ finishing \in BOOLEAN
  BY Lengths
<1>5. hashed' = data /\ buffer' \o data' = data /\ SubSeq(data, 1, Len(data)) = data
  BY <1>2, <1>4, ConcatEmptySeq, SubSeqFull
<1>6. 0 * BlockSize = 0
  BY <1>4
<1>7. Len(buffer') = 0
  BY <1>2, EmptySeq
<1>8. Filling'
  BY <1>2, <1>3, <1>4, <1>5, <1>6, <1>7 DEF Filling
<1> QED
  BY <1>2, <1>8 DEF Accounting, EndPhases

LEMMA FillAccounting ==
  ASSUME TypeOK, Accounting, Fill
  PROVE  Accounting'
<1> DEFINE front == SubSeq(data, 1, Copied)
<1>1. /\ pc = "fill" /\ data # <<>> /\ buffer' = buffer \o front /\ data' = Uncopied
      /\ pc' = IF Len(buffer) + Copied = BlockSize THEN "flush" ELSE "fill"
      /\ UNCHANGED <<finishing, given, hashed, headerWritten, wire>>
  BY DEF Fill
<1>2. headerWritten /\ Filling
  BY <1>1 DEF Accounting, Unwritten, FillingPhases
<1>3. /\ Copied \in 0 .. Len(data) /\ Len(buffer) + Copied <= BlockSize
      /\ front \in Seq(Byte) /\ Len(front) = Copied
      /\ Uncopied \in Seq(Byte)
  BY <1>1, CopiedType
<1>4. /\ Len(buffer) \in Nat /\ Len(data) \in Nat /\ buffer \in Seq(Byte)
      /\ data \in Seq(Byte) /\ BlockSize \in Nat \ {0} /\ hashed \in Seq(Byte)
      /\ NumBlocks * BlockSize \in Nat /\ Len(hashed) \in Nat
  BY Lengths, NumBlocksIsNat, Products
<1>5. front \o Uncopied = data
  <2>1. 1 \in 1 .. Len(data) + 1 /\ Copied \in 1 - 1 .. Len(data) /\ Len(data) \in Copied .. Len(data)
    BY <1>3, <1>4
  <2>2. front \o Uncopied = SubSeq(data, 1, Len(data))
    BY <1>4, <2>1, ConcatAdjacentSubSeq DEF Uncopied
  <2> QED
    BY <1>4, <2>2, SubSeqFull
<1> HIDE DEF front
<1>6. Len(buffer') = Len(buffer) + Copied
  BY <1>1, <1>3, <1>4, ConcatProperties
<1>7. buffer' \o data' = buffer \o data
  <2>1. (buffer \o front) \o Uncopied = buffer \o (front \o Uncopied)
    <3>1. buffer \in Seq(Byte) /\ front \in Seq(Byte) /\ Uncopied \in Seq(Byte)
      BY <1>3, <1>4
    <3> QED
      BY <3>1, Associative
  <2> QED
    BY <1>1, <1>5, <2>1
<1>8. Len(front) + Len(Uncopied) = Len(data) /\ Len(Uncopied) \in Nat
  BY <1>3, <1>5, ConcatProperties, LenProperties
<1>9. NumBlocks' = NumBlocks
  BY <1>1 DEF NumBlocks
<1>10. NumBlocks * BlockSize + Len(buffer') + Len(data') = Len(hashed)
  <2>1. NumBlocks * BlockSize + Len(buffer) + Len(data) = Len(hashed)
    BY <1>2 DEF Filling
  <2>2. Len(data') = Len(Uncopied) /\ Copied \in Nat
    BY <1>1, <1>3
  <2> QED
    BY <1>3, <1>4, <1>6, <1>8, <2>1, <2>2
<1>11. pc' = "flush" => Len(buffer') = BlockSize
  BY <1>1, <1>6
<1>12. pc' = "fill" => Len(buffer') < BlockSize
  BY <1>1, <1>3, <1>4, <1>6
<1>13. ~finishing
  BY <1>1, <1>2 DEF Filling
<1>14. Filling'
  <2>1. pc' \in {"fill", "flush"} /\ finishing' = finishing
    BY <1>1
  <2>2. pc' = "flush" => Len(buffer') > 0 /\ ~(Len(buffer') < BlockSize)
    BY <1>4, <1>11
  <2>3. buffer' \o data' = SubSeq(hashed', NumBlocks' * BlockSize + 1, Len(hashed'))
    BY <1>1, <1>2, <1>7, <1>9 DEF Filling
  <2>4. \A j \in 1 .. NumBlocks' : BlockAt(wire', hashed', j)
    BY <1>1, <1>2, <1>9 DEF Filling
  <2>5. /\ Len(wire') = 2 * NumBlocks' + (IF pc' = "payload" THEN 2 ELSE 1)
        /\ wire'[1] = HeaderCell(StreamChecksum)
        /\ hashed' = SubSeq(Input, 1, given')
    BY <1>1, <1>2, <1>9, <2>1 DEF Filling
  <2>6. NumBlocks' * BlockSize + Len(buffer') + Len(data') = Len(hashed')
    BY <1>1, <1>9, <1>10
  <2> QED
    BY <1>12, <1>13, <2>1, <2>2, <2>3, <2>4, <2>5, <2>6 DEF Filling
<1> QED
  BY <1>1, <1>2, <1>14 DEF Accounting, EndPhases

(* The calls and decisions that move no data.                              *)
LEMMA QuietAccounting ==
  ASSUME TypeOK, Accounting, Finish \/ Abandon \/ ChunkDone
  PROVE  Accounting'
<1>1. UNCHANGED <<given, data, buffer, hashed, headerWritten, wire>> /\ NumBlocks' = NumBlocks
  BY DEF Finish, Abandon, ChunkDone, NumBlocks
<1>2. CASE Finish
  <2>1. /\ pc = "idle" /\ finishing' = TRUE
        /\ pc' = IF headerWritten THEN "tail" ELSE "header"
    BY <1>2 DEF Finish, MayCall
  <2>2. CASE headerWritten
    <3>1. Filling /\ data = <<>>
      BY <2>1, <2>2 DEF Accounting, Filling, FillingPhases
    <3>2. Filling'
      BY <1>1, <2>1, <2>2, <3>1 DEF Filling
    <3> QED
      BY <1>1, <2>1, <2>2, <3>2 DEF Accounting, EndPhases
  <2>3. CASE ~headerWritten
    BY <1>1, <2>1, <2>3 DEF Accounting, Unwritten, EndPhases
  <2> QED
    BY <2>2, <2>3
<1>3. CASE Abandon
  BY <1>1, <1>3 DEF Abandon, Accounting, Unwritten, FillingPhases, EndPhases
<1>4. CASE ChunkDone
  <2>1. pc = "fill" /\ data = <<>> /\ pc' = "idle" /\ finishing' = finishing
    BY <1>4 DEF ChunkDone
  <2>2. headerWritten /\ Filling
    BY <2>1 DEF Accounting, Unwritten, FillingPhases
  <2>3. Filling'
    BY <1>1, <2>1, <2>2 DEF Filling
  <2> QED
    BY <1>1, <2>1, <2>2, <2>3 DEF Accounting, EndPhases
<1> QED
  BY <1>2, <1>3, <1>4

LEMMA FlushBlockAccounting ==
  ASSUME IInv, Accounting, FlushBlock
  PROVE  Accounting'
<1>1. /\ pc = "flush" /\ pc' = "blockHeader"
      /\ UNCHANGED <<finishing, given, data, buffer, hashed, headerWritten, wire>>
  BY DEF FlushBlock
<1>2. headerWritten /\ Filling /\ NumBlocks' = NumBlocks
  BY <1>1 DEF Accounting, Unwritten, FillingPhases, NumBlocks
<1>3. finishing \in BOOLEAN /\ (finishing <=> Len(buffer) < BlockSize)
  BY <1>1, <1>2 DEF IInv, TypeOK, Filling
<1>4. finishing = (Len(buffer) < BlockSize)
  BY <1>3
<1>5. PICK size \in CandidateSizes :
        LET c == Choice(level, Len(buffer), size) IN
        pending' = BlockCell(IF c = "Raw" THEN c ELSE TypeOf(c), finishing,
                             SizeOf(c, Len(buffer), size), Len(buffer),
                             IF BlockChecksum THEN buffer ELSE Absent)
  BY DEF FlushBlock
<1>6. /\ pending'.kind = "block" /\ pending'.usize = Len(buffer)
      /\ pending'.crc = (IF BlockChecksum THEN buffer ELSE Absent)
      /\ pending'.last = finishing
  BY <1>5 DEF BlockCell
<1>7. HeaderOf(pending', buffer')
  BY <1>1, <1>4, <1>6 DEF HeaderOf
<1>8. Filling'
  BY <1>1, <1>2, <1>7 DEF Filling
<1> QED
  BY <1>1, <1>2, <1>8 DEF Accounting, EndPhases

LEMMA WriteBlockHeaderAccounting ==
  ASSUME IInv, Accounting, WriteBlockHeader
  PROVE  Accounting'
<1>1. /\ pc = "blockHeader" /\ pc' = "payload" /\ wire' = Append(wire, pending)
      /\ UNCHANGED <<finishing, given, data, buffer, hashed, headerWritten, pending>>
  BY DEF WriteBlockHeader
<1>2. headerWritten /\ Filling
  BY <1>1 DEF Accounting, Unwritten, FillingPhases
<1>3. wire \in Seq(Cells) /\ pending \in Cells /\ NumBlocks \in Nat /\ Len(wire) = 2 * NumBlocks + 1
  BY <1>1, <1>2, NumBlocksIsNat, Lengths DEF IInv, Filling, Cells
<1>4. /\ \A j \in 1 .. NumBlocks : BlockAt(wire', hashed, j)
      /\ wire'[1] = wire[1]
      /\ Len(wire') = Len(wire) + 1 /\ wire'[Len(wire) + 1] = pending
  <2>1. 2 * NumBlocks + 1 <= Len(wire)
    BY <1>3
  <2>2. \A j \in 1 .. NumBlocks : BlockAt(wire, hashed, j)
    BY <1>2 DEF Filling
  <2>3. /\ \A j \in 1 .. NumBlocks : BlockAt(Append(wire, pending), hashed, j)
        /\ Append(wire, pending)[1] = wire[1]
        /\ Len(Append(wire, pending)) = Len(wire) + 1
        /\ Append(wire, pending)[Len(wire) + 1] = pending
    BY <1>3, <2>1, <2>2, BlocksStay
  <2> QED
    BY <1>1, <2>3
<1>5. NumBlocks' = NumBlocks
  <2>1. wire' \in Seq(Cells) /\ Len(wire') = 2 * NumBlocks + 2
    BY <1>1, <1>3, <1>4, AppendProperties
  <2>2. (IF wire' = <<>> THEN 0 ELSE (Len(wire') - 1) \div 2) = NumBlocks
    BY <1>3, <2>1, BlocksOnWire
  <2> QED
    BY <2>2 DEF NumBlocks
<1>6. HeaderOf(wire'[Len(wire')], buffer')
  BY <1>1, <1>2, <1>4 DEF Filling
<1>7. Len(wire') = 2 * NumBlocks' + 2
  BY <1>3, <1>4, <1>5
<1>8. Filling'
  BY <1>1, <1>2, <1>4, <1>5, <1>6, <1>7 DEF Filling
<1> QED
  BY <1>1, <1>2, <1>8 DEF Accounting, EndPhases

LEMMA WritePayloadAccounting ==
  ASSUME IInv, Accounting, WritePayload
  PROVE  Accounting'
<1> DEFINE N == NumBlocks
<1>1. /\ pc = "payload" /\ wire' = Append(wire, PayloadCell(buffer)) /\ buffer' = <<>>
      /\ pc' = IF finishing THEN "eos" ELSE "fill"
      /\ UNCHANGED <<finishing, given, data, hashed, headerWritten>>
  BY DEF WritePayload
<1>2. headerWritten /\ Filling
  BY <1>1 DEF Accounting, Unwritten, FillingPhases
<1>3. TypeOK
  BY DEF IInv
<1>4. /\ N \in Nat /\ N * BlockSize \in Nat /\ (N + 1) * BlockSize = N * BlockSize + BlockSize
      /\ BlockSize \in Nat \ {0} /\ Len(buffer) \in Nat /\ Len(data) \in Nat
      /\ Len(hashed) \in Nat /\ finishing \in BOOLEAN
      /\ hashed \in Seq(Byte) /\ buffer \in Seq(Byte) /\ data \in Seq(Byte)
      /\ Len(buffer) <= BlockSize
  BY <1>3, NumBlocksIsNat, Products, Lengths
<1>5. /\ Len(wire) = 2 * N + 2
      /\ N * BlockSize + Len(buffer) + Len(data) = Len(hashed)
      /\ Len(buffer) > 0 /\ (finishing <=> Len(buffer) < BlockSize)
      /\ finishing => data = <<>>
      /\ HeaderOf(wire[Len(wire)], buffer)
      /\ wire[1] = HeaderCell(StreamChecksum)
      /\ \A j \in 1 .. N : BlockAt(wire, hashed, j)
      /\ buffer \o data = SubSeq(hashed, N * BlockSize + 1, Len(hashed))
      /\ hashed = SubSeq(Input, 1, given)
  BY <1>1, <1>2 DEF Filling
<1>6. /\ buffer = SubSeq(hashed, N * BlockSize + 1, N * BlockSize + Len(buffer))
      /\ data = SubSeq(hashed, N * BlockSize + Len(buffer) + 1, Len(hashed))
  <2> DEFINE p == N * BlockSize
  <2>1. p \in Nat /\ p + Len(buffer) + Len(data) = Len(hashed)
        /\ buffer \o data = SubSeq(hashed, p + 1, Len(hashed))
        /\ hashed \in Seq(Byte) /\ buffer \in Seq(Byte) /\ data \in Seq(Byte)
    BY <1>4, <1>5
  <2> HIDE DEF p
  <2>2. /\ buffer = SubSeq(hashed, p + 1, p + Len(buffer))
        /\ data = SubSeq(hashed, p + Len(buffer) + 1, Len(hashed))
    BY <2>1, SplitSuffix, Zenon
  <2> QED
    BY <2>2 DEF p
<1>7. Slice(hashed, N + 1) = buffer
  <2>1. Slice(hashed, N + 1) =
          SubSeq(hashed, N * BlockSize + 1,
                 IF (N + 1) * BlockSize <= Len(hashed) THEN (N + 1) * BlockSize ELSE Len(hashed))
    <3>1. (N + 1) - 1 = N
      BY <1>4
    <3> QED
      BY <3>1 DEF Slice
  <2>2. CASE finishing
    <3>1. Len(data) = 0
      BY <1>5, <2>2, EmptySeq
    <3>2. Len(hashed) = N * BlockSize + Len(buffer) /\ ~((N + 1) * BlockSize <= Len(hashed))
      BY <1>4, <1>5, <2>2, <3>1
    <3> QED
      BY <1>6, <2>1, <3>2
  <2>3. CASE ~finishing
    <3>1. Len(buffer) = BlockSize
      BY <1>4, <1>5, <2>3
    <3>2. (N + 1) * BlockSize <= Len(hashed) /\ (N + 1) * BlockSize = N * BlockSize + Len(buffer)
      BY <1>4, <1>5, <3>1
    <3> QED
      BY <1>6, <2>1, <3>2
  <2> QED
    BY <1>4, <2>2, <2>3
<1>8. wire \in Seq(Cells) /\ PayloadCell(buffer) \in Cells /\ Len(wire) \in Nat
  BY <1>3, <1>4, Lengths, OtherCells
<1>9. /\ \A j \in 1 .. N : BlockAt(wire', hashed, j)
      /\ wire'[1] = wire[1]
      /\ Len(wire') = Len(wire) + 1 /\ wire'[Len(wire) + 1] = PayloadCell(buffer)
      /\ wire' \in Seq(Cells)
  <2>1. 2 * N + 1 <= Len(wire)
    BY <1>4, <1>5
  <2>2. /\ \A j \in 1 .. N : BlockAt(Append(wire, PayloadCell(buffer)), hashed, j)
        /\ Append(wire, PayloadCell(buffer))[1] = wire[1]
        /\ Len(Append(wire, PayloadCell(buffer))) = Len(wire) + 1
        /\ Append(wire, PayloadCell(buffer))[Len(wire) + 1] = PayloadCell(buffer)
    BY <1>4, <1>5, <1>8, <2>1, BlocksStay
  <2> QED
    BY <1>1, <1>8, <2>2, AppendProperties
<1>10. BlockAt(wire', hashed, N + 1)
  <2>1. Len(wire) \in 1 .. Len(wire)
    BY <1>4, <1>5, <1>8
  <2>2. wire'[Len(wire)] = wire[Len(wire)]
    BY <1>1, <1>8, <2>1, AppendProperties
  <2>3. 2 * (N + 1) = Len(wire) /\ 2 * (N + 1) + 1 = Len(wire) + 1
    BY <1>4, <1>5
  <2>4. HeaderOf(wire'[2 * (N + 1)], buffer) /\ wire'[2 * (N + 1) + 1] = PayloadCell(buffer)
    BY <1>5, <1>9, <2>2, <2>3
  <2> QED
    BY <1>7, <2>4 DEF BlockAt
<1>11. \A j \in 1 .. N + 1 : BlockAt(wire', hashed, j)
  <2> SUFFICES ASSUME NEW j \in 1 .. N + 1 PROVE BlockAt(wire', hashed, j)
    OBVIOUS
  <2>1. j \in 1 .. N \/ j = N + 1
    BY <1>4
  <2> QED
    BY <1>9, <1>10, <2>1
<1>12. N + 1 \in Nat /\ Len(wire') = 2 * (N + 1) + 1
  BY <1>4, <1>5, <1>8, <1>9
<1>13. CASE finishing
  <2>1. Len(hashed) = N * BlockSize + Len(buffer)
    <3>1. Len(data) = 0
      BY <1>5, <1>13, EmptySeq
    <3> QED
      BY <1>4, <1>5, <3>1
  <2>2. BlockCount = N + 1
    <3>1. Len(buffer) - 1 \in 0 .. BlockSize - 1
      BY <1>4, <1>5
    <3>2. Len(hashed) + BlockSize - 1 = (N + 1) * BlockSize + (Len(buffer) - 1)
      BY <1>4, <2>1
    <3>3. ((N + 1) * BlockSize + (Len(buffer) - 1)) \div BlockSize = N + 1
      BY <1>4, <1>12, <3>1, Quotient
    <3> QED
      BY <3>2, <3>3 DEF BlockCount
  <2>3. BlockCount' = BlockCount
    BY <1>1 DEF BlockCount
  <2> HIDE DEF N
  <2>4. Completing'
    BY <1>1, <1>5, <1>9, <1>11, <1>12, <1>13, <2>2, <2>3 DEF Completing
  <2> QED
    BY <1>1, <1>2, <1>13, <2>4 DEF Accounting, FillingPhases
<1>14. CASE ~finishing
  <2>1. NumBlocks' = N + 1
    <3>1. (IF wire' = <<>> THEN 0 ELSE (Len(wire') - 1) \div 2) = N + 1
      BY <1>9, <1>12, BlocksOnWire
    <3> QED
      BY <3>1 DEF NumBlocks
  <2>2. Len(buffer) = BlockSize /\ Len(buffer') = 0 /\ buffer' \o data' = data
    BY <1>1, <1>4, <1>5, <1>14, EmptySeq, ConcatEmptySeq
  <2>3. /\ (N + 1) * BlockSize + Len(buffer') + Len(data') = Len(hashed')
        /\ data = SubSeq(hashed, (N + 1) * BlockSize + 1, Len(hashed))
    <3>1. (N + 1) * BlockSize = N * BlockSize + Len(buffer)
      BY <1>4, <2>2
    <3>2. data = SubSeq(hashed, (N + 1) * BlockSize + 1, Len(hashed))
      BY <1>6, <3>1
    <3>3. (N + 1) * BlockSize + Len(buffer') + Len(data') = Len(hashed')
      <4> DEFINE p == N * BlockSize
                 q == (N + 1) * BlockSize
      <4>1. /\ q = p + Len(buffer) /\ p \in Nat
            /\ p + Len(buffer) + Len(data) = Len(hashed)
            /\ Len(data) \in Nat /\ Len(buffer) \in Nat /\ Len(buffer') = 0
            /\ Len(data') = Len(data) /\ Len(hashed') = Len(hashed)
        BY <1>1, <1>4, <1>5, <2>2, <3>1
      <4> HIDE DEF p, q
      <4>2. q + Len(buffer') + Len(data') = Len(hashed')
        BY <4>1
      <4> QED
        BY <4>2 DEF q
    <3> QED
      BY <3>2, <3>3
  <2> HIDE DEF N
  <2>4. NumBlocks' * BlockSize + Len(buffer') + Len(data') = Len(hashed')
    BY <2>1, <2>3
  <2>5. buffer' \o data' = SubSeq(hashed', NumBlocks' * BlockSize + 1, Len(hashed'))
    BY <1>1, <2>1, <2>2, <2>3
  <2>6. \A j \in 1 .. NumBlocks' : BlockAt(wire', hashed', j)
    BY <1>1, <1>11, <2>1
  <2>7. Len(wire') = 2 * NumBlocks' + 1 /\ Len(buffer') < BlockSize
    BY <1>4, <1>12, <2>1, <2>2
  <2>8. Filling'
    BY <1>1, <1>5, <1>9, <1>14, <2>4, <2>5, <2>6, <2>7 DEF Filling
  <2> QED
    BY <1>1, <1>2, <1>14, <2>8 DEF Accounting, EndPhases
<1> QED
  BY <1>4, <1>13, <1>14

LEMMA FlushTailAccounting ==
  ASSUME IInv, Accounting, FlushTail
  PROVE  Accounting'
<1>1. /\ pc = "tail" /\ pc' = IF buffer # <<>> THEN "flush" ELSE "eos"
      /\ UNCHANGED <<finishing, given, data, buffer, hashed, headerWritten, wire>>
  BY DEF FlushTail, HasTail
<1>2. headerWritten /\ Filling /\ NumBlocks' = NumBlocks /\ BlockCount' = BlockCount
  BY <1>1 DEF Accounting, Unwritten, FillingPhases, NumBlocks, BlockCount
<1>3. /\ finishing /\ data = <<>> /\ Len(buffer) < BlockSize
      /\ Len(wire) = 2 * NumBlocks + 1
      /\ NumBlocks * BlockSize + Len(buffer) + Len(data) = Len(hashed)
  BY <1>1, <1>2 DEF Filling
<1>4. /\ Len(buffer) \in Nat /\ buffer \in Seq(Byte) /\ NumBlocks \in Nat
      /\ NumBlocks * BlockSize \in Nat /\ BlockSize \in Nat \ {0}
  BY Lengths, NumBlocksIsNat, Products DEF IInv
<1>5. CASE buffer # <<>>
  <2>1. Len(buffer) > 0
    BY <1>4, <1>5, EmptySeq
  <2>2. Filling'
    BY <1>1, <1>2, <1>3, <1>5, <2>1 DEF Filling
  <2> QED
    BY <1>1, <1>2, <1>5, <2>2 DEF Accounting, EndPhases
<1>6. CASE buffer = <<>>
  <2>1. Len(buffer) = 0 /\ Len(data) = 0
    BY <1>3, <1>6, EmptySeq
  <2>2. Len(hashed) + BlockSize - 1 = NumBlocks * BlockSize + (BlockSize - 1)
    BY <1>3, <1>4, <2>1
  <2>3. BlockSize - 1 \in 0 .. BlockSize - 1
    BY <1>4
  <2>4. (NumBlocks * BlockSize + (BlockSize - 1)) \div BlockSize = NumBlocks
    BY <1>4, <2>3, Quotient
  <2>5. BlockCount = NumBlocks
    BY <2>2, <2>4 DEF BlockCount
  <2>6. Completing'
    BY <1>1, <1>2, <1>3, <1>6, <2>5 DEF Completing, Filling
  <2> QED
    BY <1>1, <1>2, <1>6, <2>6 DEF Accounting, FillingPhases
<1> QED
  BY <1>5, <1>6

(* BlockCount is a number, and a cell behind the blocks leaves them alone. *)
LEMMA CompletingAppend ==
  ASSUME TypeOK, Completing, NEW c \in Cells
  PROVE  /\ BlockCount \in Nat
         /\ Append(wire, c)[1] = wire[1]
         /\ Len(Append(wire, c)) = Len(wire) + 1
         /\ Append(wire, c)[Len(wire) + 1] = c
         /\ \A i \in 1 .. Len(wire) : Append(wire, c)[i] = wire[i]
         /\ \A j \in 1 .. BlockCount : BlockAt(Append(wire, c), hashed, j)
<1>1. /\ wire \in Seq(Cells) /\ Len(wire) \in Nat /\ Len(hashed) \in Nat
      /\ BlockSize \in Nat \ {0}
  BY Lengths
<1>2. BlockCount \in Nat
  <2>1. Len(hashed) + BlockSize - 1 \in Nat
    BY <1>1
  <2> QED
    BY <1>1, <2>1 DEF BlockCount
<1>3. 2 * BlockCount + 1 <= Len(wire)
  BY <1>2 DEF Completing
<1>4. \A j \in 1 .. BlockCount : BlockAt(wire, hashed, j)
  BY DEF Completing
<1>5. /\ \A j \in 1 .. BlockCount : BlockAt(Append(wire, c), hashed, j)
      /\ Append(wire, c)[1] = wire[1]
      /\ Len(Append(wire, c)) = Len(wire) + 1
      /\ Append(wire, c)[Len(wire) + 1] = c
  BY <1>1, <1>2, <1>3, <1>4, BlocksStay
<1> QED
  BY <1>1, <1>2, <1>5, AppendProperties

LEMMA EndingAccounting ==
  ASSUME IInv, Accounting, WriteEndOfStream \/ WriteStreamChecksum \/ FlushWriter
  PROVE  Accounting'
<1>0. TypeOK /\ StreamChecksum \in BOOLEAN /\ hashed \in Seq(Byte) /\ Len(wire) \in Nat
  BY Lengths DEF IInv
<1>1. /\ pc \in {"eos", "hash", "sync"} /\ pc' \in {"hash", "sync", "closed"}
      /\ UNCHANGED <<given, data, buffer, hashed, headerWritten>>
  BY DEF WriteEndOfStream, WriteStreamChecksum, FlushWriter
<1>2. headerWritten /\ Completing /\ BlockCount' = BlockCount
  BY <1>1 DEF Accounting, Unwritten, EndPhases, BlockCount
<1>3. BlockCount \in Nat
  BY <1>0, <1>2, OtherCells, EmptySeq, CompletingAppend
<1>4. SUFFICES Completing'
  BY <1>1, <1>2, <1>4 DEF Accounting, FillingPhases
<1>5. CASE WriteEndOfStream
  <2>1. /\ pc = "eos" /\ wire' = Append(wire, EndCell) /\ EndCell \in Cells
        /\ pc' = IF StreamChecksum THEN "hash" ELSE "sync"
    BY <1>5, EmptySeq, OtherCells DEF WriteEndOfStream
  <2>2. Len(wire) = 2 * BlockCount + 1 /\ wire[1] = HeaderCell(StreamChecksum)
    BY <1>2, <2>1 DEF Completing
  <2>3. /\ wire'[1] = wire[1] /\ Len(wire') = 2 * BlockCount + 2
        /\ wire'[2 * BlockCount + 2] = EndCell
        /\ \A j \in 1 .. BlockCount : BlockAt(wire', hashed, j)
    <3>1. Len(wire) + 1 = 2 * BlockCount + 2
      BY <1>3, <2>2
    <3> QED
      BY <1>0, <1>2, <2>1, <3>1, CompletingAppend
  <2> QED
    BY <1>0, <1>1, <1>2, <2>1, <2>2, <2>3 DEF Completing
<1>6. CASE WriteStreamChecksum
  <2>1. /\ pc = "hash" /\ pc' = "sync" /\ wire' = Append(wire, HashCell(hashed))
        /\ HashCell(hashed) \in Cells
    BY <1>0, <1>6, OtherCells DEF WriteStreamChecksum
  <2>2. /\ Len(wire) = 2 * BlockCount + 2 /\ wire[1] = HeaderCell(StreamChecksum)
        /\ wire[2 * BlockCount + 2] = EndCell /\ StreamChecksum
    BY <1>2, <2>1 DEF Completing
  <2>3. /\ wire'[1] = wire[1] /\ Len(wire') = 2 * BlockCount + 3
        /\ wire'[2 * BlockCount + 3] = HashCell(hashed)
        /\ wire'[2 * BlockCount + 2] = EndCell
        /\ \A j \in 1 .. BlockCount : BlockAt(wire', hashed, j)
    <3>1. Len(wire) + 1 = 2 * BlockCount + 3 /\ 2 * BlockCount + 2 \in 1 .. Len(wire)
      BY <1>3, <2>2
    <3> QED
      BY <1>0, <1>2, <2>1, <2>2, <3>1, CompletingAppend
  <2> QED
    BY <1>1, <1>2, <2>1, <2>2, <2>3 DEF Completing
<1>7. CASE FlushWriter
  BY <1>1, <1>2, <1>7 DEF FlushWriter, Completing
<1> QED
  BY <1>5, <1>6, <1>7

LEMMA NextAInv == AInv /\ [Next]_vars => AInv'
<1> SUFFICES ASSUME AInv, [Next]_vars PROVE AInv'
  OBVIOUS
<1>1. IInv /\ TypeOK /\ IInv'
  BY NextIInv DEF AInv, IInv
<1>2. CASE UNCHANGED vars \/ Gone
  <2>1. UNCHANGED <<pc, finishing, given, data, buffer, hashed, headerWritten,
                    pending, result, errors, wire>>
    BY <1>2 DEF vars, Gone
  <2>2. NumBlocks' = NumBlocks /\ BlockCount' = BlockCount
    BY <2>1 DEF NumBlocks, BlockCount
  <2>3. Unwritten => Unwritten'
    BY <2>1 DEF Unwritten
  <2>4. Filling => Filling'
    BY <2>1, <2>2 DEF Filling
  <2>5. Completing => Completing'
    BY <2>1, <2>2 DEF Completing
  <2>6. Accounting => Accounting'
    BY <2>1, <2>3, <2>4, <2>5 DEF Accounting
  <2> QED
    BY <1>1, <2>1, <2>6 DEF AInv
<1>3. CASE WriteFails
  BY <1>1, <1>3 DEF WriteFails, AInv, TypeOK
<1>4. CASE errors > 0 /\ Next /\ ~WriteFails
  <2>1. errors' = errors
    BY <1>4 DEF Next, WriteChunk, Finish, Abandon, WriteHeader, Fill, ChunkDone,
      FlushBlock, WriteBlockHeader, WritePayload, FlushTail, WriteEndOfStream,
      WriteStreamChecksum, FlushWriter, Gone, vars
  <2>2. ASSUME ~RetryAfterError, pc = "dropped" \/ (pc = "idle" /\ result = "err")
        PROVE  pc' = "dropped" \/ (pc' = "idle" /\ result' = "err")
    BY <1>4, <2>2 DEF Next, MayCall, WriteChunk, Finish, Abandon, WriteHeader, Fill,
      ChunkDone, FlushBlock, WriteBlockHeader, WritePayload, FlushTail,
      WriteEndOfStream, WriteStreamChecksum, FlushWriter, Gone, vars
  <2> QED
    BY <1>1, <1>4, <2>1, <2>2 DEF AInv, TypeOK
<1>5. CASE errors = 0 /\ Next /\ ~WriteFails /\ ~Gone
  <2>1. Accounting
    BY <1>5 DEF AInv
  <2>2. errors' = errors
    BY <1>5 DEF Next, WriteChunk, Finish, Abandon, WriteHeader, Fill, ChunkDone,
      FlushBlock, WriteBlockHeader, WritePayload, FlushTail, WriteEndOfStream,
      WriteStreamChecksum, FlushWriter
  <2>3. Accounting'
    BY <1>1, <1>5, <2>1, WriteChunkAccounting, WriteHeaderAccounting, FillAccounting,
      QuietAccounting, FlushBlockAccounting, WriteBlockHeaderAccounting,
      WritePayloadAccounting, FlushTailAccounting, EndingAccounting DEF Next
  <2> QED
    BY <1>1, <1>5, <2>2, <2>3 DEF AInv
<1>6. errors = 0 \/ errors > 0
  BY <1>1, OptionsAssumption DEF TypeOK
<1> QED
  BY <1>2, <1>3, <1>4, <1>5, <1>6

LEMMA SpecAInv == Spec => []AInv
BY InitAInv, NextAInv, PTL DEF Spec

-----------------------------------------------------------------------------
(* What was digested is a prefix of the input, so that its full blocks and *)
(* its rest are those of the input.                                        *)
LEMMA AccountedFromAInv == AInv => InputAccounted
<1> SUFFICES ASSUME AInv, errors = 0, headerWritten, pc \notin Ending
             PROVE  /\ hashed = SubSeq(Input, 1, given)
                    /\ NumBlocks * BlockSize + Len(buffer) + Len(data) = given
                    /\ buffer \o data = SubSeq(Input, NumBlocks * BlockSize + 1, given)
                    /\ \A j \in 1 .. NumBlocks : wire[2 * j + 1] = PayloadCell(Slice(Input, j))
  BY DEF InputAccounted
<1>1. TypeOK /\ Accounting
  BY DEF AInv, IInv
<1>2. Filling
  BY <1>1 DEF Accounting, TypeOK, Phases, Ending, FillingPhases
<1>3. /\ Input \in Seq(Byte) /\ Len(Input) \in Nat /\ given \in 0 .. Len(Input)
      /\ hashed \in Seq(Byte) /\ Len(hashed) \in Nat /\ NumBlocks \in Nat
      /\ NumBlocks * BlockSize \in Nat /\ Len(buffer) \in Nat /\ Len(data) \in Nat
  BY <1>1, Lengths, NumBlocksIsNat, Products
<1>4. hashed = SubSeq(Input, 1, given) /\ Len(hashed) = given
  <2>1. 0 \in 0 .. Len(Input) - given
    BY <1>3
  <2> QED
    BY <1>1, <1>2, <2>1, HandOver DEF Filling
<1>5. /\ NumBlocks * BlockSize + Len(buffer) + Len(data) = given
      /\ buffer \o data = SubSeq(hashed, NumBlocks * BlockSize + 1, given)
      /\ \A j \in 1 .. NumBlocks : BlockAt(wire, hashed, j)
  BY <1>2, <1>4 DEF Filling
<1> DEFINE rest == SubSeq(Input, given + 1, Len(Input))
           p == NumBlocks * BlockSize
<1>6. p \in Nat /\ p <= given
  BY <1>3, <1>5
<1>7. rest \in Seq(Byte) /\ Input = hashed \o rest
  <2>1. /\ given + 1 \in Nat \ {0} /\ Len(Input) \in 0 .. Len(Input)
        /\ 1 \in 1 .. Len(Input) + 1 /\ given \in 1 - 1 .. Len(Input)
        /\ Len(Input) \in given .. Len(Input)
    BY <1>3
  <2>2. rest \in Seq(Byte)
    BY <1>3, <2>1, SliceType
  <2>3. SubSeq(Input, 1, given) \o rest = SubSeq(Input, 1, Len(Input))
    BY <1>3, <2>1, ConcatAdjacentSubSeq
  <2>4. SubSeq(Input, 1, Len(Input)) = Input
    BY <1>3, SubSeqFull
  <2> QED
    BY <1>4, <2>2, <2>3, <2>4
<1> HIDE DEF rest
<1>8. ASSUME NEW j \in 1 .. NumBlocks PROVE wire[2 * j + 1] = PayloadCell(Slice(Input, j))
  <2>1. NumBlocks * BlockSize <= Len(hashed)
    BY <1>4, <1>6
  <2>2. Slice(hashed \o rest, j) = Slice(hashed, j)
    BY <1>3, <1>7, <2>1, SliceStays
  <2> QED
    BY <1>5, <1>7, <2>2 DEF BlockAt
<1> HIDE DEF p
<1>9. SubSeq(hashed, p + 1, given) = SubSeq(Input, p + 1, given)
  <2>1. CASE p = given
    <3>1. p + 1 \in Int /\ given \in Int /\ given < p + 1
      BY <1>3, <1>6, <2>1
    <3> QED
      BY <3>1, SubSeqEmpty
  <2>2. CASE p < given
    <3>1. p + 1 \in 1 .. Len(hashed) /\ given \in 1 .. Len(hashed)
      BY <1>3, <1>4, <1>6, <2>2
    <3> QED
      BY <1>3, <1>7, <3>1, SubSeqOfConcat1
  <2> QED
    BY <1>3, <1>6, <2>1, <2>2
<1> QED
  BY <1>4, <1>5, <1>8, <1>9 DEF p

LEMMA ContainerFromAInv == ~RetryAfterError /\ AInv => FinishedIsContainer
<1> SUFFICES ASSUME ~RetryAfterError, AInv, pc = "closed"
             PROVE  IsContainerOf(wire, hashed)
  BY DEF FinishedIsContainer
<1>1. TypeOK /\ errors = 0
  BY OptionsAssumption DEF AInv, IInv, TypeOK
<1>2. Completing
  BY <1>1 DEF AInv, Accounting, EndPhases
<1>3. StreamChecksum \in BOOLEAN
  BY OptionsAssumption
<1> QED
  BY <1>2, <1>3 DEF Completing, IsContainerOf, BlockCount, BlockAt, HeaderOf

(* As long as no write has failed, every byte that was handed to           *)
(* write_chunk is in exactly one place, in order, and was digested: for    *)
(* every input, every slicing of it and every block size.                  *)
THEOREM EncoderAccountsInput == Spec => []InputAccounted
BY SpecAInv, AccountedFromAInv, PTL

(* finish answers Ok only over the complete container of what the encoder  *)
(* digested, if its caller gives it up once write_chunk has failed.        *)
THEOREM EncoderFinishesContainer == ~RetryAfterError /\ Spec => []FinishedIsContainer
<1> SUFFICES ASSUME ~RetryAfterError PROVE Spec => []FinishedIsContainer
  OBVIOUS
<1>1. AInv => FinishedIsContainer
  BY ContainerFromAInv
<1> QED
  BY <1>1, SpecAInv, PTL

-----------------------------------------------------------------------------
(* What a reader of the wire may rely on, cell by cell.                    *)

(* finish is the last call, and between calls nothing is left to copy.     *)
Calls ==
  /\ pc \in {"idle", "fill"} => ~finishing
  /\ pc \in {"tail", "eos", "hash", "sync", "closed"} => finishing
  /\ pc = "idle" \/ finishing => data = <<>>

(* A checksum on the wire is that of all that will ever be digested.       *)
DigestsAreFinal ==
  \A i \in 1 .. Len(wire) :
    /\ wire[i].kind = "header" => wire[i].hasStreamChecksum = StreamChecksum
    /\ wire[i].kind = "hash" =>
         /\ finishing /\ pc \in {"sync", "closed", "dropped"}
         /\ wire[i].digest = hashed

(* The invariant of callers of any kind.                                   *)
CInv == IInv /\ Calls /\ DigestsAreFinal

(* A cell that is neither a stream header nor a checksum.                  *)
LEMMA AppendOther ==
  ASSUME wire \in Seq(Cells), DigestsAreFinal, NEW c \in Cells,
         wire' = Append(wire, c), c.kind \notin {"header", "hash"},
         UNCHANGED <<hashed, finishing>>,
         pc' = pc \/ pc' \in {"sync", "closed", "dropped"} \/ pc \notin {"sync", "closed", "dropped"}
  PROVE  DigestsAreFinal'
<1>1. /\ Len(wire') = Len(wire) + 1 /\ wire'[Len(wire) + 1] = c /\ Len(wire) \in Nat
      /\ \A i \in 1 .. Len(wire) : wire'[i] = wire[i]
  BY AppendProperties, LenProperties
<1>2. ASSUME NEW i \in 1 .. Len(wire')
      PROVE  i \in 1 .. Len(wire) \/ i = Len(wire) + 1
  BY <1>1
<1> QED
  BY <1>1, <1>2 DEF DigestsAreFinal

(* As long as there is no checksum on the wire, hashed may change.         *)
LEMMA NoDigestYet ==
  ASSUME DigestsAreFinal, wire' = wire, pc \notin {"sync", "closed", "dropped"}
  PROVE  DigestsAreFinal'
BY DEF DigestsAreFinal

LEMMA InitCInv == Init => CInv
<1> SUFFICES ASSUME Init PROVE CInv
  OBVIOUS
<1>1. Len(wire) = 0
  BY EmptySeq DEF Init
<1> QED
  BY <1>1, InitIInv DEF Init, CInv, Calls, DigestsAreFinal

LEMMA NextCInv == CInv /\ [Next]_vars => CInv'
<1> SUFFICES ASSUME CInv, [Next]_vars PROVE CInv'
  OBVIOUS
<1> USE DEF CInv
<1>0. IInv' /\ TypeOK /\ wire \in Seq(Cells) /\ hashed \in Seq(Byte)
      /\ StreamChecksum \in BOOLEAN /\ finishing \in BOOLEAN
  BY NextIInv, OptionsAssumption DEF IInv, TypeOK
<1>1. ASSUME NEW n \in 0 .. Len(Input) - given, WriteChunk(n) PROVE CInv'
  <2>1. DigestsAreFinal'
    BY <1>1, NoDigestYet DEF WriteChunk, MayCall
  <2> QED
    BY <1>0, <1>1, <2>1 DEF WriteChunk, MayCall, Calls
<1>2. CASE Finish \/ Abandon \/ ChunkDone \/ FlushBlock \/ FlushTail
  <2>1. DigestsAreFinal'
    BY <1>2, NoDigestYet DEF Finish, Abandon, ChunkDone, FlushBlock, FlushTail, MayCall
  <2>2. Calls'
    BY <1>2 DEF Finish, Abandon, ChunkDone, FlushBlock, FlushTail, MayCall, Calls
  <2> QED
    BY <1>0, <2>1, <2>2
<1>3. CASE WriteHeader
  <2> DEFINE c == HeaderCell(StreamChecksum)
  <2>1. /\ wire' = Append(wire, c) /\ c \in Cells
        /\ pc = "header" /\ pc' \in {"tail", "fill"}
    BY <1>0, <1>3, OtherCells DEF WriteHeader
  <2>2. c.kind = "header" /\ c.hasStreamChecksum = StreamChecksum
    BY DEF HeaderCell
  <2> HIDE DEF c
  <2>3. /\ Len(wire') = Len(wire) + 1 /\ wire'[Len(wire) + 1] = c /\ Len(wire) \in Nat
        /\ \A i \in 1 .. Len(wire) : wire'[i] = wire[i]
    BY <1>0, <2>1, AppendProperties, LenProperties
  <2>4. ASSUME NEW i \in 1 .. Len(wire')
        PROVE  i \in 1 .. Len(wire) \/ i = Len(wire) + 1
    BY <2>3
  <2>5. DigestsAreFinal'
    BY <2>1, <2>2, <2>3, <2>4 DEF DigestsAreFinal
  <2> QED
    BY <1>0, <1>3, <2>5 DEF WriteHeader, Calls
<1>4. CASE Fill
  <2>1. DigestsAreFinal'
    BY <1>4, NoDigestYet DEF Fill
  <2>2. ~finishing
    BY <1>4 DEF Fill, Calls
  <2> QED
    BY <1>0, <1>4, <2>1, <2>2 DEF Fill, Calls
<1>5. CASE WriteBlockHeader
  <2>1. pending \in Cells /\ pending.kind = "block"
    BY <1>5 DEF WriteBlockHeader, IInv, BlockHeaders, Cells
  <2>2. DigestsAreFinal'
    BY <1>0, <1>5, <2>1, AppendOther DEF WriteBlockHeader
  <2> QED
    BY <1>0, <1>5, <2>2 DEF WriteBlockHeader, Calls
<1>6. CASE WritePayload
  <2>1. PayloadCell(buffer) \in Cells /\ PayloadCell(buffer).kind = "payload"
    BY <1>0, OtherCells DEF TypeOK, PayloadCell
  <2>2. DigestsAreFinal'
    BY <1>0, <1>6, <2>1, AppendOther DEF WritePayload
  <2> QED
    BY <1>0, <1>6, <2>2 DEF WritePayload, Calls
<1>7. CASE WriteEndOfStream
  <2>1. EndCell \in Cells /\ EndCell.kind = "eos"
    BY <1>0, OtherCells DEF EndCell
  <2>2. DigestsAreFinal'
    BY <1>0, <1>7, <2>1, AppendOther DEF WriteEndOfStream
  <2> QED
    BY <1>0, <1>7, <2>2 DEF WriteEndOfStream, Calls
<1>8. CASE WriteStreamChecksum
  <2> DEFINE c == HashCell(hashed)
  <2>1. /\ wire' = Append(wire, c) /\ c \in Cells /\ finishing /\ finishing'
        /\ pc = "hash" /\ pc' = "sync" /\ hashed' = hashed
    BY <1>0, <1>8, OtherCells DEF WriteStreamChecksum, Calls
  <2>2. c.kind = "hash" /\ c.digest = hashed
    BY DEF HashCell
  <2> HIDE DEF c
  <2>3. /\ Len(wire') = Len(wire) + 1 /\ wire'[Len(wire) + 1] = c /\ Len(wire) \in Nat
        /\ \A i \in 1 .. Len(wire) : wire'[i] = wire[i]
    BY <1>0, <2>1, AppendProperties, LenProperties
  <2>4. ASSUME NEW i \in 1 .. Len(wire')
        PROVE  i \in 1 .. Len(wire) \/ i = Len(wire) + 1
    BY <2>3
  <2>5. DigestsAreFinal'
    BY <2>1, <2>2, <2>3, <2>4 DEF DigestsAreFinal
  <2> QED
    BY <1>0, <1>8, <2>5 DEF WriteStreamChecksum, Calls
<1>9. CASE FlushWriter
  BY <1>0, <1>9 DEF FlushWriter, Calls, DigestsAreFinal
<1>10. CASE WriteFails
  <2>1. /\ finishing' = finishing /\ hashed' = hashed /\ data' = <<>>
        /\ pc' = IF finishing THEN "dropped" ELSE "idle"
        /\ pc = "sync" => finishing
    BY <1>10 DEF WriteFails, Calls
  <2>2. pc # "closed" /\ pc # "dropped"
    BY <1>10 DEF WriteFails, Writing
  <2>3. CASE wire' = wire
    BY <1>0, <2>1, <2>2, <2>3 DEF Calls, DigestsAreFinal
  <2>4. CASE wire' = Append(wire, TornCell)
    <3>1. TornCell \in Cells /\ TornCell.kind = "torn"
      BY <1>0, OtherCells DEF TornCell
    <3>2. DigestsAreFinal'
      BY <1>0, <2>1, <2>2, <2>4, <3>1, AppendOther
    <3> QED
      BY <1>0, <2>1, <3>2 DEF Calls
  <2> QED
    BY <1>10, <2>3, <2>4 DEF WriteFails
<1>11. CASE Gone \/ UNCHANGED vars
  BY <1>0, <1>11 DEF Gone, vars, Calls, DigestsAreFinal
<1> QED
  BY <1>1, <1>2, <1>3, <1>4, <1>5, <1>6, <1>7, <1>8, <1>9, <1>10, <1>11 DEF Next

LEMMA SpecCInv == Spec => []CInv
BY InitCInv, NextCInv, PTL DEF Spec

-----------------------------------------------------------------------------
(* If the caller gives up after an error, the wire is a header, full       *)
(* blocks of what was digested, and at most one short block, which finish  *)
(* writes; only its last cell can be torn.                                 *)
Torn(i) == wire[i] = TornCell /\ i = Len(wire) /\ errors > 0

BlockOrEnd(j) ==
  \/ /\ HeaderOf(wire[2 * j], Slice(hashed, j))
     /\ (j - 1) * BlockSize < Len(hashed)
     /\ j * BlockSize <= Len(hashed) \/ finishing
  \/ /\ wire[2 * j] = EndCell
     /\ finishing
     /\ Len(hashed) <= (j - 1) * BlockSize
  \/ Torn(2 * j)

PayloadOrHash(j) ==
  \/ wire[2 * j].kind = "block" /\ wire[2 * j + 1] = PayloadCell(Slice(hashed, j))
  \/ wire[2 * j] = EndCell /\ wire[2 * j + 1] = HashCell(hashed)
  \/ Torn(2 * j + 1)

WireInv ==
  /\ Len(wire) >= 1 => wire[1] = HeaderCell(StreamChecksum) \/ Torn(1)
  /\ \A j \in 1 .. Len(wire) :
       /\ 2 * j <= Len(wire) => BlockOrEnd(j)
       /\ 2 * j + 1 <= Len(wire) => PayloadOrHash(j)

(* The block that is being written is the next slice of what was digested. *)
LEMMA BufferIsNext ==
  ASSUME IInv, Filling, pc \in {"flush", "blockHeader", "payload"}
  PROVE  /\ Slice(hashed, NumBlocks + 1) = buffer
         /\ NumBlocks * BlockSize < Len(hashed)
         /\ (NumBlocks + 1) * BlockSize <= Len(hashed) \/ finishing
<1> DEFINE N == NumBlocks
           p == N * BlockSize
<1>1. /\ N \in Nat /\ p \in Nat /\ (N + 1) * BlockSize = p + BlockSize
      /\ BlockSize \in Nat \ {0} /\ Len(buffer) \in Nat /\ Len(data) \in Nat
      /\ Len(hashed) \in Nat /\ finishing \in BOOLEAN /\ Len(buffer) <= BlockSize
      /\ hashed \in Seq(Byte) /\ buffer \in Seq(Byte) /\ data \in Seq(Byte)
  BY NumBlocksIsNat, Products, Lengths DEF IInv
<1>2. /\ p + Len(buffer) + Len(data) = Len(hashed)
      /\ Len(buffer) > 0 /\ (finishing <=> Len(buffer) < BlockSize)
      /\ finishing => data = <<>>
      /\ buffer \o data = SubSeq(hashed, p + 1, Len(hashed))
  BY DEF Filling
<1>3. Slice(hashed, N + 1) =
        SubSeq(hashed, p + 1, IF p + BlockSize <= Len(hashed) THEN p + BlockSize ELSE Len(hashed))
  <2>1. (N + 1) - 1 = N
    BY <1>1
  <2>2. ((N + 1) - 1) * BlockSize = p
    BY <2>1
  <2> HIDE DEF p
  <2> QED
    BY <1>1, <2>2 DEF Slice
<1> HIDE DEF p
<1>4. (IF p + BlockSize <= Len(hashed) THEN p + BlockSize ELSE Len(hashed)) = p + Len(buffer)
  <2>1. CASE finishing
    <3>1. Len(data) = 0
      BY <1>2, <2>1, EmptySeq
    <3>2. Len(hashed) = p + Len(buffer) /\ Len(buffer) < BlockSize
      BY <1>1, <1>2, <2>1, <3>1
    <3> QED
      BY <1>1, <3>2
  <2>2. CASE ~finishing
    <3>1. Len(buffer) = BlockSize
      BY <1>1, <1>2, <2>2
    <3>2. p + BlockSize <= Len(hashed)
      BY <1>1, <1>2, <3>1
    <3> QED
      BY <3>1, <3>2
  <2> QED
    BY <1>1, <2>1, <2>2
<1>5. /\ p < Len(hashed)
      /\ p + BlockSize <= Len(hashed) \/ finishing
  BY <1>1, <1>2
<1>6. buffer = SubSeq(hashed, p + 1, p + Len(buffer))
  <2>1. /\ p \in Nat /\ p + Len(buffer) + Len(data) = Len(hashed)
        /\ buffer \o data = SubSeq(hashed, p + 1, Len(hashed))
        /\ hashed \in Seq(Byte) /\ buffer \in Seq(Byte) /\ data \in Seq(Byte)
    BY <1>1, <1>2
  <2> QED
    BY <2>1, SplitSuffix, Zenon
<1>7. Slice(hashed, N + 1) = buffer /\ (N + 1) * BlockSize = p + BlockSize
  BY <1>1, <1>3, <1>4, <1>6
<1> QED
  BY <1>1, <1>5, <1>7 DEF p

(* The full blocks of Filling.                                             *)
LEMMA FillingWire ==
  ASSUME IInv, Filling, headerWritten, pc \in FillingPhases
  PROVE  WireInv
<1> DEFINE N == NumBlocks
<1>1. /\ N \in Nat /\ N * BlockSize \in Nat /\ BlockSize \in Nat \ {0}
      /\ \A j \in 1 .. N : j * BlockSize \in Nat /\ j * BlockSize <= N * BlockSize
      /\ \A j \in 1 .. N : (j - 1) * BlockSize \in Nat /\ (j - 1) * BlockSize + BlockSize = j * BlockSize
      /\ Len(hashed) \in Nat /\ Len(buffer) \in Nat /\ Len(data) \in Nat
  BY NumBlocksIsNat, Products, Lengths DEF IInv
<1>2. /\ Len(wire) = 2 * N + (IF pc = "payload" THEN 2 ELSE 1)
      /\ wire[1] = HeaderCell(StreamChecksum)
      /\ \A j \in 1 .. N : BlockAt(wire, hashed, j)
      /\ N * BlockSize + Len(buffer) + Len(data) = Len(hashed)
      /\ pc = "payload" => HeaderOf(wire[Len(wire)], buffer)
  BY DEF Filling
<1>3. ASSUME NEW j \in 1 .. N PROVE BlockOrEnd(j) /\ PayloadOrHash(j)
  <2>1. (j - 1) * BlockSize < Len(hashed) /\ j * BlockSize <= Len(hashed)
    <3>1. j * BlockSize \in Nat /\ j * BlockSize <= N * BlockSize
          /\ (j - 1) * BlockSize \in Nat /\ (j - 1) * BlockSize + BlockSize = j * BlockSize
      BY <1>1
    <3> QED
      BY <1>1, <1>2, <3>1
  <2>2. BlockAt(wire, hashed, j)
    BY <1>2
  <2> QED
    BY <2>1, <2>2 DEF BlockAt, HeaderOf, BlockOrEnd, PayloadOrHash
<1>4. ASSUME pc = "payload" PROVE BlockOrEnd(N + 1) /\ 2 * (N + 1) = Len(wire)
  <2>1. /\ Slice(hashed, N + 1) = buffer
        /\ N * BlockSize < Len(hashed)
        /\ (N + 1) * BlockSize <= Len(hashed) \/ finishing
    BY <1>4, BufferIsNext
  <2>2. 2 * (N + 1) = Len(wire) /\ (N + 1) - 1 = N
    BY <1>1, <1>2, <1>4
  <2> HIDE DEF N
  <2> QED
    BY <1>2, <1>4, <2>1, <2>2 DEF BlockOrEnd
<1> HIDE DEF N
<1>5. ASSUME NEW j \in 1 .. Len(wire)
      PROVE  /\ 2 * j <= Len(wire) => BlockOrEnd(j)
             /\ 2 * j + 1 <= Len(wire) => PayloadOrHash(j)
  <2>1. CASE j <= N
    BY <1>1, <1>3, <2>1
  <2>2. CASE j > N
    <3>1. ~(2 * j + 1 <= Len(wire)) /\ (2 * j <= Len(wire) => pc = "payload" /\ j = N + 1)
      BY <1>1, <1>2, <2>2
    <3> QED
      BY <1>4, <3>1
  <2> QED
    BY <1>1, <2>1, <2>2
<1> QED
  BY <1>2, <1>5 DEF WireInv

(* The container, as far as it is written.                                 *)
LEMMA CompletingWire ==
  ASSUME IInv, Calls, Completing, pc \in EndPhases
  PROVE  WireInv
<1> DEFINE N == BlockCount
<1>1. Len(hashed) \in Nat /\ BlockSize \in Nat \ {0} /\ finishing
  BY Lengths DEF IInv, Calls, EndPhases
<1>2. N \in Nat /\ N * BlockSize \in Nat /\ Len(hashed) <= N * BlockSize
      /\ N * BlockSize < Len(hashed) + BlockSize
  <2> DEFINE m == Len(hashed) + BlockSize - 1
             q == m \div BlockSize
  <2>1. m \in Nat
    BY <1>1
  <2> HIDE DEF m
  <2>2. q \in Nat /\ m % BlockSize \in 0 .. BlockSize - 1 /\ m = q * BlockSize + (m % BlockSize)
    BY <1>1, <2>1
  <2> HIDE DEF q
  <2>3. q * BlockSize \in Nat
    BY <1>1, <2>2
  <2> DEFINE r == q * BlockSize
  <2>4. r \in Nat /\ m = r + (m % BlockSize)
    BY <2>2, <2>3
  <2> HIDE DEF r
  <2>5. Len(hashed) <= r /\ r < Len(hashed) + BlockSize
    BY <1>1, <2>2, <2>4 DEF m
  <2>6. N = q
    BY DEF BlockCount, q, m
  <2> QED
    BY <2>2, <2>4, <2>5, <2>6 DEF r
<1> HIDE DEF N
<1>3. /\ \A j \in 1 .. N : j * BlockSize \in Nat /\ j * BlockSize <= N * BlockSize
      /\ \A j \in 1 .. N : (j - 1) * BlockSize \in Nat /\ (j - 1) * BlockSize + BlockSize = j * BlockSize
  BY <1>2, Products
<1>4. /\ Len(wire) = 2 * N + (IF pc = "eos" THEN 1 ELSE IF pc = "hash" \/ ~StreamChecksum THEN 2 ELSE 3)
      /\ wire[1] = HeaderCell(StreamChecksum)
      /\ \A j \in 1 .. N : BlockAt(wire, hashed, j)
      /\ pc # "eos" => wire[2 * N + 2] = EndCell
      /\ pc = "hash" => StreamChecksum
      /\ pc \in {"sync", "closed"} /\ StreamChecksum => wire[2 * N + 3] = HashCell(hashed)
  BY DEF Completing, N
<1>5. ASSUME NEW j \in 1 .. N PROVE BlockOrEnd(j) /\ PayloadOrHash(j)
  <2>1. (j - 1) * BlockSize < Len(hashed)
    <3>1. j * BlockSize \in Nat /\ j * BlockSize <= N * BlockSize
          /\ (j - 1) * BlockSize \in Nat /\ (j - 1) * BlockSize + BlockSize = j * BlockSize
      BY <1>3
    <3> QED
      BY <1>1, <1>2, <3>1
  <2>2. BlockAt(wire, hashed, j)
    BY <1>4
  <2> QED
    BY <1>1, <2>1, <2>2 DEF BlockAt, HeaderOf, BlockOrEnd, PayloadOrHash
<1>6. 2 * (N + 1) = 2 * N + 2 /\ 2 * (N + 1) + 1 = 2 * N + 3 /\ (N + 1) - 1 = N
  BY <1>2
<1>7. pc # "eos" => BlockOrEnd(N + 1)
  BY <1>1, <1>2, <1>4, <1>6 DEF BlockOrEnd
<1>8. pc \in {"sync", "closed"} /\ StreamChecksum => PayloadOrHash(N + 1)
  BY <1>4, <1>6 DEF PayloadOrHash
<1>9. ASSUME NEW j \in 1 .. Len(wire)
      PROVE  /\ 2 * j <= Len(wire) => BlockOrEnd(j)
             /\ 2 * j + 1 <= Len(wire) => PayloadOrHash(j)
  <2>1. CASE j <= N
    BY <1>2, <1>5, <2>1
  <2>2. CASE j > N
    <3>1. /\ 2 * j <= Len(wire) => pc # "eos" /\ j = N + 1
          /\ 2 * j + 1 <= Len(wire) => pc \notin {"eos", "hash"} /\ StreamChecksum /\ j = N + 1
      BY <1>2, <1>4, <2>2
    <3> QED
      BY <1>7, <1>8, <3>1 DEF EndPhases
  <2> QED
    BY <1>2, <2>1, <2>2
<1> QED
  BY <1>4, <1>9 DEF WireInv

LEMMA AccountedWire ==
  ASSUME IInv, Calls, Accounting, pc # "dropped"
  PROVE  WireInv
<1>1. CASE ~headerWritten
  <2>1. Len(wire) = 0
    BY <1>1, EmptySeq DEF Accounting, Unwritten
  <2> QED
    BY <2>1 DEF WireInv
<1>2. CASE headerWritten /\ pc \in FillingPhases
  BY <1>2, FillingWire DEF Accounting
<1>3. CASE pc \in EndPhases
  BY <1>3, CompletingWire DEF Accounting
<1> QED
  BY <1>1, <1>2, <1>3 DEF IInv, TypeOK, Phases, Accounting, FillingPhases, EndPhases

WInv == CInv /\ AInv /\ WireInv

(* As long as W has not failed no cell is torn, and a torn one may follow. *)
LEMMA TearLast ==
  ASSUME TypeOK, WireInv, errors = 0, errors' > 0, wire' = Append(wire, TornCell),
         UNCHANGED <<hashed, finishing>>
  PROVE  WireInv'
<1>1. /\ wire \in Seq(Cells) /\ TornCell \in Cells /\ Len(wire) \in Nat
      /\ Len(wire') = Len(wire) + 1 /\ wire'[Len(wire) + 1] = TornCell
      /\ \A i \in 1 .. Len(wire) : wire'[i] = wire[i]
  BY OtherCells, Lengths, EmptySeq, AppendProperties
<1>2. wire'[Len(wire) + 1] = TornCell /\ Len(wire) + 1 = Len(wire') /\ errors' > 0
  BY <1>1
<1>3. ASSUME NEW j \in 1 .. Len(wire), 2 * j <= Len(wire)
      PROVE  BlockOrEnd(j)'
  <2>1. BlockOrEnd(j) /\ ~Torn(2 * j) /\ wire'[2 * j] = wire[2 * j]
    BY <1>1, <1>3 DEF WireInv, Torn
  <2> QED
    BY <2>1 DEF BlockOrEnd, HeaderOf, Slice
<1>4. ASSUME NEW j \in 1 .. Len(wire), 2 * j + 1 <= Len(wire)
      PROVE  PayloadOrHash(j)'
  <2>1. /\ PayloadOrHash(j) /\ ~Torn(2 * j + 1)
        /\ wire'[2 * j] = wire[2 * j] /\ wire'[2 * j + 1] = wire[2 * j + 1]
    BY <1>1, <1>4 DEF WireInv, Torn
  <2> QED
    BY <2>1 DEF PayloadOrHash, Slice
<1>5. Len(wire') >= 1 => wire'[1] = HeaderCell(StreamChecksum) \/ Torn(1)'
  <2>1. CASE Len(wire) = 0
    BY <1>1, <1>2, <2>1 DEF Torn
  <2>2. CASE Len(wire) >= 1
    <3>1. wire[1] = HeaderCell(StreamChecksum) /\ wire'[1] = wire[1]
      BY <1>1, <2>2 DEF WireInv, Torn
    <3> QED
      BY <3>1
  <2> QED
    BY <1>1, <2>1, <2>2
<1>6. ASSUME NEW j \in 1 .. Len(wire')
      PROVE  /\ 2 * j <= Len(wire') => BlockOrEnd(j)'
             /\ 2 * j + 1 <= Len(wire') => PayloadOrHash(j)'
  <2>1. CASE 2 * j + 1 <= Len(wire)
    <3>1. j \in 1 .. Len(wire)
      BY <1>1, <2>1
    <3> QED
      BY <1>1, <1>3, <1>4, <2>1, <3>1
  <2>2. CASE 2 * j = Len(wire)
    <3>1. j \in 1 .. Len(wire) /\ 2 * j + 1 = Len(wire) + 1
      BY <1>1, <2>2
    <3>2. Torn(2 * j + 1)'
      BY <1>2, <3>1 DEF Torn
    <3> QED
      BY <1>3, <2>2, <3>1, <3>2 DEF PayloadOrHash
  <2>3. CASE 2 * j > Len(wire)
    <3>1. 2 * j <= Len(wire') => 2 * j = Len(wire) + 1
      BY <1>1, <2>3
    <3>2. ~(2 * j + 1 <= Len(wire'))
      BY <1>1, <2>3
    <3>3. 2 * j <= Len(wire') => Torn(2 * j)'
      BY <1>2, <3>1 DEF Torn
    <3> QED
      BY <3>2, <3>3 DEF BlockOrEnd
  <2> QED
    BY <1>1, <2>1, <2>2, <2>3
<1> QED
  BY <1>5, <1>6 DEF WireInv

LEMMA WireUntouched ==
  ASSUME WireInv, UNCHANGED <<wire, hashed, finishing>>,
         errors > 0 => errors' > 0
  PROVE  WireInv'
BY ZenonT(30) DEF WireInv, BlockOrEnd, PayloadOrHash, Torn, HeaderOf, Slice

LEMMA InitWInv == Init => WInv
<1> SUFFICES ASSUME Init PROVE WInv
  OBVIOUS
<1>1. Len(wire) = 0
  BY EmptySeq DEF Init
<1> QED
  BY <1>1, InitCInv, InitAInv DEF WInv, WireInv

LEMMA NextWInv == ~RetryAfterError /\ WInv /\ [Next]_vars => WInv'
<1> SUFFICES ASSUME ~RetryAfterError, WInv, [Next]_vars PROVE WireInv'
  BY NextCInv, NextAInv DEF WInv
<1>1. /\ TypeOK /\ errors \in Nat
      /\ errors = 0 => Accounting
      /\ errors > 0 => pc = "dropped" \/ (pc = "idle" /\ result = "err")
  BY OptionsAssumption DEF WInv, AInv, IInv, TypeOK
<1>2. CASE errors > 0 \/ Abandon \/ Gone \/ UNCHANGED vars
  <2>1. UNCHANGED <<wire, hashed, finishing, errors>>
    BY <1>1, <1>2 DEF Next, MayCall, WriteChunk, Finish, Abandon, WriteHeader, Fill,
      ChunkDone, FlushBlock, WriteBlockHeader, WritePayload, FlushTail,
      WriteEndOfStream, WriteStreamChecksum, FlushWriter, WriteFails, Writing, Gone, vars
  <2> QED
    BY <1>1, <2>1, WireUntouched DEF WInv
<1>3. CASE errors = 0 /\ WriteFails
  <2>1. CASE wire' = wire
    BY <1>1, <1>3, <2>1, WireUntouched DEF WriteFails, WInv
  <2>2. CASE wire' = Append(wire, TornCell)
    BY <1>1, <1>3, <2>2, TearLast DEF WriteFails, WInv
  <2> QED
    BY <1>3, <2>1, <2>2 DEF WriteFails
<1>4. CASE errors = 0 /\ Next /\ ~WriteFails /\ ~Abandon /\ ~Gone
  <2>1. errors' = 0 /\ pc' # "dropped"
    BY <1>4 DEF Next, WriteChunk, Finish, WriteHeader, Fill, ChunkDone,
      FlushBlock, WriteBlockHeader, WritePayload, FlushTail, WriteEndOfStream,
      WriteStreamChecksum, FlushWriter
  <2>2. IInv' /\ Calls' /\ Accounting'
    BY <2>1, NextCInv, NextAInv DEF WInv, CInv, AInv
  <2>3. IInv /\ Calls /\ Accounting /\ pc # "dropped" => WireInv
    BY AccountedWire
  <2>4. (IInv /\ Calls /\ Accounting /\ pc # "dropped" => WireInv)'
    BY AccountedWire, PTL
  <2> QED
    BY <2>1, <2>2, <2>4
<1> QED
  BY <1>1, <1>2, <1>3, <1>4

(* For a caller that gives the encoder up after an error, the wire is at   *)
(* every moment the beginning of a container of what was digested, up to a *)
(* torn last cell.                                                         *)
LEMMA SpecWInv == ~RetryAfterError /\ Spec => []WInv
<1> SUFFICES ASSUME ~RetryAfterError PROVE Spec => []WInv
  OBVIOUS
<1>1. WInv /\ [Next]_vars => WInv'
  BY NextWInv
<1> QED
  BY <1>1, InitWInv, PTL DEF Spec

-----------------------------------------------------------------------------
(* What a step may do to the data digested and to the wire.                *)
LEMMA HashedGrows ==
  ASSUME CInv, [Next]_vars
  PROVE  \/ ~finishing /\ finishing' = finishing /\ \E t \in Seq(Byte) : hashed' = hashed \o t
         \/ finishing' /\ hashed' = hashed
<1>1. /\ finishing \in BOOLEAN /\ data \in Seq(Byte) /\ hashed \in Seq(Byte)
      /\ pc \in {"idle", "fill"} => ~finishing
      /\ finishing => data = <<>>
  BY DEF CInv, IInv, TypeOK, Calls
<1>2. <<>> \in Seq(Byte) /\ hashed \o <<>> = hashed
  BY <1>1, EmptySeq, ConcatEmptySeq
<1>3. ASSUME NEW n \in 0 .. Len(Input) - given, WriteChunk(n)
      PROVE  ~finishing /\ finishing' = finishing /\ \E t \in Seq(Byte) : hashed' = hashed \o t
  <2>1. SubSeq(Input, given + 1, given + n) \in Seq(Byte)
    BY HandOver DEF CInv, IInv
  <2> QED
    BY <1>1, <1>2, <1>3, <2>1 DEF WriteChunk, MayCall
<1>4. CASE WriteHeader
  BY <1>1, <1>2, <1>4 DEF WriteHeader
<1>5. CASE Finish
  BY <1>5 DEF Finish
<1>6. CASE UNCHANGED <<hashed, finishing>>
  BY <1>1, <1>2, <1>6
<1>7. (\E n \in 0 .. Len(Input) - given : WriteChunk(n)) \/ WriteHeader \/ Finish
        \/ UNCHANGED <<hashed, finishing>>
  BY DEF Next, Abandon, Fill, ChunkDone, FlushBlock, WriteBlockHeader, WritePayload,
    FlushTail, WriteEndOfStream, WriteStreamChecksum, FlushWriter, WriteFails, Gone, vars
<1> QED
  BY <1>3, <1>4, <1>5, <1>6, <1>7

LEMMA WireGrows ==
  ASSUME CInv, [Next]_vars
  PROVE  /\ Len(wire) \in Nat /\ Len(wire') \in Nat /\ Len(wire) <= Len(wire')
         /\ \A i \in 1 .. Len(wire) : wire'[i] = wire[i]
<1>1. wire \in Seq(Cells) /\ Len(wire) \in Nat
  BY Lengths DEF CInv, IInv
<1>2. wire' = wire \/ \E c \in Cells : wire' = Append(wire, c)
  <2>1. TypeOK /\ <<>> \in Seq(Byte) /\ StreamChecksum \in BOOLEAN
    BY Lengths, EmptySeq DEF CInv, IInv
  <2>2. CASE WriteBlockHeader
    BY <2>2 DEF WriteBlockHeader, CInv, IInv, Cells
  <2>3. CASE WriteHeader \/ WritePayload \/ WriteEndOfStream \/ WriteStreamChecksum \/ WriteFails
    BY <2>1, <2>3, OtherCells DEF WriteHeader, WritePayload, WriteEndOfStream,
      WriteStreamChecksum, WriteFails, TypeOK
  <2>4. \/ WriteBlockHeader \/ WriteHeader \/ WritePayload \/ WriteEndOfStream
        \/ WriteStreamChecksum \/ WriteFails \/ wire' = wire
    BY DEF Next, WriteChunk, Finish, Abandon, Fill, ChunkDone, FlushBlock,
      FlushTail, FlushWriter, Gone, vars
  <2> QED
    BY <2>2, <2>3, <2>4
<1> QED
  BY <1>1, <1>2, AppendProperties

=============================================================================
