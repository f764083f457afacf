------------------------------- MODULE RunCodes -------------------------------
(***************************************************************************)
(* The three byte layouts that shorten runs: a block of RleCodec, the code *)
(* lengths in front of an LZH payload and the normalised frequencies in    *)
(* front of an LZA payload. One action per turn of an encoder's loop and   *)
(* one per byte that a decoder reads. A behaviour is an encoder and the    *)
(* decoder of what it wrote, with bytes missing at the end or, behind      *)
(* descriptors, with those of the payload; or a decoder alone on bytes     *)
(* that need not come from an encoder.                                     *)
(*                                                                         *)
(* A byte has 2 * Half values (Half is 128 in the code): a smaller Half    *)
(* brings the longest run and the widest count within reach.               *)
(***************************************************************************)
EXTENDS Integers, Sequences

CONSTANTS
  Half,          \* the continuation bit of a byte, 0x80
  Weights,       \* of the bytes of a run length, 2 ^ shift: 1, 2 ^ 7, ..., 2 ^ 28
  Usizes,        \* values of a usize: 2 ^ 64, in the WASM build 2 ^ 32
  LengthSpan,    \* 0x10: one more than MAX_CODE_LENGTH
  LitLens,       \* LIT_LEN_ALPHABET_SIZE
  Dists,         \* DIST_ALPHABET_SIZE
  Eob,           \* EOB_SYMBOL
  AlphabetSize,  \* ANS_ALPHABET_SIZE
  TableSize,     \* ANS_TABLE_SIZE
  Blocks,        \* the data an RLE encoder may be given,
  LitTables, DistTables,  \* the two parts of a table of code lengths
  Norms,         \* and the frequencies, as sequences
  Tails,         \* what of a payload may follow descriptors
  Payloads,      \* the bytes a decoder may be given
  Expected       \* and the declared sizes of a block

Base == 2 * Half
Byte == 0 .. Base - 1
MaxRun == Base - 1

ASSUME WidthAssumption ==
  /\ Half \in Nat \ {0, 1} /\ Weights \subseteq Nat \ {0} /\ 1 \in Weights
  /\ LengthSpan \in 1 .. Half
  /\ LitLens \in 1 .. Base * Base - 1 /\ Dists \in Byte /\ Eob \in 0 .. LitLens - 1
  /\ AlphabetSize \in 1 .. Base * Base /\ TableSize \in Half .. Half * Base - 1
ASSUME CallsAssumption ==
  /\ Blocks \subseteq Seq(Byte)
  /\ LitTables \subseteq [1 .. LitLens -> 0 .. LengthSpan - 1]
  /\ DistTables \subseteq [1 .. Dists -> 0 .. LengthSpan - 1]
  /\ Norms \subseteq [1 .. AlphabetSize -> 0 .. TableSize]
  /\ Tails \cup Payloads \subseteq Seq(Byte) /\ Expected \subseteq Nat

Sizes == Expected \cup {Len(b) : b \in Blocks}

(* Every usize is a power of two and holds the size of a block, which is   *)
(* less than 2^32; not every run length that five bytes can spell.         *)
ASSUME UsizeAssumption ==
  /\ Usizes \subseteq Nat
  /\ \A u \in Usizes : (\A w \in Weights : u % w = 0) /\ (\A e \in Sizes : e < u)

(* A block has less than 2^32 bytes, and five bytes count up to 2^35 - 1:   *)
(* every run of it has as many bytes as its length needs.                  *)
ASSUME WeightsAssumption ==
  /\ \A v, w \in Weights : v < w => Half * v \in Weights
  /\ \A b \in Blocks : \E w \in Weights : Len(b) < Half * w

SumOf(s) ==
  LET sum[i \in 0 .. Len(s)] == IF i = 0 THEN 0 ELSE sum[i - 1] + s[i] IN sum[Len(s)]

(* normalize_frequencies shares all slots of the table, and no message is  *)
(* without a symbol, as it ends in the end-of-block symbol.                *)
ASSUME NormsAssumption == \A f \in Norms : SumOf(f) = TableSize

VARIABLES
  usize,         \* that of the build
  pc,            \* what the running call does next
  layout,        \* "block", "lengths" or "norms"
  tables,        \* the two tables of the encoder (<<>> for one that there is not)
  combined,      \* the values that it writes
  taken,         \* how many of them have been written
  bytes,         \* the encoder's output and the decoder's input
  whole,         \* all of it reached the decoder
  written,       \* how many bytes the encoder wrote
  cursor,        \* how many bytes have been read
  total,         \* the number of values to be decoded
  split,         \* num_lit_len, as read from the header
  value,         \* of the run that is being read,
  run, weight,   \* its length as far as it is read, or not yet written; the next byte's weight
  decoded,       \* the values decoded
  result         \* "none", "ok" or the error

writeVars == <<tables, combined, taken, bytes, whole, written>>
headVars == <<total, split>>
runVars == <<value, run, weight>>
vars == <<usize, pc, layout, writeVars, cursor, headVars, runVars, decoded, result>>

-----------------------------------------------------------------------------
(* The first n values are written: the zeros at the end of a table are not,*)
(* but for those in front of the end-of-block symbol.                      *)
IsActive(n, s, least) ==
  /\ n >= least
  /\ n > least => s[n] # 0
  /\ \A i \in n + 1 .. Len(s) : s[i] = 0

Least == [block |-> Len(tables[1]), lengths |-> Eob + 1, norms |-> 1][layout]

TwoBytes(n) == <<n % Base, n \div Base>>

(* For m and n values of the two tables.                                   *)
Header(m, n) ==
  IF layout = "block" THEN <<>>
  ELSE IF layout = "lengths" THEN TwoBytes(m) \o <<n % Base>> ELSE TwoBytes(m - 1)

(* Mutant of Longest: one more than a byte can count.                      *)
LongestAndOne(v) ==
  [block |-> Len(combined), lengths |-> Base, norms |-> IF v = 0 THEN Base ELSE 1][layout]

(* The longest run of v that is written as one.                            *)
Longest(v) ==
  [block |-> Len(combined), lengths |-> MaxRun, norms |-> IF v = 0 THEN MaxRun ELSE 1][layout]

(* The next run of equal values is n long.                                 *)
IsRun(n) ==
  LET v == combined[taken + 1] IN
  /\ n <= Longest(v)
  /\ \A k \in 1 .. n : combined[taken + k] = v
  /\ taken + n < Len(combined) /\ n < Longest(v) => combined[taken + n + 1] # v

LengthToken(v, n) ==
  IF v = 0 THEN <<0, n % Base>> ELSE IF n = 1 THEN <<v>> ELSE <<LengthSpan + v, n % Base>>

NormToken(v, n) ==
  IF v = 0 THEN <<0, n % Base>> ELSE IF v < Half THEN <<v>> ELSE <<Half + (v % Half), v \div Half>>

-----------------------------------------------------------------------------
InitEncoder ==
  /\ \/ layout = "block" /\ \E b \in Blocks : tables = <<b, <<>>>> /\ total = Len(b)
     \/ layout = "lengths" /\ total = 0
        /\ \E l \in LitTables, d \in DistTables : tables = <<l, d>>
     \/ layout = "norms" /\ total = 0 /\ \E f \in Norms : tables = <<f, <<>>>>
  /\ bytes = <<>>
  /\ pc = "head"

InitDecoder ==
  /\ \/ layout = "block" /\ pc = "token" /\ total \in Expected
     \/ layout \in {"lengths", "norms"} /\ pc = "header" /\ total = 0
  /\ bytes \in Payloads
  /\ tables = <<<<>>, <<>>>>

Init ==
  /\ usize \in Usizes
  /\ InitEncoder \/ InitDecoder
  /\ combined = <<>> /\ taken = 0 /\ written = 0 /\ whole = TRUE
  /\ cursor = 0 /\ split = 0
  /\ value = 0 /\ run = 0 /\ weight = 1
  /\ decoded = <<>>
  /\ result = "none"

-----------------------------------------------------------------------------
(* The two tables of LZH are written as one: a run may begin in the first  *)
(* and end in the second.                                                  *)
WriteHeader ==
  /\ pc = "head"
  /\ \E m \in 0 .. Len(tables[1]), n \in 0 .. Len(tables[2]) :
       /\ IsActive(m, tables[1], Least) /\ IsActive(n, tables[2], 0)
       /\ combined' = SubSeq(tables[1], 1, m) \o SubSeq(tables[2], 1, n)
       /\ bytes' = Header(m, n)
  /\ pc' = "encode"
  /\ UNCHANGED <<usize, layout, tables, taken, whole, written, cursor, headVars, runVars, decoded,
                 result>>

WriteRun ==
  /\ pc = "encode"
  /\ \E n \in 1 .. Len(combined) - taken :
       /\ IsRun(n)
       /\ taken' = taken + n
       /\ \/ /\ layout = "block"
             /\ bytes' = Append(bytes, combined[taken + 1])
             /\ pc' = "runLength" /\ run' = n
          \/ /\ layout = "lengths"
             /\ bytes' = bytes \o LengthToken(combined[taken + 1], n)
             /\ UNCHANGED <<pc, run>>
          \/ /\ layout = "norms"
             /\ bytes' = bytes \o NormToken(combined[taken + 1], n)
             /\ UNCHANGED <<pc, run>>
  /\ UNCHANGED <<usize, layout, tables, combined, whole, written, cursor, headVars, value, weight,
                 decoded, result>>

(* One byte of a ULEB128.                                                  *)
WriteRunLength ==
  /\ pc = "runLength"
  /\ bytes' = Append(bytes, (run % Half) + (IF run >= Half THEN Half ELSE 0))
  /\ run' = run \div Half
  /\ pc' = IF run >= Half THEN pc ELSE "encode"
  /\ UNCHANGED <<usize, layout, tables, combined, taken, whole, written, cursor, headVars, value,
                 weight,
                 decoded, result>>

(* A block is all of a payload, descriptors are its head. Of either, bytes *)
(* may be missing.                                                         *)
Deliver ==
  /\ pc = "encode"
  /\ taken = Len(combined)
  /\ written' = Len(bytes)
  /\ \/ /\ \E t \in IF layout = "block" THEN {<<>>} ELSE Tails : bytes' = bytes \o t
        /\ UNCHANGED whole
     \/ /\ \E n \in 0 .. Len(bytes) - 1 : bytes' = SubSeq(bytes, 1, n)
        /\ whole' = FALSE
  /\ pc' = IF layout = "block" THEN "token" ELSE "header"
  /\ UNCHANGED <<usize, layout, tables, combined, taken, cursor, headVars, runVars, decoded,
                 result>>

-----------------------------------------------------------------------------
Return(r) == pc' = "done" /\ result' = r /\ UNCHANGED decoded

Continue(s) == pc' = "token" /\ decoded' = s /\ UNCHANGED result

HeaderSize == IF layout = "lengths" THEN 3 ELSE 2

ReadHeader ==
  LET two == bytes[1] + Base * bytes[2] IN
  /\ pc = "header"
  /\ HeaderSize <= Len(bytes)
  /\ cursor' = HeaderSize
  /\ \/ /\ layout = "lengths"
        /\ split' = two /\ total' = two + bytes[3]
        /\ IF two > LitLens \/ bytes[3] > Dists THEN Return("CorruptedEntropyStream")
           ELSE Continue(decoded)
     \/ /\ layout = "norms"
        /\ split' = two + 1 /\ total' = two + 1
        /\ IF two >= AlphabetSize THEN Return("CorruptedEntropyStream") ELSE Continue(decoded)
  /\ UNCHANGED <<usize, layout, writeVars, runVars>>

(* Mutant of Complete: where the bytes end, so does the table.             *)
CompleteOrEof ==
  IF layout = "block" THEN cursor = Len(bytes)
  ELSE Len(decoded) >= total \/ cursor = Len(bytes)

(* A block has as many runs as there are bytes, a table as many values as  *)
(* its header says.                                                        *)
Complete == IF layout = "block" THEN cursor = Len(bytes) ELSE Len(decoded) >= total

Sound ==
  \/ layout = "block" /\ Len(decoded) = total
  \/ layout = "lengths"
  \/ layout = "norms" /\ SumOf(decoded) = TableSize

EndOfRuns ==
  /\ pc = "token"
  /\ Complete
  /\ Return(IF Sound THEN "ok" ELSE "CorruptedEntropyStream")
  /\ UNCHANGED <<usize, layout, writeVars, cursor, headVars, runVars>>

TornByte ==
  /\ \/ pc = "header" /\ Len(bytes) < HeaderSize
     \/ pc \in {"count", "high", "run"} /\ cursor = Len(bytes)
     \/ pc = "token" /\ ~Complete /\ cursor = Len(bytes)
  /\ Return("UnexpectedEof")
  /\ UNCHANGED <<usize, layout, writeVars, cursor, headVars, runVars>>

Await(next, v) == pc' = next /\ value' = v /\ UNCHANGED <<decoded, result>>

(* The first byte of a token.                                              *)
ReadValue ==
  LET b == bytes[cursor + 1] IN
  /\ pc = "token" /\ ~Complete
  /\ cursor < Len(bytes)
  /\ cursor' = cursor + 1
  /\ \/ layout = "block" /\ Await("run", b) /\ run' = 0 /\ weight' = 1
     \/ /\ layout = "lengths" /\ (b = 0 \/ b >= LengthSpan)
        /\ Await("count", b % LengthSpan)
        /\ UNCHANGED <<run, weight>>
     \/ layout = "norms" /\ b = 0 /\ Await("count", 0) /\ UNCHANGED <<run, weight>>
     \/ layout = "norms" /\ b >= Half /\ Await("high", b) /\ UNCHANGED <<run, weight>>
     \/ /\ b \in 1 .. (IF layout = "lengths" THEN LengthSpan ELSE Half) - 1 /\ layout # "block"
        /\ Continue(Append(decoded, b))
        /\ UNCHANGED runVars
  /\ UNCHANGED <<usize, layout, writeVars, headVars>>

(* Vec::resize: it also shortens.                                          *)
Resized(n) == [i \in 1 .. n |-> IF i <= Len(decoded) THEN decoded[i] ELSE value]

(* Mutant of Room: for the first of the values only.                       *)
RoomForOne(n) == Len(decoded) < total

Room(n) == Len(decoded) + n <= total

ReadCount ==
  LET n == bytes[cursor + 1] IN
  /\ pc = "count"
  /\ cursor < Len(bytes)
  /\ cursor' = cursor + 1
  /\ IF n = 0 \/ ~Room(n) THEN Return("CorruptedEntropyStream")
     ELSE Continue(Resized(Len(decoded) + n))
  /\ UNCHANGED <<usize, layout, writeVars, headVars, runVars>>

(* Mutant of TooManySlots: whatever two bytes can hold.                    *)
TooManySlotsForBytes(n) == n >= Base * Half

TooManySlots(n) == n > TableSize

ReadHigh ==
  LET n == (value % Half) + Half * bytes[cursor + 1] IN
  /\ pc = "high"
  /\ cursor < Len(bytes)
  /\ cursor' = cursor + 1
  /\ IF TooManySlots(n) THEN Return("CorruptedEntropyStream") ELSE Continue(Append(decoded, n))
  /\ UNCHANGED <<usize, layout, writeVars, headVars, runVars>>

(* Mutant of Wrap: run lengths and sums are counted in a u16, here as many *)
(* values as the last weight has.                                          *)
WrapNarrow(n) == n % (CHOOSE w \in Weights : \A v \in Weights : v <= w)

(* Arithmetic of usize in a release build.                                 *)
Wrap(n) == n % usize

(* One byte of a run length. The bits of `|=` are disjoint, so it adds.    *)
ReadRunLength ==
  LET b == bytes[cursor + 1]
      sofar == Wrap(run + (b % Half) * weight)
      end == Wrap(Len(decoded) + sofar)
  IN
  /\ pc = "run"
  /\ cursor < Len(bytes)
  /\ cursor' = cursor + 1
  /\ \/ /\ b >= Half /\ Half * weight \in Weights
        /\ run' = sofar /\ weight' = Half * weight
        /\ UNCHANGED <<pc, decoded, result>>
     \/ /\ b >= Half /\ Half * weight \notin Weights
        /\ Return("CorruptedEntropyStream") /\ UNCHANGED <<run, weight>>
     \/ /\ b < Half /\ sofar = 0
        /\ Return("CorruptedEntropyStream") /\ UNCHANGED <<run, weight>>
     \/ /\ b < Half /\ sofar > 0 /\ end > total
        /\ Return("InvalidMatchLength") /\ UNCHANGED <<run, weight>>
     \/ /\ b < Half /\ sofar > 0 /\ end <= total
        /\ Continue(Resized(end)) /\ UNCHANGED <<run, weight>>
  /\ UNCHANGED <<usize, layout, writeVars, headVars, value>>

Done == pc = "done" /\ UNCHANGED vars

Encode == WriteHeader \/ WriteRun \/ WriteRunLength \/ Deliver

Decode ==
  ReadHeader \/ EndOfRuns \/ TornByte \/ ReadValue \/ ReadCount \/ ReadHigh \/ ReadRunLength

Next == Encode \/ Decode \/ Done

Spec == Init /\ [][Next]_vars

-----------------------------------------------------------------------------
Errors == {"UnexpectedEof", "CorruptedEntropyStream", "InvalidMatchLength"}

ValuesOf == [block |-> Byte, lengths |-> 0 .. LengthSpan - 1, norms |-> 0 .. TableSize]

(* Types: every variable keeps its type; what a decoder gives out are      *)
(* values of the table or block that it decodes.                           *)
TypeOK ==
  /\ usize \in Usizes
  /\ pc \in {"head", "encode", "runLength", "header", "token", "count", "high", "run", "done"}
  /\ layout \in {"block", "lengths", "norms"}
  /\ combined \in Seq(ValuesOf[layout])
  /\ bytes \in Seq(Byte) /\ whole \in BOOLEAN /\ taken \in 0 .. Len(combined) /\ written \in Nat
  /\ cursor \in 0 .. Len(bytes)
  /\ total \in Nat /\ split \in Nat
  /\ value \in Byte /\ run \in Nat /\ weight \in Weights
  /\ pc = "count" => value \in ValuesOf[layout]
  /\ decoded \in Seq(ValuesOf[layout])
  /\ result \in Errors \cup {"none", "ok"}

(* No decoder produces more than was declared, and it accepts nothing but  *)
(* exactly that much, whatever its bytes are.                              *)
DecoderStaysInBounds ==
  /\ Len(decoded) <= total
  /\ result = "ok" => Len(decoded) = total

Extended ==
  Len(decoded') >= Len(decoded) /\ \A i \in 1 .. Len(decoded) : decoded'[i] = decoded[i]

FirstSize == [block |-> total, lengths |-> LitLens, norms |-> AlphabetSize][layout]

Padded(s, n) == [i \in 1 .. n |-> IF i <= Len(s) THEN s[i] ELSE 0]

(* What a decoder returns: the values it has decoded, with zeros behind.   *)
Output ==
  IF layout = "lengths"
    THEN <<Padded(SubSeq(decoded, 1, split), LitLens),
           Padded(SubSeq(decoded, split + 1, total), Dists)>>
    ELSE <<Padded(decoded, FirstSize), <<>>>>

Encoded == written > 0 \/ Len(tables[1]) > 0

(* usize has room for any run length that can be spelled behind any block: *)
(* 64 bits do, 32 do not.                                                  *)
Roomy == \A w \in Weights, e \in Sizes : Half * w + e < usize

(* What has been decoded is never cut or changed by a run that follows it: *)
(* in a build with a roomy usize whatever is read, and in every build if   *)
(* it is what an encoder wrote, whole or torn.                             *)
RunsOnlyAdd == [][Roomy \/ Encoded => Extended]_decoded

(* CODROP_SPEC.md: no length can make the remaining size overflow, whatever*)
(* the bytes are. It does not hold where usize is not roomy: len + run may *)
(* wrap, pass the check, and resize then cuts what was decoded.            *)
NoRunCuts == [][Extended]_decoded

(* Losslessness: what was written and arrives whole is read back as it     *)
(* was, and up to where it ends: the payload behind descriptors is found.  *)
RoundTrip ==
  pc = "done" /\ Encoded /\ whole =>
    result = "ok" /\ Output = tables /\ cursor = written

(* Of what was written, no beginning passes for the whole.                 *)
TruncationIsNoticed == pc = "done" /\ ~whole => result # "ok"
=============================================================================
