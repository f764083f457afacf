----------------------------- MODULE EntropyCoding ----------------------------
(***************************************************************************)
(* A block of symbols through one of the two entropy coders, as LzhCodec   *)
(* and LzaCodec drive them: count the symbols, build lengths or a table,   *)
(* write the bits, and read them back up to the end-of-block symbol. One   *)
(* action per turn of a loop. A behaviour is an encoder and the decoder of *)
(* what it wrote, perhaps with bytes missing at the end, or a decoder alone*)
(* on descriptors and bits that need not come from an encoder.             *)
(*                                                                         *)
(* Every symbol stands for one byte; LzSymbols has matches, with the extra *)
(* bits between the symbols. The bytes of the descriptors are left out. A  *)
(* message of nothing but its end stands for an alphabet of which a single *)
(* symbol occurs, as that of the distances may be.                         *)
(***************************************************************************)
EXTENDS Huffman, Ans

CONSTANTS
  Eob,           \* EOB_SYMBOL
  ByteBits,      \* bits of a byte
  StateBits,     \* bits of the ANS state at the head of a payload
  Messages,      \* the symbols an encoder may be given, without the end
  LonePayloads,  \* the bits a decoder may be given alone,
  Lengths,       \* with these code lengths
  Norms,         \* or these normalised frequencies
  ExpectedLens   \* and these numbers of symbols before the end

ASSUME EntropyAssumption ==
  /\ NumSymbols = AlphabetSize /\ Eob \in Symbols
  /\ ByteBits \in Nat \ {0} /\ StateBits \in Nat /\ StateBits > TableLog
  /\ Messages \subseteq Seq(Symbols \ {Eob})
  /\ LonePayloads \subseteq Seq({0, 1})
  /\ Lengths \subseteq [Symbols -> 0 .. MaxBits]
  /\ Norms \subseteq [Symbols -> 0 .. TableSize]
  /\ ExpectedLens \subseteq Nat \ {0}

VARIABLES
  phase,         \* what the running call does next
  coder,         \* "huffman" (LZH) or "ans" (LZA)
  message,       \* the symbols to be written, the end included; <<>> without an encoder
  written,       \* how many of them have been written
  heap,          \* the subtrees not yet joined
  lengths,       \* code lengths
  norm,          \* normalised frequencies
  slots, pos,    \* the symbol of each slot, the slot visited next
  state,         \* of the ANS encoder, then of the decoder
  bits,          \* the payload
  whole,         \* nothing was lost at its end
  expectedLen,   \* expected_len
  read,          \* how many bits have been read
  delivered,     \* the symbols delivered
  outcome        \* "none", "ok" or the error

treeVars == <<heap, lengths>>
tableVars == <<norm, slots, pos>>
writeVars == <<message, written, bits>>
readVars == <<read, delivered, outcome>>
entropyVars ==
  <<phase, coder, treeVars, tableVars, state, writeVars, whole, expectedLen, readVars>>

Counts(m) == [s \in Symbols |-> Cardinality({i \in 1 .. Len(m) : m[i] = s})]
None == [s \in Symbols |-> 0]

InitEncoder ==
  /\ \E m \in Messages : message = Append(m, Eob)
  /\ expectedLen = Len(message) - 1
  /\ \/ /\ coder = "huffman" /\ phase = "merge"
        /\ heap = Leaves(Counts(message))
        /\ norm = None
     \/ /\ coder = "ans" /\ phase = "normalize"
        /\ heap = {}
        /\ norm = Rounded(Counts(message))
  /\ lengths = None
  /\ bits = <<>>

InitDecoder ==
  /\ message = <<>>
  /\ expectedLen \in ExpectedLens
  /\ bits \in LonePayloads
  /\ phase = "descriptors"
  /\ heap = {}
  /\ \/ coder = "huffman" /\ lengths \in Lengths /\ norm = None
     \/ coder = "ans" /\ lengths = None /\ norm \in Norms

EntropyInit ==
  /\ InitEncoder \/ InitDecoder
  /\ written = 0
  /\ slots = [i \in 0 .. TableSize - 1 |-> Free] /\ pos = 0
  /\ state = TableSize
  /\ whole = TRUE
  /\ read = 0
  /\ delivered = <<>>
  /\ outcome = "none"

-----------------------------------------------------------------------------
(* build_code_lengths: joining two subtrees puts their symbols one level   *)
(* deeper. A tree of one leaf gives it a code of one bit.                  *)
Merge ==
  /\ phase = "merge"
  /\ Cardinality(heap) > 1
  /\ \E a \in heap, b \in heap :
       /\ IsFirst(a, heap) /\ IsFirst(b, heap \ {a}) /\ a # b
       /\ LET arenaLen == 2 * Cardinality(Counted(Counts(message))) - Cardinality(heap) IN
            heap' = (heap \ {a, b}) \cup {Parent(a, b, arenaLen)}
       /\ lengths' = [s \in Symbols |->
                        IF s \in a.symbols \cup b.symbols THEN lengths[s] + 1 ELSE lengths[s]]
  /\ UNCHANGED <<phase, coder, tableVars, state, writeVars, whole, expectedLen,
                 readVars>>

Merged ==
  /\ phase = "merge"
  /\ Cardinality(heap) = 1
  /\ lengths' = LET depths == [s \in Symbols |->
                       IF heap = Leaves(Counts(message)) /\ Counts(message)[s] > 0
                         THEN 1 ELSE lengths[s]]
                IN Clamped(depths)
  /\ phase' = "limit"
  /\ UNCHANGED <<coder, heap, tableVars, state, writeVars, whole, expectedLen,
                 readVars>>

(* limit_code_lengths, one symbol per turn.                                *)
Limit ==
  /\ phase = "limit"
  /\ Oversubscribed(lengths)
  /\ lengths' = [lengths EXCEPT ![Lengthened(lengths)] = @ + 1]
  /\ UNCHANGED <<phase, coder, heap, tableVars, state, writeVars, whole,
                 expectedLen, readVars>>

Limited ==
  /\ phase = "limit"
  /\ ~Oversubscribed(lengths)
  /\ phase' = "write"
  /\ UNCHANGED <<coder, treeVars, tableVars, state, writeVars, whole,
                 expectedLen, readVars>>

-----------------------------------------------------------------------------
(* normalize_frequencies, one slot per turn.                               *)
Decrement ==
  /\ phase = "normalize"
  /\ Total(norm) > TableSize
  /\ norm' = [norm EXCEPT ![Richest(norm)] = @ - 1]
  /\ UNCHANGED <<phase, coder, treeVars, slots, pos, state, writeVars, whole,
                 expectedLen, readVars>>

Increment ==
  /\ phase = "normalize"
  /\ Total(norm) < TableSize
  /\ norm' = [norm EXCEPT ![Neediest(Counts(message), norm)] = @ + 1]
  /\ UNCHANGED <<phase, coder, treeVars, slots, pos, state, writeVars, whole,
                 expectedLen, readVars>>

Normalized ==
  /\ phase = "normalize"
  /\ Total(norm) = TableSize
  /\ phase' = "spread"
  /\ UNCHANGED <<coder, treeVars, tableVars, state, writeVars, whole,
                 expectedLen, readVars>>

(* spread_symbols: the symbols in order, each as often as it has slots,    *)
(* into the next free slot at multiples of the step. The encoder and the   *)
(* decoder each do this with the same frequencies.                         *)
Placed == {i \in DOMAIN slots : slots[i] # Free}

Spread ==
  /\ phase = "spread"
  /\ Cardinality(Placed) < TableSize
  /\ slots' = IF pos \in Placed THEN slots
              ELSE [slots EXCEPT ![pos] =
                      CHOOSE s \in Symbols :
                        /\ SumFunctionOnSet(norm, 0 .. s - 1) <= Cardinality(Placed)
                        /\ Cardinality(Placed) < SumFunctionOnSet(norm, 0 .. s)]
  /\ pos' = (pos + Step) % TableSize
  /\ UNCHANGED <<phase, coder, treeVars, norm, state, writeVars, whole,
                 expectedLen, readVars>>

SpreadDone ==
  /\ phase = "spread"
  /\ Cardinality(Placed) = TableSize
  /\ phase' = IF message = <<>> THEN "readState" ELSE "write"
  /\ UNCHANGED <<coder, treeVars, tableVars, state, writeVars, whole,
                 expectedLen, readVars>>

-----------------------------------------------------------------------------
WriteHuffman ==
  /\ phase = "write" /\ coder = "huffman"
  /\ written < Len(message)
  /\ LET s == message[written + 1] IN bits' = bits \o Bits(Code(lengths, s), lengths[s])
  /\ written' = written + 1
  /\ UNCHANGED <<phase, coder, treeVars, tableVars, state, message, whole,
                 expectedLen, readVars>>

(* Mutant of WriteAns: the chunks in the order in which they were made.    *)
WriteAnsForward ==
  /\ phase = "write" /\ coder = "ans"
  /\ written < Len(message)
  /\ LET s == message[Len(message) - written]
         n == EncodeBits(norm, s, state)
     IN /\ bits' = bits \o Bits(state % Pow2[n], n)
        /\ state' = NextState(slots, s, state \div Pow2[n] - norm[s])
  /\ written' = written + 1
  /\ UNCHANGED <<phase, coder, treeVars, tableVars, message, whole,
                 expectedLen, readVars>>

(* From the last symbol to the first, as the decoder runs the states back: *)
(* the chunks are written in the opposite order, behind the final state.   *)
WriteAns ==
  /\ phase = "write" /\ coder = "ans"
  /\ written < Len(message)
  /\ LET s == message[Len(message) - written]
         n == EncodeBits(norm, s, state)
     IN /\ bits' = Bits(state % Pow2[n], n) \o bits
        /\ state' = NextState(slots, s, state \div Pow2[n] - norm[s])
  /\ written' = written + 1
  /\ UNCHANGED <<phase, coder, treeVars, tableVars, message, whole,
                 expectedLen, readVars>>

(* flush_align fills the last byte with zeros. What reaches the decoder    *)
(* may be short of some bytes.                                             *)
Flush ==
  LET all == (IF coder = "ans" THEN Bits(state, StateBits) ELSE <<>>) \o bits
      bytes == (Len(all) + ByteBits - 1) \div ByteBits
      padded == [i \in 1 .. bytes * ByteBits |-> IF i <= Len(all) THEN all[i] ELSE 0]
  IN
  /\ phase = "write"
  /\ written = Len(message)
  /\ \E n \in 0 .. bytes :
       bits' = SubSeq(padded, 1, n * ByteBits) /\ whole' = (n = bytes)
  /\ phase' = IF coder = "ans" THEN "readState" ELSE "descriptors"
  /\ UNCHANGED <<coder, treeVars, tableVars, state, message, written,
                 expectedLen, readVars>>

-----------------------------------------------------------------------------
Finish(r) == phase' = "done" /\ outcome' = r

(* HuffmanDecoderTable::build and AnsDecodeTable::build refuse descriptors *)
(* that no tree and no table has.                                          *)
CheckDescriptors ==
  /\ phase = "descriptors"
  /\ \/ /\ coder = "huffman"
        /\ IF Oversubscribed(lengths) THEN Finish("CorruptedEntropyStream")
           ELSE phase' = "read" /\ UNCHANGED outcome
     \/ /\ coder = "ans"
        /\ IF Total(norm) # TableSize THEN Finish("CorruptedEntropyStream")
           ELSE phase' = "spread" /\ UNCHANGED outcome
  /\ UNCHANGED <<coder, treeVars, tableVars, state, writeVars, whole,
                 expectedLen, read, delivered>>

Available == Len(bits) - read

(* peek_bits: the next bits, zeros behind the end.                         *)
Peek(count) ==
  Value([i \in 1 .. count |-> IF read + i <= Len(bits) THEN bits[read + i] ELSE 0])

(* Mutant of Dropped: more bits than there are.                            *)
DroppedBeyond(count) == read + count

(* drop_bits drops no more than there is.                                  *)
Dropped(count) == IF count <= Available THEN read + count ELSE Len(bits)

ReadState ==
  /\ phase = "readState"
  /\ IF Available < StateBits
       THEN Finish("UnexpectedEof") /\ UNCHANGED <<state, read>>
       ELSE /\ state' = Peek(StateBits)
            /\ read' = read + StateBits
            /\ IF Peek(StateBits) \in States THEN phase' = "read" /\ UNCHANGED outcome
               ELSE Finish("CorruptedEntropyStream")
  /\ UNCHANGED <<coder, treeVars, tableVars, writeVars, whole, expectedLen,
                 delivered>>

(* The decoding loop, once a symbol is known.                              *)
Deliver(s) ==
  \/ /\ s = Eob
     /\ Finish(IF Len(delivered) = expectedLen THEN "ok" ELSE "UnexpectedEof")
     /\ UNCHANGED delivered
  \/ /\ s # Eob /\ Len(delivered) = expectedLen
     /\ Finish("InvalidMatchLength")
     /\ UNCHANGED delivered
  \/ /\ s # Eob /\ Len(delivered) < expectedLen
     /\ delivered' = Append(delivered, s)
     /\ UNCHANGED <<phase, outcome>>

ReadHuffman ==
  /\ phase = "read" /\ coder = "huffman"
  /\ \E s \in Lookup(lengths, Peek(MaxBits)) :
       Deliver(s) /\ read' = Dropped(lengths[s])
  /\ UNCHANGED <<coder, treeVars, tableVars, state, writeVars, whole, expectedLen>>

ReadNoCode ==
  /\ phase = "read" /\ coder = "huffman"
  /\ Lookup(lengths, Peek(MaxBits)) = {}
  /\ Finish("CorruptedEntropyStream")
  /\ UNCHANGED <<coder, treeVars, tableVars, state, writeVars, whole,
                 expectedLen, read, delivered>>

(* Mutant of AnsReads: peeking in place of reading at the end.             *)
AnsReadsPadding(count) == TRUE

(* read_bits, unlike peek_bits, fails when bits are missing.               *)
AnsReads(count) == count <= Available

ReadAns ==
  LET entry == DecodeEntry(slots, norm, state) IN
  /\ phase = "read" /\ coder = "ans"
  /\ AnsReads(entry.bits)
  /\ state' = entry.base + Peek(entry.bits)
  /\ read' = Dropped(entry.bits)
  /\ Deliver(entry.symbol)
  /\ UNCHANGED <<coder, treeVars, tableVars, writeVars, whole, expectedLen>>

ReadAnsEof ==
  /\ phase = "read" /\ coder = "ans"
  /\ ~AnsReads(DecodeEntry(slots, norm, state).bits)
  /\ Finish("UnexpectedEof")
  /\ UNCHANGED <<coder, treeVars, tableVars, state, writeVars, whole,
                 expectedLen, read, delivered>>

Finished == phase = "done" /\ UNCHANGED entropyVars

Build ==
  \/ Merge \/ Merged \/ Limit \/ Limited
  \/ Decrement \/ Increment \/ Normalized \/ Spread \/ SpreadDone

Write == WriteHuffman \/ WriteAns \/ Flush

DecodeStep ==
  \/ CheckDescriptors \/ ReadState
  \/ ReadHuffman \/ ReadNoCode \/ ReadAns \/ ReadAnsEof

EntropyNext == Build \/ Write \/ DecodeStep \/ Finished

EntropySpec == EntropyInit /\ [][EntropyNext]_entropyVars

FairEntropySpec == EntropySpec /\ WF_entropyVars(Build \/ Write \/ DecodeStep)

-----------------------------------------------------------------------------
(* Types: every variable keeps its type.                                   *)
EntropyTypeOK ==
  /\ phase \in {"merge", "limit", "normalize", "spread", "write", "descriptors",
                "readState", "read", "done"}
  /\ coder \in {"huffman", "ans"}
  /\ message \in Seq(Symbols) /\ written \in 0 .. Len(message)
  /\ lengths \in [Symbols -> Nat]
  /\ phase \in {"write", "read"} => lengths \in [Symbols -> 0 .. MaxBits]
  /\ norm \in [Symbols -> 0 .. TableSize]
  /\ slots \in [0 .. TableSize - 1 -> Symbols \cup {Free}]
  /\ pos \in 0 .. TableSize - 1
  /\ state \in Nat
  /\ bits \in Seq({0, 1}) /\ read \in 0 .. Len(bits)
  /\ whole \in BOOLEAN
  /\ expectedLen \in Nat
  /\ delivered \in Seq(Symbols)
  /\ outcome \in {"none", "ok", "UnexpectedEof", "InvalidMatchLength",
                  "CorruptedEntropyStream"}

(* No window of bits is the beginning of two codes, in a tree that had to  *)
(* be limited or was received as much as in any other.                     *)
CodesArePrefixFree ==
  coder = "huffman" /\ phase \in {"write", "read"} /\ written + read = 0 =>
    \A window \in 0 .. Pow2[MaxBits] - 1 : Cardinality(Lookup(lengths, window)) <= 1

Cost(ls) == SumFunction([s \in Symbols |-> Counts(message)[s] * ls[s]])

(* As long as no code had to be limited, no prefix code is shorter than    *)
(* the tree's: ties and single symbols included.                           *)
TreeIsOptimal ==
  phase = "limit" /\ (\A s \in Symbols : lengths[s] < MaxBits) =>
    \A ls \in [Counted(Counts(message)) -> 1 .. MaxBits] :
      LET all == [s \in Symbols |-> IF s \in DOMAIN ls THEN ls[s] ELSE 0] IN
      Oversubscribed(all) \/ Cost(lengths) <= Cost(all)

(* The encoder's table gives every symbol of the message a slot, no other  *)
(* symbol one, and each as many as its frequency says.                     *)
TableFitsMessage ==
  coder = "ans" /\ phase = "write" /\ written = 0 =>
    /\ Counted(norm) = Counted(Counts(message))
    /\ \A s \in Symbols : Cardinality({i \in DOMAIN slots : slots[i] = s}) = norm[s]

(* Neither direction leaves the states of the table, and the encoder's     *)
(* index into the slots of a symbol is one of them.                        *)
StatesStayInTable ==
  /\ coder = "ans" /\ phase \in {"write", "read"} => state \in States
  /\ coder = "ans" /\ phase = "write" => \A s \in Counted(norm) :
       LET n == EncodeBits(norm, s, state) IN
       n >= 0 /\ state \div Pow2[n] - norm[s] \in 0 .. norm[s] - 1

Literals == SubSeq(message, 1, Len(message) - 1)

(* A whole payload decodes to what was encoded, and the ANS decoder ends   *)
(* in the state the encoder began with.                                    *)
SymbolsSurvive ==
  phase = "done" /\ message # <<>> /\ whole =>
    /\ outcome = "ok" /\ delivered = Literals
    /\ coder = "ans" => state = TableSize

CodeBits(m) == SumFunction([i \in DOMAIN m |-> lengths[m[i]]])

(* Of a payload that lacks bytes, the ANS decoder delivers only symbols    *)
(* that were encoded and never ends well. The Huffman decoder reads zeros  *)
(* behind the end: what it delivers is right as far as the bits reach.     *)
TruncationIsNoticed ==
  message # <<>> /\ ~whole =>
    /\ coder = "ans" =>
         SubSeq(message, 1, Len(delivered)) = delivered /\ (outcome = "ok" => delivered = Literals)
    /\ coder = "huffman" /\ CodeBits(delivered) <= Len(bits) =>
         SubSeq(message, 1, Len(delivered)) = delivered

(* Every loop ends: joining subtrees, lengthening codes, giving out slots, *)
(* filling the table, and decoding from bits that have run out.            *)
CodingReturns == <>(phase = "done")
=============================================================================
