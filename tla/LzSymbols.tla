------------------------------ MODULE LzSymbols -------------------------------
(***************************************************************************)
(* The LZ layer of the LZH and LZA codecs (libcodrop/src/codec/lzh.rs,     *)
(* lza.rs): the tokenizer with lazy matching, the symbols that stand for   *)
(* lengths and distances, and the decoding loop. The two codecs share all  *)
(* of it; the entropy coder between them carries a sequence of symbols and *)
(* is the subject of EntropyCoding.                                        *)
(*                                                                         *)
(* A behaviour is the encoder followed by the decoder, or the decoder      *)
(* alone on symbols that need not come from an encoder. Positions are      *)
(* 0-based as in the code; sequences are not.                              *)
(***************************************************************************)
EXTENDS Integers, Sequences, FiniteSets

CONSTANTS
  Byte,
  Slot,          \* indices of the match finder's table
  hash4,         \* the hash of four bytes, a function to Slot
  MaxMatchLen,
  MaxOffset,
  Inputs,        \* the data an encoder may be given
  Payloads,      \* the symbols a decoder may be given
  Paddings,      \* what a decoder may find behind the last symbol
  Expected       \* the sizes a block header may declare for a payload

LengthBase ==
  <<3, 4, 5, 6, 7, 8, 9, 10, 11, 13, 15, 17, 19, 23, 27, 31, 35, 43, 51, 59,
    67, 83, 99, 115, 131, 163, 195, 227, 258>>
LengthExtraBits ==
  <<0, 0, 0, 0, 0, 0, 0, 0, 1, 1, 1, 1, 2, 2, 2, 2, 3, 3, 3, 3,
    4, 4, 4, 4, 5, 5, 5, 5, 16>>
DistanceBase ==
  <<1, 2, 3, 4, 5, 7, 9, 13, 17, 25, 33, 49, 65, 97, 129, 193, 257, 385, 513,
    769, 1025, 1537, 2049, 3073, 4097, 6145, 8193, 12289, 16385, 24577, 32769,
    49153>>
DistanceExtraBits ==
  <<0, 0, 0, 0, 1, 1, 2, 2, 3, 3, 4, 4, 5, 5, 6, 6, 7, 7, 8, 8, 9, 9, 10, 10,
    11, 11, 12, 12, 13, 13, 14, 14>>
LazyLimit == 32
Farthest == 65535  \* MAX_OFFSET and MAX_MATCH_LEN: the largest the limits may be

(* A symbol with its extra bits. "invalid" is a code that no symbol has,   *)
(* "torn" one whose bits, or extra bits, are cut off by the payload's end. *)
Kinds == {"literal", "eob", "length", "distance", "invalid", "torn"}
Symbol == [kind : Kinds, value : Nat, extra : Nat]
Bare(k) == [kind |-> k, value |-> 0, extra |-> 0]
Literal(b) == [kind |-> "literal", value |-> b, extra |-> 0]

Readable(s) ==
  /\ s.kind = "literal" => s.value \in Byte
  /\ s.kind = "length" => s.value \in 1 .. 29
  /\ s.kind = "distance" => s.value \in 1 .. 32

ASSUME ByteAssumption == Byte \subseteq Nat
ASSUME HashAssumption == hash4 \in [[1 .. 4 -> Byte] -> Slot]
ASSUME LimitsAssumption ==
  MaxMatchLen \in 3 .. Farthest /\ MaxOffset \in 1 .. Farthest
ASSUME CallsAssumption ==
  /\ Inputs \subseteq Seq(Byte) /\ Expected \subseteq Nat
  /\ \A p \in Payloads : p \in Seq(Symbol) /\ \A i \in 1 .. Len(p) : Readable(p[i])
  /\ \A p \in Paddings :
       p \in [symbol : Symbol, distance : Symbol] /\ Readable(p.symbol) /\ Readable(p.distance)

VARIABLES
  pc,           \* what the running call does next
  codec,        \* "LZH" or "LZA"
  data,         \* encode's argument
  ip,           \* the position of the next token
  table,        \* position + 1 of the last occurrence by hash, 0 for none
  symbols,      \* what the encoder emits and the decoder reads
  padding,      \* what reading past the end of the bits yields
  expected,     \* expected_len
  cursor,       \* how many symbols have been read
  length,       \* the length of the match that is being decoded
  decoded,      \* the decoder's out
  result        \* "none", "ok" or the error

encoderVars == <<data, ip, table, symbols>>
callVars == <<codec, padding, expected>>
decoderVars == <<cursor, length, decoded, result>>
vars == <<pc, encoderVars, callVars, decoderVars>>

NoPadding == [symbol |-> Bare("torn"), distance |-> Bare("torn")]

Init ==
  /\ \/ /\ pc = "tokenize"
        /\ data \in Inputs /\ expected = Len(data)
        /\ symbols = <<>> /\ padding = NoPadding
     \/ /\ pc = "decode"
        /\ data = <<>> /\ expected \in Expected
        /\ symbols \in Payloads /\ padding \in Paddings
  /\ codec \in {"LZH", "LZA"}
  /\ ip = 0
  /\ table = [h \in Slot |-> 0]
  /\ cursor = 0
  /\ length = 0
  /\ decoded = <<>>
  /\ result = "none"

-----------------------------------------------------------------------------
(* Mutant of Class: `partition_point` with < in place of <=.               *)
ClassBelow(base, n) == 1 + Cardinality({i \in 2 .. Len(base) : base[i] < n})

(* The class of a length or distance: the last one whose base it reaches.  *)
Class(base, n) == Cardinality({i \in 1 .. Len(base) : base[i] <= n})

(* The extra bits keep only as many bits as the class has.                 *)
LengthSymbol(len) ==
  LET c == Class(LengthBase, len) IN
  [kind |-> "length", value |-> c,
   extra |-> (len - LengthBase[c]) % 2 ^ LengthExtraBits[c]]

DistanceSymbol(dist) ==
  LET c == Class(DistanceBase, dist) IN
  [kind |-> "distance", value |-> c,
   extra |-> (dist - DistanceBase[c]) % 2 ^ DistanceExtraBits[c]]

HashAt(i) == hash4[[k \in 1 .. 4 |-> data[i + k]]]

CanSearch == pc = "tokenize" /\ ip + 4 <= Len(data)

(* A slot answers with any earlier quadruple of the same hash: three bytes *)
(* of it have to be equal.                                                 *)
Matches(i, ref) ==
  /\ ref # -1
  /\ ref < i
  /\ i - ref <= MaxOffset
  /\ \A k \in 1 .. 3 : data[ref + k] = data[i + k]

(* m is the length of the match of i with ref.                             *)
IsMatchLength(i, ref, m) ==
  /\ \A k \in 1 .. m : data[ref + k] = data[i + k]
  /\ m < MaxMatchLen /\ i + m < Len(data) => data[ref + m + 1] # data[i + m + 1]

MatchLengths(i) == 3 .. IF Len(data) - i < MaxMatchLen THEN Len(data) - i ELSE MaxMatchLen

(* Mutant of Remembered: the position behind the quadruple.                *)
RememberedEnd == [table EXCEPT ![HashAt(ip)] = ip + 4]

Remembered == [table EXCEPT ![HashAt(ip)] = ip + 1]

Previous == table[HashAt(ip)] - 1

(* Position ip + 1 has a longer match, ip itself already being in the      *)
(* table. It is not entered into the table for having been looked at.      *)
BetterNext(m) ==
  /\ m < LazyLimit
  /\ ip + 5 <= Len(data)
  /\ LET ref == Remembered[HashAt(ip + 1)] - 1 IN
       /\ Matches(ip + 1, ref)
       /\ \E n \in MatchLengths(ip + 1) : n > m /\ IsMatchLength(ip + 1, ref, n)

TokenizeMatch ==
  /\ CanSearch
  /\ Matches(ip, Previous)
  /\ \E m \in MatchLengths(ip) :
       /\ IsMatchLength(ip, Previous, m)
       /\ ~BetterNext(m)
       /\ symbols' = symbols \o <<LengthSymbol(m), DistanceSymbol(ip - Previous)>>
       /\ ip' = ip + m
  /\ table' = Remembered
  /\ UNCHANGED <<pc, data, callVars, decoderVars>>

TokenizeLazily ==
  /\ CanSearch
  /\ Matches(ip, Previous)
  /\ \E m \in MatchLengths(ip) : IsMatchLength(ip, Previous, m) /\ BetterNext(m)
  /\ symbols' = Append(symbols, Literal(data[ip + 1]))
  /\ ip' = ip + 1
  /\ table' = Remembered
  /\ UNCHANGED <<pc, data, callVars, decoderVars>>

TokenizeLiteral ==
  /\ CanSearch
  /\ ~Matches(ip, Previous)
  /\ symbols' = Append(symbols, Literal(data[ip + 1]))
  /\ ip' = ip + 1
  /\ table' = Remembered
  /\ UNCHANGED <<pc, data, callVars, decoderVars>>

(* The last bytes, too few to be hashed.                                   *)
TokenizeTail ==
  /\ pc = "tokenize" /\ ~CanSearch
  /\ ip < Len(data)
  /\ symbols' = Append(symbols, Literal(data[ip + 1]))
  /\ ip' = ip + 1
  /\ UNCHANGED <<pc, data, table, callVars, decoderVars>>

(* Every payload but that of no data ends with the end-of-block symbol.    *)
EndBlock ==
  /\ pc = "tokenize"
  /\ ip = Len(data)
  /\ symbols' = IF data = <<>> THEN <<>> ELSE Append(symbols, Bare("eob"))
  /\ pc' = "decode"
  /\ UNCHANGED <<data, ip, table, callVars, decoderVars>>

-----------------------------------------------------------------------------
Return(r) == pc' = "done" /\ result' = r

(* Mutant of Remaining: what is decoded already is not subtracted.         *)
RemainingOfBlock == expected

Remaining == expected - Len(decoded)

(* For a block of no bytes LZH demands an empty payload and LZA does not.  *)
DecodeStarts ==
  /\ pc = "decode"
  /\ \/ expected > 0 /\ symbols # <<>> /\ pc' = "symbol" /\ UNCHANGED result
     \/ expected > 0 /\ symbols = <<>> /\ Return("UnexpectedEof")
     \/ /\ expected = 0
        /\ Return(IF codec = "LZA" \/ symbols = <<>> THEN "ok" ELSE "CorruptedEntropyStream")
  /\ UNCHANGED <<encoderVars, callVars, cursor, length, decoded>>

(* Mutant of Consumed: dropping bits that are not there.                   *)
ConsumedBeyond == cursor + 1

Consumed == IF cursor < Len(symbols) THEN cursor + 1 ELSE cursor

(* The next symbol. A Huffman code is looked up in bits padded with zeros  *)
(* and an ANS symbol may take no bits at all: behind the end both go on    *)
(* reading one and the same symbol of each alphabet.                       *)
Sym ==
  IF cursor < Len(symbols) THEN symbols[cursor + 1]
  ELSE IF pc = "distance" THEN padding.distance ELSE padding.symbol

Read(phase, kind) == pc = phase /\ Sym.kind = kind /\ cursor' = Consumed

ReadLiteral ==
  /\ Read("symbol", "literal")
  /\ IF Remaining = 0
       THEN Return("InvalidMatchLength") /\ UNCHANGED decoded
       ELSE decoded' = Append(decoded, Sym.value) /\ UNCHANGED <<pc, result>>
  /\ UNCHANGED <<encoderVars, callVars, length>>

(* The end: what may follow it in the payload is not looked at.            *)
ReadEndOfBlock ==
  /\ Read("symbol", "eob")
  /\ Return(IF Len(decoded) = expected THEN "ok" ELSE "UnexpectedEof")
  /\ UNCHANGED <<encoderVars, callVars, length, decoded>>

(* The length is tested before its distance is read.                       *)
ReadLength ==
  /\ Read("symbol", "length")
  /\ LET len == LengthBase[Sym.value] + Sym.extra IN
       /\ length' = len
       /\ IF len > Remaining THEN Return("InvalidMatchLength")
          ELSE pc' = "distance" /\ UNCHANGED result
  /\ UNCHANGED <<encoderVars, callVars, decoded>>

(* length bytes from distance bytes back, byte by byte: a copy that        *)
(* catches up with its source repeats it.                                  *)
CopyFrom(distance) ==
  [i \in 1 .. length |-> decoded[Len(decoded) - distance + 1 + ((i - 1) % distance)]]

ReadDistance ==
  /\ Read("distance", "distance")
  /\ LET distance == DistanceBase[Sym.value] + Sym.extra IN
       IF distance > Len(decoded)
         THEN Return("InvalidOffset") /\ UNCHANGED decoded
         ELSE decoded' = decoded \o CopyFrom(distance) /\ pc' = "symbol" /\ UNCHANGED result
  /\ UNCHANGED <<encoderVars, callVars, length>>

(* A symbol of the other alphabet, or none at all.                         *)
ReadMisplaced ==
  /\ \/ Read("symbol", "distance")
     \/ \E k \in {"literal", "eob", "length"} : Read("distance", k)
     \/ \E phase \in {"symbol", "distance"} : Read(phase, "invalid")
  /\ Return("CorruptedEntropyStream")
  /\ UNCHANGED <<encoderVars, callVars, length, decoded>>

(* Mutant of ReadTorn: a match without a distance is skipped.              *)
ReadTornSkipping ==
  /\ \E phase \in {"symbol", "distance"} : Read(phase, "torn")
  /\ \/ pc = "symbol" /\ Return("UnexpectedEof")
     \/ pc = "distance" /\ pc' = "symbol" /\ UNCHANGED result
  /\ UNCHANGED <<encoderVars, callVars, length, decoded>>

ReadTorn ==
  /\ \E phase \in {"symbol", "distance"} : Read(phase, "torn")
  /\ Return("UnexpectedEof")
  /\ UNCHANGED <<encoderVars, callVars, length, decoded>>

Done == pc = "done" /\ UNCHANGED vars

Encode ==
  TokenizeMatch \/ TokenizeLazily \/ TokenizeLiteral \/ TokenizeTail \/ EndBlock

Decode ==
  \/ DecodeStarts \/ ReadLiteral \/ ReadEndOfBlock \/ ReadLength \/ ReadDistance
  \/ ReadMisplaced \/ ReadTorn

Next == Encode \/ Decode \/ Done

Spec == Init /\ [][Next]_vars

FairSpec == Spec /\ WF_vars(Encode \/ Decode)

-----------------------------------------------------------------------------
(* Types: every variable keeps its type.                                   *)
TypeOK ==
  /\ pc \in {"tokenize", "decode", "symbol", "distance", "done"}
  /\ codec \in {"LZH", "LZA"}
  /\ data \in Seq(Byte)
  /\ ip \in Nat
  /\ table \in [Slot -> Nat]
  /\ symbols \in Seq(Symbol)
  /\ padding \in [symbol : Symbol, distance : Symbol]
  /\ expected \in Nat
  /\ cursor \in 0 .. Len(symbols)
  /\ length \in Nat
  /\ decoded \in Seq(Byte)
  /\ result \in {"none", "ok", "UnexpectedEof", "InvalidMatchLength",
                 "InvalidOffset", "CorruptedEntropyStream"}

(* The tokenizer looks back only: `ip - ref_pos` and `(ip + 1) - ref_next`,*)
(* computed before any test of their operands, never underflow, although a *)
(* match skips positions and a lazy step goes back on one.                 *)
SearchLooksBack == (\A h \in Slot : table[h] <= ip) /\ ip <= Len(data)

(* No symbols make the decoder produce more than the declared size, not    *)
(* even in between, and it accepts exactly that size.                      *)
DecoderStaysInBounds ==
  /\ Len(decoded) <= expected
  /\ pc = "distance" => length <= Remaining
  /\ result = "ok" => Len(decoded) = expected

(* What the tokenizer emits decodes to its input, whichever of a match and *)
(* a later one it takes, through the classes of lengths and distances.     *)
RoundTrip == pc = "done" /\ data # <<>> => result = "ok" /\ decoded = data

(* Both loops end, also on payloads that end early and go on yielding      *)
(* symbols: the declared size is the only limit of the decoding loop.      *)
Returns == <>(pc = "done")
=============================================================================
