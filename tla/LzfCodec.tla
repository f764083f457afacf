------------------------------- MODULE LzfCodec -------------------------------
(***************************************************************************)
(* LzfCodec of libcodrop/src/codec/lzf.rs: encode_with_offset_mode and     *)
(* decode_with_offset_mode, one turn of a loop or one field of a token per *)
(* action. A behaviour is either the encoder on some data followed by the  *)
(* decoder on what it emitted, or the decoder alone on a payload that need *)
(* not come from an encoder.                                               *)
(*                                                                         *)
(* A byte has two nibbles of Radix values each (16 in the code): a smaller *)
(* Radix puts the extended lengths and the largest offset within reach of  *)
(* short data. Positions are 0-based as in the code; sequences are not.    *)
(***************************************************************************)
EXTENDS Integers, Sequences

CONSTANTS
  Radix,         \* values of a nibble
  OffsetMode,    \* "Offset16" or "Offset24": two bytes of offset or three
  Slot,          \* indices of the match finder's table
  hash4,         \* the hash of four bytes, a function to Slot
  Inputs,        \* the data an encoder may be given
  Payloads,      \* the payloads a decoder may be given
  Expected       \* the sizes a block header may declare for a payload

Escape == Radix * Radix - 1
NibbleMax == Radix - 1
Byte == 0 .. Escape
MinMatch == 3
Base == Radix * Radix

OffsetBytes == IF OffsetMode = "Offset16" THEN 2 ELSE 3
MaxOffset == IF OffsetMode = "Offset16" THEN Base * Base - 1 ELSE Base * Base * Base - 1

ASSUME RadixAssumption == Radix \in Nat \ {0, 1}
ASSUME OffsetAssumption == OffsetMode \in {"Offset16", "Offset24"}
ASSUME HashAssumption == hash4 \in [[1 .. 4 -> Byte] -> Slot]
ASSUME CallsAssumption ==
  Inputs \subseteq Seq(Byte) /\ Payloads \subseteq Seq(Byte) /\ Expected \subseteq Nat

VARIABLES
  pc,           \* what the running call does next
  data,         \* encode's argument
  ip, anchor,   \* the position searched from, the first byte not yet emitted
  table,        \* position + 1 of the last occurrence by hash, 0 for none
  compressed,   \* the encoder's output and the decoder's argument
  expected,     \* expected_len
  cursor,       \* how much of compressed has been read
  matchNibble,  \* of the token that is being decoded
  length,       \* the literal or match length that is being decoded
  decoded,      \* the decoder's out
  result        \* "none", "ok" or the error

encoderVars == <<data, ip, anchor, table, compressed>>
decoderVars == <<cursor, matchNibble, length, decoded, result>>
vars == <<pc, encoderVars, expected, decoderVars>>

Phases == {"encode", "search", "tail", "decode", "token", "literalExt",
           "literals", "matchExt", "match", "done"}
Errors == {"UnexpectedEof", "InvalidMatchLength", "MemoryLimitExceeded",
           "InvalidOffset", "CorruptedEntropyStream"}

Init ==
  /\ \/ /\ pc = "encode"
        /\ data \in Inputs /\ expected = Len(data) /\ compressed = <<>>
     \/ /\ pc = "decode"
        /\ data = <<>> /\ expected \in Expected /\ compressed \in Payloads
  /\ ip = 0 /\ anchor = 0
  /\ table = [h \in Slot |-> 0]
  /\ cursor = 0
  /\ matchNibble = 0
  /\ length = 0
  /\ decoded = <<>>
  /\ result = "none"

-----------------------------------------------------------------------------
(* Mutant of Extension: no byte 0 behind an exact multiple of Escape.      *)
ExtensionWithoutZero(len, base) ==
  IF len < base THEN <<>>
  ELSE [i \in 1 .. (len - base) \div Escape |-> Escape]
         \o (IF len > base /\ (len - base) % Escape = 0 THEN <<>>
             ELSE <<(len - base) % Escape>>)

(* The bytes behind a token whose nibble for a length is at its maximum.   *)
Extension(len, base) ==
  IF len < base THEN <<>>
  ELSE [i \in 1 .. (len - base) \div Escape |-> Escape]
         \o <<(len - base) % Escape>>

(* Mutant of Nibble: the length Radix does not overflow it.                *)
NibbleOverflowing(len) == IF len <= Radix THEN len ELSE NibbleMax

Nibble(len) == IF len < NibbleMax THEN len ELSE NibbleMax

LittleEndian(n) ==
  IF OffsetMode = "Offset16" THEN <<n % Base, (n \div Base) % Base>>
  ELSE <<n % Base, (n \div Base) % Base, (n \div (Base * Base)) % Base>>

LiteralRun(literals, nibble) ==
  <<Nibble(Len(literals)) * Radix + nibble>>
    \o Extension(Len(literals), NibbleMax) \o literals

Pending(upto) == SubSeq(data, anchor + 1, upto)

(* encode's early returns: nothing for no data, one token for less than    *)
(* the four bytes that a hash takes.                                       *)
EncodeShort ==
  /\ pc = "encode"
  /\ Len(data) < 4
  /\ compressed' = IF data = <<>> THEN <<>> ELSE LiteralRun(data, 0)
  /\ pc' = "decode"
  /\ UNCHANGED <<data, ip, anchor, table, expected, decoderVars>>

EncodeLong ==
  /\ pc = "encode"
  /\ Len(data) >= 4
  /\ pc' = "search"
  /\ UNCHANGED <<encoderVars, expected, decoderVars>>

CanSearch == pc = "search" /\ ip + 4 <= Len(data)

HashAt(i) == hash4[[k \in 1 .. 4 |-> data[i + k]]]

Previous == table[HashAt(ip)] - 1

(* A slot answers with any earlier quadruple of the same hash: three bytes *)
(* of it have to be equal, the fourth does not.                            *)
Found ==
  /\ Previous # -1
  /\ Previous < ip
  /\ ip - Previous <= MaxOffset
  /\ \A k \in 1 .. MinMatch : data[Previous + k] = data[ip + k]

(* m is the length of the match at ip: it may run into itself, and ends at *)
(* the first difference or with the data.                                  *)
IsMatchLength(m) ==
  /\ \A k \in 1 .. m : data[Previous + k] = data[ip + k]
  /\ ip + m < Len(data) => data[Previous + m + 1] # data[ip + m + 1]

(* Mutant of Remember: the position behind the quadruple.                  *)
RememberEnd == table' = [table EXCEPT ![HashAt(ip)] = ip + 4]

Remember == table' = [table EXCEPT ![HashAt(ip)] = ip + 1]

EmitMatch ==
  /\ CanSearch
  /\ Found
  /\ Remember
  /\ \E m \in MinMatch .. Len(data) - ip :
       /\ IsMatchLength(m)
       /\ compressed' = compressed
            \o LiteralRun(Pending(ip), Nibble(m - MinMatch))
            \o Extension(m, MinMatch + NibbleMax) \o LittleEndian(ip - Previous)
       /\ ip' = ip + m
       /\ anchor' = ip + m
  /\ UNCHANGED <<pc, data, expected, decoderVars>>

(* Mutant of SkipByte: `continue` on a collision, before `ip += 1`.        *)
SkipByteUnlessCollision ==
  /\ CanSearch
  /\ ~Found
  /\ Remember
  /\ ip' = IF Previous = -1 THEN ip + 1 ELSE ip
  /\ UNCHANGED <<pc, data, anchor, compressed, expected, decoderVars>>

SkipByte ==
  /\ CanSearch
  /\ ~Found
  /\ Remember
  /\ ip' = ip + 1
  /\ UNCHANGED <<pc, data, anchor, compressed, expected, decoderVars>>

SearchEnds ==
  /\ pc = "search" /\ ~CanSearch
  /\ pc' = "tail"
  /\ UNCHANGED <<encoderVars, expected, decoderVars>>

(* The literals after the last match; their token has match nibble 0.      *)
EmitTail ==
  /\ pc = "tail"
  /\ compressed' = IF anchor = Len(data) THEN compressed
                   ELSE compressed \o LiteralRun(Pending(Len(data)), 0)
  /\ pc' = "decode"
  /\ UNCHANGED <<data, ip, anchor, table, expected, decoderVars>>

-----------------------------------------------------------------------------
Return(r) == pc' = "done" /\ result' = r

(* Mutant of Remaining: what is decoded already is not subtracted.         *)
RemainingOfBlock == expected

Remaining == expected - Len(decoded)

(* A byte of the payload that is there to be read, and is then consumed.   *)
Take == cursor < Len(compressed) /\ cursor' = cursor + 1

Next1 == compressed[cursor + 1]

DecodeStarts ==
  /\ pc = "decode"
  /\ IF expected > 0 THEN pc' = "token" /\ UNCHANGED result
     ELSE Return(IF compressed = <<>> THEN "ok" ELSE "CorruptedEntropyStream")
  /\ UNCHANGED <<encoderVars, expected, cursor, matchNibble, length, decoded>>

(* The token, and the literal length unless it has extension bytes.        *)
ReadToken ==
  LET nibble == Next1 \div Radix IN
  /\ pc = "token"
  /\ Take
  /\ matchNibble' = Next1 % Radix
  /\ length' = nibble
  /\ \/ nibble = NibbleMax /\ pc' = "literalExt" /\ UNCHANGED result
     \/ nibble # NibbleMax /\ nibble <= Remaining /\ pc' = "literals" /\ UNCHANGED result
     \/ nibble # NibbleMax /\ nibble > Remaining /\ Return("InvalidMatchLength")
  /\ UNCHANGED <<encoderVars, expected, decoded>>

(* One extension byte of a length; the limit is tested after every byte.   *)
Extend(next, tooLong) ==
  /\ Take
  /\ length' = length + Next1
  /\ IF length + Next1 > Remaining THEN Return(tooLong)
     ELSE /\ pc' = IF Next1 < Escape THEN next ELSE pc
          /\ UNCHANGED result
  /\ UNCHANGED <<encoderVars, expected, matchNibble, decoded>>

ExtendLiterals == pc = "literalExt" /\ Extend("literals", "MemoryLimitExceeded")

ExtendMatch == pc = "matchExt" /\ Extend("match", "InvalidMatchLength")

ExtensionEof ==
  /\ pc \in {"literalExt", "matchExt"}
  /\ cursor >= Len(compressed)
  /\ Return("UnexpectedEof")
  /\ UNCHANGED <<encoderVars, expected, cursor, matchNibble, length, decoded>>

Complete(read) ==
  Return(IF read = Len(compressed) THEN "ok" ELSE "CorruptedEntropyStream")

(* The literals; then the end of the block, or the length of the match.    *)
CopyLiterals ==
  LET out == decoded \o SubSeq(compressed, cursor + 1, cursor + length)
      read == cursor + length
      match == matchNibble + MinMatch
  IN
  /\ pc = "literals"
  /\ read <= Len(compressed)
  /\ decoded' = out
  /\ cursor' = read
  /\ length' = match
  /\ \/ Len(out) = expected /\ Complete(read)
     \/ Len(out) # expected /\ read = Len(compressed) /\ Return("UnexpectedEof")
     \/ /\ Len(out) # expected /\ read < Len(compressed)
        /\ \/ matchNibble = NibbleMax /\ pc' = "matchExt" /\ UNCHANGED result
           \/ /\ matchNibble # NibbleMax
              /\ IF match > expected - Len(out) THEN Return("InvalidMatchLength")
                 ELSE pc' = "match" /\ UNCHANGED result
  /\ UNCHANGED <<encoderVars, expected, matchNibble>>

LiteralsEof ==
  /\ pc = "literals"
  /\ cursor + length > Len(compressed)
  /\ Return("UnexpectedEof")
  /\ UNCHANGED <<encoderVars, expected, cursor, matchNibble, length, decoded>>

(* len bytes from offset bytes back, byte by byte: a copy that catches up  *)
(* with its source repeats it.                                             *)
CopyFrom(offset, len) ==
  [i \in 1 .. len |-> decoded[Len(decoded) - offset + 1 + ((i - 1) % offset)]]

(* The offset, its validation and the copy.                                *)
CopyMatch ==
  /\ pc = "match"
  /\ cursor + OffsetBytes <= Len(compressed)
  /\ cursor' = cursor + OffsetBytes
  /\ \E offset \in 0 .. MaxOffset :
       /\ LittleEndian(offset) = SubSeq(compressed, cursor + 1, cursor + OffsetBytes)
       /\ IF offset = 0 \/ offset > Len(decoded)
            THEN Return("InvalidOffset") /\ UNCHANGED decoded
            ELSE /\ decoded' = decoded \o CopyFrom(offset, length)
                 /\ IF Len(decoded) + length = expected
                      THEN Complete(cursor')
                      ELSE pc' = "token" /\ UNCHANGED result
  /\ UNCHANGED <<encoderVars, expected, matchNibble, length>>

OffsetEof ==
  /\ pc = "match"
  /\ cursor + OffsetBytes > Len(compressed)
  /\ Return("UnexpectedEof")
  /\ UNCHANGED <<encoderVars, expected, cursor, matchNibble, length, decoded>>

(* The loop ends with its input; a complete block has left it before.      *)
PayloadEnds ==
  /\ pc = "token"
  /\ cursor >= Len(compressed)
  /\ Return("UnexpectedEof")
  /\ UNCHANGED <<encoderVars, expected, cursor, matchNibble, length, decoded>>

Done == pc = "done" /\ UNCHANGED vars

Encode == EncodeShort \/ EncodeLong \/ EmitMatch \/ SkipByte \/ SearchEnds \/ EmitTail

Decode ==
  \/ DecodeStarts \/ ReadToken \/ ExtendLiterals \/ ExtendMatch \/ ExtensionEof
  \/ CopyLiterals \/ LiteralsEof \/ CopyMatch \/ OffsetEof \/ PayloadEnds

Next == Encode \/ Decode \/ Done

Spec == Init /\ [][Next]_vars

FairSpec == Spec /\ WF_vars(Encode \/ Decode)

-----------------------------------------------------------------------------
(* Types: every variable keeps its type.                                   *)
TypeOK ==
  /\ pc \in Phases
  /\ data \in Seq(Byte)
  /\ ip \in Nat /\ anchor \in Nat
  /\ table \in [Slot -> Nat]
  /\ compressed \in Seq(Byte)
  /\ expected \in Nat
  /\ cursor \in Nat
  /\ matchNibble \in 0 .. NibbleMax
  /\ length \in Nat
  /\ decoded \in Seq(Byte)
  /\ result \in {"none", "ok"} \cup Errors

(* The match finder looks back only: `ip - ref_pos`, computed before any   *)
(* test of its operands, never underflows, the pending literals are a      *)
(* slice, and after a match that runs to the end ip is still in the data.  *)
SearchLooksBack ==
  /\ \A h \in Slot : table[h] <= ip
  /\ anchor <= ip /\ ip <= Len(data)

(* The decoder never reads behind the payload nor produces more than the   *)
(* declared size, not even in between, whatever the payload is; and it     *)
(* accepts only a payload that is used up by exactly that many bytes.      *)
DecoderStaysInBounds ==
  /\ cursor <= Len(compressed)
  /\ Len(decoded) <= expected
  /\ pc \in {"literals", "match"} => length <= Remaining
  /\ result = "ok" => Len(decoded) = expected /\ cursor = Len(compressed)

(* What the encoder emits decodes to its input: extended lengths, matches  *)
(* that overlap themselves, stale table entries and hash collisions, data  *)
(* that ends in a match or in literals.                                    *)
RoundTrip == pc = "done" /\ data # <<>> => result = "ok" /\ decoded = data

(* Both loops end on every input.                                          *)
Returns == <>(pc = "done")
=============================================================================
