------------------------------ MODULE CodecProofs -----------------------------
(***************************************************************************)
(* The LZF codec, and the entropy coders of LZH and LZA. They share       *)
(* nothing but the lemmas on slices.                                      *)
(***************************************************************************)
EXTENDS LzfCodec, EntropyCoding, SliceLemmas, FiniteSetTheorems

-----------------------------------------------------------------------------
(***************************************************************************)
(* LZF: the bounds of the encoder and the decoder, and that the one       *)
(* undoes what the other does, for bytes of any size, any hash function   *)
(* and table, any data and any payload.                                   *)
(***************************************************************************)

(* Before the decoder starts nothing is read nor produced, and a result is *)
(* what ends a call: with this the bounds are inductive.                   *)
IInv ==
  /\ TypeOK
  /\ SearchLooksBack
  /\ DecoderStaysInBounds
  /\ pc \in {"encode", "search", "tail", "decode"} => cursor = 0 /\ decoded = <<>>
  /\ pc # "done" => result = "none"

-----------------------------------------------------------------------------
LEMMA RadixFacts ==
  /\ Radix \in Nat /\ Radix >= 2
  /\ Base \in Nat /\ Base >= 4
  /\ NibbleMax \in Nat \ {0}
  /\ Escape \in Nat \ {0}
  /\ MinMatch = 3
<1>1. Radix \in Nat /\ Radix >= 2
  BY RadixAssumption
<1>2. Radix * Radix \in Nat /\ Radix * Radix >= 2 * Radix
  BY <1>1
<1> QED
  BY <1>1, <1>2 DEF Base, NibbleMax, Escape, MinMatch

LEMMA ModBounds ==
  ASSUME NEW n \in Nat, NEW d \in Nat \ {0}
  PROVE  n % d \in 0 .. d - 1 /\ n \div d \in Nat
OBVIOUS

LEMMA ByteMod ==
  ASSUME NEW n \in Nat
  PROVE  n % Base \in Byte /\ n \div Base \in Nat
<1>0. Base \in Nat \ {0}
  BY RadixFacts
<1>1. n % Base \in 0 .. Base - 1 /\ n \div Base \in Nat
  BY <1>0, ModBounds
<1>2. Byte = 0 .. Base - 1
  BY DEF Byte, Escape, Base
<1> QED
  BY <1>1, <1>2

(* Two nibbles make a byte.                                                *)
LEMMA TokenByte ==
  ASSUME NEW a \in 0 .. NibbleMax, NEW b \in 0 .. NibbleMax
  PROVE  a * Radix + b \in Byte
<1>1. a \in Nat /\ b \in Nat /\ a <= Radix - 1 /\ b <= Radix - 1
  BY RadixFacts DEF NibbleMax
<1>2. a * Radix <= (Radix - 1) * Radix /\ a * Radix \in Nat
  BY <1>1, RadixFacts
<1>3. (Radix - 1) * Radix = Radix * Radix - Radix
  BY RadixFacts
<1> QED
  BY <1>1, <1>2, <1>3, RadixFacts DEF Byte, Escape

LEMMA NibbleOK == ASSUME NEW n \in Nat PROVE Nibble(n) \in 0 .. NibbleMax
BY RadixFacts DEF Nibble

LEMMA OneByte == ASSUME NEW b \in Byte PROVE <<b>> \in Seq(Byte) /\ Len(<<b>>) = 1
OBVIOUS

LEMMA ExtensionOK ==
  ASSUME NEW n \in Nat, NEW base \in Nat
  PROVE  Extension(n, base) \in Seq(Byte)
<1>1. CASE n < base
  BY <1>1, EmptySeq DEF Extension
<1>2. CASE n >= base
  <2> DEFINE d == n - base
             escapes == [i \in 1 .. d \div Escape |-> Escape]
  <2>1. d \in Nat /\ d % Escape \in 0 .. Escape - 1 /\ d \div Escape \in Nat
    BY <1>2, RadixFacts, ModBounds
  <2>2. escapes \in Seq(Byte)
    <3>1. Escape \in Byte
      BY RadixFacts DEF Byte
    <3>2. escapes \in [1 .. d \div Escape -> Byte]
      BY <3>1
    <3> QED
      BY <2>1, <3>2, SeqDef
  <2>3. d % Escape \in Byte
    BY <2>1, RadixFacts DEF Byte
  <2>4. <<d % Escape>> \in Seq(Byte)
    BY <2>3, OneByte
  <2>5. ~(n < base)
    BY <1>2
  <2>6. Extension(n, base) = escapes \o <<d % Escape>>
    BY <2>5, Zenon DEF Extension
  <2> HIDE DEF d, escapes
  <2> QED
    BY <2>2, <2>4, <2>6, ConcatProperties
<1> QED
  BY <1>1, <1>2

LEMMA LittleEndianOK == ASSUME NEW n \in Nat PROVE LittleEndian(n) \in Seq(Byte)
<1>1. n % Base \in Byte /\ (n \div Base) % Base \in Byte
  BY ByteMod
<1>2. Base * Base \in Nat \ {0}
  BY RadixFacts
<1>3. n \div (Base * Base) \in Nat
  BY <1>2, ModBounds
<1>4. (n \div (Base * Base)) % Base \in Byte
  BY <1>3, ByteMod
<1> QED
  BY <1>1, <1>4 DEF LittleEndian

LEMMA LiteralRunOK ==
  ASSUME NEW s \in Seq(Byte), NEW b \in 0 .. NibbleMax
  PROVE  LiteralRun(s, b) \in Seq(Byte)
<1>1. Len(s) \in Nat /\ NibbleMax \in Nat
  BY LenProperties, RadixFacts
<1>2. <<Nibble(Len(s)) * Radix + b>> \in Seq(Byte)
  BY <1>1, NibbleOK, TokenByte, OneByte
<1>3. Extension(Len(s), NibbleMax) \in Seq(Byte)
  BY <1>1, ExtensionOK
<1> QED
  BY <1>2, <1>3, ConcatProperties DEF LiteralRun

LEMMA BytesAssociative ==
  ASSUME NEW s \in Seq(Byte), NEW t \in Seq(Byte), NEW u \in Seq(Byte)
  PROVE  (s \o t) \o u = s \o (t \o u)
BY Associative, SMTT(30)

(* The slot that a search looks into, and what it leaves there.            *)
LEMMA SlotOK ==
  ASSUME TypeOK, CanSearch
  PROVE  HashAt(ip) \in Slot /\ table[HashAt(ip)] \in Nat
<1>1. \A k \in 1 .. 4 : data[ip + k] \in Byte
  <2>1. \A k \in 1 .. 4 : ip + k \in 1 .. Len(data)
    BY DEF TypeOK, CanSearch
  <2> QED
    BY <2>1, ElementOfSeq DEF TypeOK
<1>2. [k \in 1 .. 4 |-> data[ip + k]] \in [1 .. 4 -> Byte]
  BY <1>1
<1>3. HashAt(ip) \in Slot
  BY <1>2, HashAssumption DEF HashAt
<1> QED
  BY <1>3 DEF TypeOK

LEMMA RememberOK ==
  ASSUME TypeOK, SearchLooksBack, CanSearch, Remember,
         NEW n \in Nat, n > ip
  PROVE  table' \in [Slot -> Nat] /\ \A h \in Slot : table'[h] <= n
<1>1. table' = [table EXCEPT ![HashAt(ip)] = ip + 1]
  BY DEF Remember
<1>2. ip \in Nat /\ ip + 1 \in Nat /\ table \in [Slot -> Nat]
  BY DEF TypeOK
<1>3. table' \in [Slot -> Nat]
  BY <1>1, <1>2, Zenon
<1>4. ASSUME NEW h \in Slot PROVE table'[h] <= n
  <2>1. table[h] <= ip /\ table[h] \in Nat
    BY <1>2 DEF SearchLooksBack
  <2>2. table'[h] = ip + 1 \/ table'[h] = table[h]
    BY <1>1, <1>2
  <2> QED
    BY <1>2, <2>1, <2>2
<1> QED
  BY <1>3, <1>4

(* A copy takes its bytes from what is decoded already, also one that runs *)
(* into itself.                                                            *)
LEMMA CopyOK ==
  ASSUME TypeOK, NEW offset \in 1 .. Len(decoded), NEW len \in Nat
  PROVE  CopyFrom(offset, len) \in Seq(Byte) /\ Len(CopyFrom(offset, len)) = len
<1>1. Len(decoded) \in Nat
  BY LenProperties DEF TypeOK
<1>2. ASSUME NEW i \in 1 .. len
      PROVE  decoded[Len(decoded) - offset + 1 + ((i - 1) % offset)] \in Byte
  <2>0. i - 1 \in Nat /\ offset \in Nat \ {0}
    BY <1>1
  <2>1. (i - 1) % offset \in 0 .. offset - 1
    BY <2>0, ModBounds
  <2>2. Len(decoded) - offset + 1 + ((i - 1) % offset) \in 1 .. Len(decoded)
    BY <1>1, <2>1
  <2> QED
    BY <2>2, ElementOfSeq DEF TypeOK
<1>3. CopyFrom(offset, len) \in [1 .. len -> Byte]
  BY <1>2 DEF CopyFrom
<1> QED
  BY <1>3, SeqDef

LEMMA NextByte ==
  ASSUME TypeOK, Take
  PROVE  /\ Next1 \in Byte /\ Next1 \in Nat
         /\ cursor' \in Nat /\ cursor' <= Len(compressed)
<1>1. cursor \in Nat /\ cursor + 1 \in 1 .. Len(compressed) /\ Len(compressed) \in Nat
  BY LenProperties DEF TypeOK, Take
<1>2. Next1 \in Byte
  BY <1>1, ElementOfSeq DEF TypeOK, Next1
<1> QED
  BY <1>1, <1>2 DEF Take, Byte

-----------------------------------------------------------------------------
LEMMA InitIInv == Init => IInv
<1> SUFFICES ASSUME Init PROVE IInv
  OBVIOUS
<1>1. /\ data \in Seq(Byte) /\ compressed \in Seq(Byte) /\ expected \in Nat
      /\ Len(data) \in Nat /\ Len(compressed) \in Nat
  <2>1. data \in Seq(Byte) /\ compressed \in Seq(Byte)
    BY CallsAssumption, EmptySeq DEF Init
  <2>2. Len(data) \in Nat /\ Len(compressed) \in Nat
    BY <2>1, LenProperties
  <2> QED
    BY <2>1, <2>2, CallsAssumption DEF Init
<1>2. decoded \in Seq(Byte) /\ Len(decoded) = 0
  BY EmptySeq DEF Init
<1>3. TypeOK
  <2>1. pc \in Phases /\ result \in {"none", "ok"} \cup Errors
    BY DEF Init, Phases
  <2>2. table \in [Slot -> Nat]
    BY DEF Init
  <2>3. matchNibble \in 0 .. NibbleMax
    BY RadixFacts DEF Init
  <2> QED
    BY <1>1, <1>2, <2>1, <2>2, <2>3 DEF Init, TypeOK
<1>4. SearchLooksBack
  BY <1>1 DEF Init, SearchLooksBack
<1>5. DecoderStaysInBounds
  BY <1>1, <1>2 DEF Init, DecoderStaysInBounds
<1> QED
  BY <1>3, <1>4, <1>5 DEF Init, IInv

(* The encoder adds bytes to its output, and nothing is read from it yet.  *)
LEMMA EncodeIInv == IInv /\ Encode => IInv'
<1> SUFFICES ASSUME IInv, Encode PROVE IInv'
  OBVIOUS
<1>0. TypeOK /\ SearchLooksBack /\ DecoderStaysInBounds
  BY DEF IInv
<1>1. pc \in {"encode", "search", "tail"} /\ UNCHANGED <<data, expected, decoderVars>>
  BY DEF Encode, EncodeShort, EncodeLong, EmitMatch, SkipByte, SearchEnds,
    EmitTail, CanSearch, encoderVars
<1>2. cursor = 0 /\ decoded = <<>> /\ result = "none"
  BY <1>1 DEF IInv
<1>3. /\ Len(data) \in Nat /\ ip \in Nat /\ anchor \in Nat
      /\ anchor <= ip /\ ip <= Len(data)
  BY <1>0, LenProperties DEF TypeOK, SearchLooksBack
<1>4. SUFFICES /\ pc' \in {"search", "tail", "decode"}
               /\ ip' \in Nat /\ anchor' \in Nat
               /\ table' \in [Slot -> Nat]
               /\ compressed' \in Seq(Byte)
               /\ SearchLooksBack'
  <2>1. Len(compressed') \in Nat
    BY <1>4, LenProperties
  <2>2. DecoderStaysInBounds'
    BY <1>0, <1>1, <1>2, <1>4, <2>1 DEF DecoderStaysInBounds, decoderVars
  <2>3. TypeOK'
    BY <1>0, <1>1, <1>4 DEF TypeOK, Phases, decoderVars
  <2> QED
    BY <1>1, <1>2, <1>4, <2>2, <2>3 DEF IInv, decoderVars
<1>5. CASE EncodeShort
  <2>1. 0 \in 0 .. NibbleMax
    BY RadixFacts
  <2>2. compressed' \in Seq(Byte)
    BY <1>0, <1>5, <2>1, EmptySeq, LiteralRunOK DEF EncodeShort, TypeOK
  <2> QED
    BY <1>0, <1>5, <2>2 DEF EncodeShort, TypeOK, SearchLooksBack
<1>6. CASE EncodeLong
  BY <1>0, <1>6 DEF EncodeLong, TypeOK, SearchLooksBack, encoderVars
<1>7. CASE EmitMatch
  <2>1. PICK m \in MinMatch .. Len(data) - ip :
          /\ compressed' = compressed
               \o LiteralRun(Pending(ip), Nibble(m - MinMatch))
               \o Extension(m, MinMatch + NibbleMax) \o LittleEndian(ip - Previous)
          /\ ip' = ip + m
          /\ anchor' = ip + m
    BY <1>7 DEF EmitMatch
  <2>2. m \in Nat /\ m >= 3 /\ ip + m <= Len(data) /\ ip + m \in Nat
    BY <1>3, <2>1, RadixFacts
  <2>3. m - MinMatch \in Nat /\ MinMatch + NibbleMax \in Nat
    BY <2>2, RadixFacts
  <2>4. ip - Previous \in Nat
    <3>1. table[HashAt(ip)] \in Nat /\ Previous < ip
      BY <1>0, <1>7, SlotOK DEF EmitMatch, Found
    <3> QED
      BY <1>3, <3>1 DEF Previous
  <2>5. Pending(ip) \in Seq(Byte)
    <3>1. anchor + 1 \in Nat \ {0} /\ ip \in 0 .. Len(data) /\ data \in Seq(Byte)
      BY <1>0, <1>3 DEF TypeOK
    <3> QED
      BY <3>1, SliceType DEF Pending
  <2>6. /\ LiteralRun(Pending(ip), Nibble(m - MinMatch)) \in Seq(Byte)
        /\ Extension(m, MinMatch + NibbleMax) \in Seq(Byte)
        /\ LittleEndian(ip - Previous) \in Seq(Byte)
    BY <2>2, <2>3, <2>4, <2>5, NibbleOK, LiteralRunOK, ExtensionOK, LittleEndianOK
  <2>7. compressed' \in Seq(Byte)
    BY <1>0, <2>1, <2>6, ConcatProperties DEF TypeOK
  <2>8. table' \in [Slot -> Nat] /\ \A h \in Slot : table'[h] <= ip + m
    BY <1>0, <1>3, <1>7, <2>2, RememberOK DEF EmitMatch
  <2> QED
    BY <1>1, <1>7, <2>1, <2>2, <2>7, <2>8 DEF EmitMatch, CanSearch, SearchLooksBack
<1>8. CASE SkipByte
  <2>1. ip + 1 \in Nat /\ ip + 1 <= Len(data) /\ ip' = ip + 1
    BY <1>3, <1>8 DEF SkipByte, CanSearch
  <2>2. table' \in [Slot -> Nat] /\ \A h \in Slot : table'[h] <= ip + 1
    BY <1>0, <1>3, <1>8, <2>1, RememberOK DEF SkipByte
  <2> QED
    BY <1>0, <1>1, <1>3, <1>8, <2>1, <2>2 DEF SkipByte, CanSearch, SearchLooksBack, TypeOK
<1>9. CASE SearchEnds
  BY <1>0, <1>9 DEF SearchEnds, TypeOK, SearchLooksBack, encoderVars
<1>10. CASE EmitTail
  <2>1. anchor + 1 \in Nat \ {0} /\ Len(data) \in 0 .. Len(data) /\ 0 \in 0 .. NibbleMax
    BY <1>3, RadixFacts
  <2>2. Pending(Len(data)) \in Seq(Byte)
    BY <1>0, <2>1, SliceType DEF Pending, TypeOK
  <2>3. LiteralRun(Pending(Len(data)), 0) \in Seq(Byte)
    BY <2>1, <2>2, LiteralRunOK
  <2>4. compressed' \in Seq(Byte)
    BY <1>0, <1>10, <2>3, ConcatProperties DEF EmitTail, TypeOK
  <2> QED
    BY <1>0, <1>10, <2>4 DEF EmitTail, TypeOK, SearchLooksBack
<1> QED
  BY <1>5, <1>6, <1>7, <1>8, <1>9, <1>10 DEF Encode

(* A step of the decoder reads a prefix of the payload that it has room    *)
(* for; each case shows what such a step must preserve.                    *)
LEMMA DecodeIInv == IInv /\ Decode => IInv'
<1> SUFFICES ASSUME IInv, Decode PROVE IInv'
  OBVIOUS
<1>0. TypeOK /\ SearchLooksBack /\ DecoderStaysInBounds
  BY DEF IInv
<1>1. pc \in {"decode", "token", "literalExt", "literals", "matchExt", "match"}
  BY DEF Decode, DecodeStarts, ReadToken, ExtendLiterals, ExtendMatch,
    ExtensionEof, CopyLiterals, LiteralsEof, CopyMatch, OffsetEof, PayloadEnds
<1>2. UNCHANGED <<encoderVars, expected>> /\ result = "none"
  BY <1>1 DEF IInv, Decode, DecodeStarts, ReadToken, ExtendLiterals, ExtendMatch,
    Extend, ExtensionEof, CopyLiterals, LiteralsEof, CopyMatch, OffsetEof, PayloadEnds
<1>3. /\ Len(compressed) \in Nat /\ Len(decoded) \in Nat /\ expected \in Nat
      /\ cursor \in Nat /\ length \in Nat /\ matchNibble \in 0 .. NibbleMax
      /\ cursor <= Len(compressed) /\ Len(decoded) <= expected
  BY <1>0, LenProperties DEF TypeOK, DecoderStaysInBounds
<1>a. SearchLooksBack'
  BY <1>0, <1>2 DEF SearchLooksBack, encoderVars
<1> DEFINE Bounded ==
      /\ \/ pc' \in {"token", "literalExt", "literals", "matchExt", "match"}
            /\ result' = "none"
         \/ pc' = "done" /\ result' \in {"ok"} \cup Errors
      /\ cursor' \in Nat /\ cursor' <= Len(compressed)
      /\ decoded' \in Seq(Byte) /\ Len(decoded') <= expected
      /\ matchNibble' \in 0 .. NibbleMax
      /\ length' \in Nat
      /\ pc' \in {"literals", "match"} => length' <= expected - Len(decoded')
      /\ result' = "ok" => Len(decoded') = expected /\ cursor' = Len(compressed)
<1>4. SUFFICES Bounded
  <2>1. TypeOK'
    BY <1>0, <1>2, <1>4 DEF TypeOK, Phases, encoderVars
  <2>2. DecoderStaysInBounds'
    BY <1>2, <1>4 DEF DecoderStaysInBounds, Remaining, encoderVars
  <2> QED
    BY <1>4, <1>a, <2>1, <2>2 DEF IInv
<1>5. CASE DecodeStarts
  <2>1. cursor = 0 /\ decoded = <<>> /\ Len(decoded) = 0
    BY <1>5, EmptySeq DEF IInv, DecodeStarts
  <2>2. compressed = <<>> => Len(compressed) = 0
    BY EmptySeq
  <2> QED
    BY <1>0, <1>2, <1>3, <1>5, <2>1, <2>2 DEF DecodeStarts, Return, TypeOK, Errors
<1>6. CASE ReadToken
  <2>1. Next1 \in Nat /\ cursor' \in Nat /\ cursor' <= Len(compressed)
    BY <1>0, <1>6, NextByte DEF ReadToken
  <2>2. Next1 \div Radix \in Nat /\ Next1 % Radix \in 0 .. NibbleMax
    <3>1. Radix \in Nat \ {0}
      BY RadixFacts
    <3> QED
      BY <2>1, <3>1, ModBounds DEF NibbleMax
  <2> QED
    BY <1>0, <1>2, <1>3, <1>6, <2>1, <2>2 DEF ReadToken, Return, TypeOK, Errors, Remaining
<1>7. ASSUME NEW next \in {"literals", "match"},
             NEW tooLong \in Errors,
             pc \in {"literalExt", "matchExt"}, Extend(next, tooLong)
      PROVE  Bounded
  <2>1. Next1 \in Nat /\ cursor' \in Nat /\ cursor' <= Len(compressed)
    BY <1>0, <1>7, NextByte DEF Extend
  <2> QED
    BY <1>0, <1>2, <1>3, <1>7, <2>1 DEF Extend, Return, TypeOK, Errors, Remaining
<1>8. CASE ExtendLiterals
  BY <1>7, <1>8 DEF ExtendLiterals, Errors
<1>9. CASE ExtendMatch
  BY <1>7, <1>9 DEF ExtendMatch, Errors
<1>10. CASE ExtensionEof \/ LiteralsEof \/ OffsetEof \/ PayloadEnds
  BY <1>0, <1>3, <1>10 DEF ExtensionEof, LiteralsEof, OffsetEof, PayloadEnds,
    Return, TypeOK, Errors
<1>11. CASE CopyLiterals
  <2> DEFINE lits == SubSeq(compressed, cursor + 1, cursor + length)
             out == decoded \o lits
  <2>1. length <= expected - Len(decoded) /\ cursor + length <= Len(compressed)
    BY <1>0, <1>11 DEF CopyLiterals, DecoderStaysInBounds, Remaining
  <2>2. lits \in Seq(Byte) /\ Len(lits) = length
    <3>1. compressed \in Seq(Byte)
      BY <1>0 DEF TypeOK
    <3> QED
      BY <1>3, <2>1, <3>1, NextElements
  <2>3. out \in Seq(Byte) /\ Len(out) = Len(decoded) + length
    BY <1>0, <2>2, ConcatProperties DEF TypeOK
  <2>4. decoded' = out /\ cursor' = cursor + length /\ length' = matchNibble + MinMatch
    BY <1>11 DEF CopyLiterals
  <2>5. \/ Len(out) = expected /\ Complete(cursor + length)
        \/ Return("UnexpectedEof") \/ Return("InvalidMatchLength")
        \/ pc' = "matchExt" /\ result' = result
        \/ pc' = "match" /\ result' = result /\ matchNibble + MinMatch <= expected - Len(out)
    <3>1. matchNibble + MinMatch \in Nat /\ expected - Len(out) \in Int
      BY <1>3, <2>3, RadixFacts
    <3>2. \/ Len(out) = expected /\ Complete(cursor + length)
          \/ Return("UnexpectedEof")
          \/ pc' = "matchExt" /\ result' = result
          \/ IF matchNibble + MinMatch > expected - Len(out) THEN Return("InvalidMatchLength")
             ELSE pc' = "match" /\ result' = result
      BY <1>11, Zenon DEF CopyLiterals
    <3> HIDE DEF out
    <3> QED
      BY <3>1, <3>2
  <2>6. matchNibble' = matchNibble
    BY <1>11 DEF CopyLiterals
  <2> HIDE DEF out
  <2> QED
    BY <1>2, <1>3, <2>1, <2>3, <2>4, <2>5, <2>6, RadixFacts DEF Complete, Return, Errors
<1>12. CASE CopyMatch
  <2>1. length <= expected - Len(decoded) /\ cursor + OffsetBytes <= Len(compressed)
        /\ cursor' = cursor + OffsetBytes /\ length' = length /\ matchNibble' = matchNibble
    BY <1>0, <1>12 DEF CopyMatch, DecoderStaysInBounds, Remaining
  <2>2. OffsetBytes \in Nat
    BY DEF OffsetBytes
  <2>3. cursor' \in Nat /\ cursor' <= Len(compressed)
    BY <1>3, <2>1, <2>2
  <2>4. PICK offset \in 0 .. MaxOffset :
          IF offset = 0 \/ offset > Len(decoded)
            THEN Return("InvalidOffset") /\ UNCHANGED decoded
            ELSE /\ decoded' = decoded \o CopyFrom(offset, length)
                 /\ IF Len(decoded) + length = expected
                      THEN Complete(cursor')
                      ELSE pc' = "token" /\ UNCHANGED result
    BY <1>12 DEF CopyMatch
  <2>5. CASE offset = 0 \/ offset > Len(decoded)
    BY <1>0, <1>3, <2>1, <2>3, <2>4, <2>5 DEF Return, TypeOK, Errors
  <2>6. CASE ~(offset = 0 \/ offset > Len(decoded))
    <3>1. offset \in Int
      BY <2>4
    <3>2. offset \in 1 .. Len(decoded)
      BY <1>3, <2>4, <2>6, <3>1
    <3>3. CopyFrom(offset, length) \in Seq(Byte) /\ Len(CopyFrom(offset, length)) = length
      BY <1>0, <1>3, <3>2, CopyOK
    <3>4. decoded' \in Seq(Byte) /\ Len(decoded') = Len(decoded) + length
      BY <1>0, <2>4, <2>6, <3>3, ConcatProperties, ZenonT(30) DEF TypeOK
    <3> QED
      BY <1>2, <1>3, <2>1, <2>3, <2>4, <2>6, <3>4 DEF Complete, Return, Errors
  <2> QED
    BY <2>5, <2>6
<1> QED
  BY <1>5, <1>6, <1>8, <1>9, <1>10, <1>11, <1>12 DEF Decode

LEMMA SpecIInv == Spec => []IInv
<1>1. IInv /\ [Next]_vars => IInv'
  <2> SUFFICES ASSUME IInv, Next \/ UNCHANGED vars PROVE IInv'
    OBVIOUS
  <2>1. CASE Done \/ UNCHANGED vars
    BY <2>1 DEF Done, vars, encoderVars, decoderVars, IInv, TypeOK, SearchLooksBack,
      DecoderStaysInBounds, Remaining
  <2> QED
    BY <2>1, EncodeIInv, DecodeIInv DEF Next
<1> QED
  BY <1>1, InitIInv, PTL DEF Spec

(* Every variable of the codec keeps its type: what the encoder emits is   *)
(* bytes, for lengths and offsets of any size.                             *)
THEOREM LzfTypes == Spec => []TypeOK
BY SpecIInv, PTL DEF IInv

(* encode's `ip - ref_pos` and its slices of pending literals are within   *)
(* the data it was given, for any data, hash function and table size.      *)
THEOREM LzfSearchLooksBack == Spec => []SearchLooksBack
BY SpecIInv, PTL DEF IInv

(* decode reads within its payload, produces at most expected_len bytes at *)
(* every moment and accepts only an exact fit, whatever the payload is.    *)
THEOREM LzfDecoderStaysInBounds == Spec => []DecoderStaysInBounds
BY SpecIInv, PTL DEF IInv

-----------------------------------------------------------------------------
(* The output as a sequence of tokens. A token t begins at t.c in the      *)
(* output and at t.p in the data, with t.a literals and, unless it is the  *)
(* last one, a match of t.m bytes from t.o bytes back. What follows takes  *)
(* the data d and the output z as arguments.                               *)
Token == [c : Nat, p : Nat, a : Nat, m : Nat, o : Nat]

MatchBase == MinMatch + NibbleMax

MatchNibble(t) == IF t.m = 0 THEN 0 ELSE Nibble(t.m - MinMatch)

TokenLiterals(d, t) == SubSeq(d, t.p + 1, t.p + t.a)

Front(d, t) == LiteralRun(TokenLiterals(d, t), MatchNibble(t))
FrontSize(t) == 1 + Len(Extension(t.a, NibbleMax)) + t.a

Behind(t) == IF t.m = 0 THEN <<>> ELSE Extension(t.m, MatchBase) \o LittleEndian(t.o)

EndOf(t) == t.c + FrontSize(t) + Len(Behind(t))
Upto(t) == t.p + t.a + t.m

(* s stands in z behind the first c bytes.                                 *)
At(z, c, s) == c + Len(s) <= Len(z) /\ \A i \in 1 .. Len(s) : z[c + i] = s[i]

(* t is a step through d: its match repeats what is t.o bytes back, and    *)
(* one without a match is the last.                                        *)
Fits(d, t) ==
  /\ Upto(t) <= Len(d) /\ t.a + t.m > 0
  /\ t.m = 0 => Upto(t) = Len(d)
  /\ t.m # 0 => /\ t.m >= MinMatch
                /\ t.o \in 1 .. MaxOffset /\ t.o <= t.p + t.a
                /\ EqualsBefore(d, t.p + t.a, t.o, t.m)

Encodes(d, z, t) ==
  At(z, t.c, Front(d, t)) /\ At(z, t.c + FrontSize(t), Behind(t)) /\ Fits(d, t)

Tokens(d, z, n, tok) ==
  /\ n \in Nat /\ tok \in [1 .. n + 1 -> Token]
  /\ tok[1].c = 0 /\ tok[1].p = 0
  /\ \A k \in 1 .. n : /\ Encodes(d, z, tok[k])
                       /\ tok[k + 1].c = EndOf(tok[k]) /\ tok[k + 1].p = Upto(tok[k])
  /\ tok[n + 1].c = Len(z)

-----------------------------------------------------------------------------
LEMMA AtConcat ==
  ASSUME NEW z, NEW c \in Nat, NEW s \in Seq(Byte), NEW t \in Seq(Byte), Len(z) \in Nat
  PROVE  At(z, c, s \o t) <=> At(z, c, s) /\ At(z, c + Len(s), t)
<1>1. /\ Len(s) \in Nat /\ Len(t) \in Nat /\ Len(s \o t) = Len(s) + Len(t)
      /\ \A i \in 1 .. Len(s) + Len(t) : (s \o t)[i] = IF i <= Len(s) THEN s[i] ELSE t[i - Len(s)]
  BY LenProperties, ConcatProperties
<1>2. \A i \in 1 .. Len(s) : (s \o t)[i] = s[i]
  BY <1>1
<1>3. \A i \in 1 .. Len(t) : (s \o t)[Len(s) + i] = t[i]
  <2> TAKE i \in 1 .. Len(t)
  <2>1. Len(s) + i \in 1 .. Len(s) + Len(t) /\ ~(Len(s) + i <= Len(s)) /\ Len(s) + i - Len(s) = i
    BY <1>1
  <2> QED
    BY <1>1, <2>1
<1>4. ASSUME At(z, c, s \o t) PROVE At(z, c, s) /\ At(z, c + Len(s), t)
  <2>1. c + Len(s) + Len(t) <= Len(z)
    BY <1>1, <1>4 DEF At
  <2>2. \A i \in 1 .. Len(s) + Len(t) : z[c + i] = (s \o t)[i]
    BY <1>1, <1>4 DEF At
  <2>3. At(z, c, s)
    BY <1>1, <1>2, <2>1, <2>2 DEF At
  <2>4. ASSUME NEW i \in 1 .. Len(t) PROVE z[c + Len(s) + i] = t[i]
    <3>1. Len(s) + i \in 1 .. Len(s) + Len(t) /\ c + (Len(s) + i) = c + Len(s) + i
      BY <1>1
    <3>2. z[c + (Len(s) + i)] = (s \o t)[Len(s) + i]
      BY <2>2, <3>1
    <3> QED
      BY <1>3, <3>1, <3>2
  <2> QED
    BY <2>1, <2>3, <2>4 DEF At
<1>5. ASSUME At(z, c, s), At(z, c + Len(s), t) PROVE At(z, c, s \o t)
  <2>1. c + Len(s) + Len(t) <= Len(z)
    BY <1>1, <1>5 DEF At
  <2>2. ASSUME NEW i \in 1 .. Len(s) + Len(t) PROVE z[c + i] = (s \o t)[i]
    <3>1. CASE i <= Len(s)
      BY <1>1, <1>5, <3>1 DEF At
    <3>2. CASE ~(i <= Len(s))
      <4>1. i - Len(s) \in 1 .. Len(t) /\ c + Len(s) + (i - Len(s)) = c + i
        BY <1>1, <3>2
      <4>2. z[c + Len(s) + (i - Len(s))] = t[i - Len(s)]
        BY <1>5, <4>1 DEF At
      <4> QED
        BY <1>1, <3>2, <4>1, <4>2
    <3> QED
      BY <3>1, <3>2
  <2>3. c + (Len(s) + Len(t)) <= Len(z)
    BY <1>1, <2>1
  <2> QED
    BY <1>1, <2>2, <2>3 DEF At
<1> QED
  BY <1>4, <1>5

(* What stands in z still does when more follows, and what follows stands  *)
(* behind it.                                                              *)
LEMMA AtGrows ==
  ASSUME NEW z \in Seq(Byte), NEW x \in Seq(Byte), NEW c \in Nat, NEW s \in Seq(Byte),
         At(z, c, s)
  PROVE  At(z \o x, c, s)
<1>1. /\ Len(z) \in Nat /\ Len(x) \in Nat /\ Len(s) \in Nat /\ Len(z \o x) = Len(z) + Len(x)
      /\ \A i \in 1 .. Len(z) + Len(x) : (z \o x)[i] = IF i <= Len(z) THEN z[i] ELSE x[i - Len(z)]
  BY LenProperties, ConcatProperties
<1>2. c + Len(s) <= Len(z) /\ \A i \in 1 .. Len(s) : z[c + i] = s[i]
  BY DEF At
<1>3. ASSUME NEW i \in 1 .. Len(s) PROVE (z \o x)[c + i] = s[i]
  <2>1. c + i \in 1 .. Len(z) + Len(x) /\ c + i <= Len(z)
    BY <1>1, <1>2
  <2> QED
    BY <1>1, <1>2, <2>1
<1> QED
  BY <1>1, <1>2, <1>3 DEF At

LEMMA AtEnd ==
  ASSUME NEW z \in Seq(Byte), NEW x \in Seq(Byte)
  PROVE  At(z \o x, Len(z), x)
<1>1. /\ Len(z) \in Nat /\ Len(x) \in Nat /\ Len(z \o x) = Len(z) + Len(x)
      /\ \A i \in 1 .. Len(z) + Len(x) : (z \o x)[i] = IF i <= Len(z) THEN z[i] ELSE x[i - Len(z)]
  BY LenProperties, ConcatProperties
<1>2. ASSUME NEW i \in 1 .. Len(x) PROVE (z \o x)[Len(z) + i] = x[i]
  <2>1. /\ Len(z) + i \in 1 .. Len(z) + Len(x) /\ ~(Len(z) + i <= Len(z))
        /\ Len(z) + i - Len(z) = i
    BY <1>1
  <2> QED
    BY <1>1, <2>1
<1> QED
  BY <1>1, <1>2 DEF At

(* The slice of z in which s stands.                                       *)
LEMMA SliceAt ==
  ASSUME NEW z \in Seq(Byte), NEW c \in Nat, NEW s \in Seq(Byte), At(z, c, s)
  PROVE  SubSeq(z, c + 1, c + Len(s)) = s
<1> DEFINE n == c + Len(s)
           r == SubSeq(z, c + 1, n)
<1>1. Len(z) \in Nat /\ Len(s) \in Nat /\ n <= Len(z) /\ n \in Nat
  BY LenProperties DEF At
<1>2. \A i \in c + 1 .. n : z[i] \in Byte
  <2>1. \A i \in c + 1 .. n : i \in 1 .. Len(z)
    BY <1>1
  <2> QED
    BY <2>1, ElementOfSeq
<1>3. c + 1 \in Int /\ n \in Int /\ n - (c + 1) + 1 = Len(s) /\ (c + 1 <= n <=> 1 <= Len(s))
  BY <1>1
<1> HIDE DEF n
<1>4. /\ r \in Seq(Byte) /\ Len(r) = (IF c + 1 <= n THEN n - (c + 1) + 1 ELSE 0)
      /\ \A i \in 1 .. n - (c + 1) + 1 : r[i] = z[c + 1 + i - 1]
  BY <1>2, <1>3, SubSeqProperties
<1>5. Len(r) = Len(s)
  BY <1>1, <1>3, <1>4
<1>6. ASSUME NEW i \in 1 .. Len(s) PROVE r[i] = s[i]
  <2>1. c + 1 + i - 1 = c + i
    OBVIOUS
  <2>2. z[c + i] = s[i]
    BY DEF At
  <2> QED
    BY <1>3, <1>4, <2>1, <2>2
<1> HIDE DEF r
<1>7. r = s
  BY <1>4, <1>5, <1>6, SeqEqual
<1> QED
  BY <1>7 DEF r, n

(* A length of base or more is base, as many escapes as the extension has  *)
(* bytes but one, and the last byte.                                       *)
LEMMA ExtensionBytes ==
  ASSUME NEW n \in Nat, NEW base \in Nat, n >= base
  PROVE  \E q \in Nat, r \in 0 .. Escape - 1 :
           /\ n = base + q * Escape + r
           /\ Len(Extension(n, base)) = q + 1
           /\ \A i \in 1 .. q : Extension(n, base)[i] = Escape
           /\ Extension(n, base)[q + 1] = r
<1> DEFINE d == n - base
           q == d \div Escape
           r == d % Escape
           escapes == [i \in 1 .. q |-> Escape]
<1>1. d \in Nat /\ q \in Nat /\ r \in 0 .. Escape - 1 /\ d = q * Escape + r
  BY RadixFacts
<1>2. q * Escape \in Nat /\ n = base + d
  BY <1>1, RadixFacts
<1>0. ~(n < base)
  OBVIOUS
<1>3. Extension(n, base) = escapes \o <<r>>
  BY <1>0, Zenon DEF Extension
<1> HIDE DEF d, q, r
<1>4. n = base + q * Escape + r
  BY <1>1, <1>2
<1>5. escapes \in Seq(Nat) /\ Len(escapes) = q /\ \A i \in 1 .. q : escapes[i] = Escape
  <2>1. escapes \in [1 .. q -> Nat]
    BY RadixFacts
  <2> QED
    BY <1>1, <2>1, SeqDef
<1>6. <<r>> \in Seq(Nat) /\ Len(<<r>>) = 1 /\ <<r>>[1] = r
  BY <1>1, RadixFacts
<1> HIDE DEF escapes
<1>7. /\ Len(escapes \o <<r>>) = q + 1
      /\ \A i \in 1 .. q + 1 :
           (escapes \o <<r>>)[i] = IF i <= q THEN escapes[i] ELSE <<r>>[i - q]
  BY <1>5, <1>6, ConcatProperties
<1>8. (escapes \o <<r>>)[q + 1] = r
  <2>1. q + 1 \in 1 .. q + 1 /\ ~(q + 1 <= q) /\ q + 1 - q = 1
    BY <1>1
  <2> QED
    BY <1>6, <1>7, <2>1
<1>9. \A i \in 1 .. q : (escapes \o <<r>>)[i] = Escape
  BY <1>1, <1>5, <1>7
<1> QED
  BY <1>1, <1>3, <1>4, <1>7, <1>8, <1>9

(* The two nibbles of a byte are read as they were written.                *)
LEMMA Nibbles ==
  ASSUME NEW a \in 0 .. NibbleMax, NEW b \in 0 .. NibbleMax
  PROVE  (a * Radix + b) \div Radix = a /\ (a * Radix + b) % Radix = b
<1>1. a \in Nat /\ Radix \in Nat \ {0} /\ b \in 0 .. Radix - 1
  BY RadixFacts DEF NibbleMax
<1> QED
  BY <1>1, Quotient, Remainder

(* Dividing twice by the base is dividing by its square.                   *)
LEMMA DivDiv ==
  ASSUME NEW n \in Nat, NEW b \in Nat \ {0}
  PROVE  (n \div b) \div b = n \div (b * b)
<1> DEFINE q == n \div b
           r == n % b
           h == q \div b
           l == q % b
           e == b * b
<1>1. q \in Nat /\ r \in 0 .. b - 1 /\ n = q * b + r
  OBVIOUS
<1>2. h \in Nat /\ l \in 0 .. b - 1 /\ q = h * b + l
  BY <1>1
<1>3. (h * b + l) * b = h * e + l * b
  <2>1. h \in Nat /\ l \in Nat /\ b \in Nat
    BY <1>2
  <2> HIDE DEF h, l
  <2> QED
    BY <2>1
<1>4. e \in Nat \ {0} /\ l * b \in Nat /\ h * e \in Nat
  BY <1>2
<1>5. l * b <= (b - 1) * b /\ (b - 1) * b = e - b
  BY <1>2
<1> HIDE DEF q, r, h, l, e
<1>6. l * b + r \in 0 .. e - 1
  BY <1>1, <1>4, <1>5
<1>7. n = h * e + (l * b + r)
  BY <1>1, <1>2, <1>3, <1>4
<1>8. n \div e = h
  BY <1>2, <1>4, <1>6, <1>7, Quotient
<1> QED
  BY <1>8 DEF q, h, e

(* The bytes of an offset determine it.                                    *)
LEMMA OffsetOfBytes ==
  ASSUME NEW n \in 0 .. MaxOffset, NEW m \in 0 .. MaxOffset,
         LittleEndian(n) = LittleEndian(m)
  PROVE  n = m
<1> DEFINE Low(k) == k % Base
           High(k) == k \div Base
<1>1. Base \in Nat \ {0} /\ n \in Nat /\ m \in Nat
  <2>1. MaxOffset \in Int
    BY RadixFacts DEF MaxOffset
  <2> QED
    BY <2>1, RadixFacts
<1>2. ASSUME NEW k \in Nat
      PROVE  Low(k) \in 0 .. Base - 1 /\ High(k) \in Nat /\ k = High(k) * Base + Low(k)
  BY <1>1
<1>3. ASSUME NEW k \in Nat, NEW c \in Nat, k <= c * Base - 1
      PROVE  High(k) <= c - 1
  <2>1. High(k) \in Nat /\ High(k) * Base <= k
    <3>1. High(k) * Base \in Nat
      BY <1>1, <1>2
    <3> HIDE DEF High, Low
    <3> QED
      BY <1>1, <1>2, <3>1
  <2> HIDE DEF High
  <2>2. CASE High(k) >= c
    <3>1. High(k) * Base >= c * Base /\ c * Base \in Nat /\ High(k) * Base \in Nat
      BY <1>1, <2>1, <2>2
    <3> QED
      BY <1>3, <2>1, <3>1
  <2> QED
    BY <2>1, <2>2
<1>4. ASSUME NEW k \in Nat, k <= Base - 1 PROVE Low(k) = k
  BY <1>1, <1>4
<1>5. Low(n) = Low(m) /\ Low(High(n)) = Low(High(m))
  BY DEF LittleEndian
<1>6. CASE OffsetMode = "Offset16"
  <2>1. n <= Base * Base - 1 /\ m <= Base * Base - 1
    BY <1>1, <1>6 DEF MaxOffset
  <2>2. High(n) \in Nat /\ High(m) \in Nat /\ High(n) <= Base - 1 /\ High(m) <= Base - 1
    BY <1>1, <1>2, <1>3, <2>1
  <2> HIDE DEF High, Low
  <2>3. High(n) = High(m)
    BY <1>4, <1>5, <2>2
  <2> QED
    BY <1>1, <1>2, <1>5, <2>3
<1>7. CASE OffsetMode # "Offset16"
  <2>1. n <= Base * Base * Base - 1 /\ m <= Base * Base * Base - 1 /\ Base * Base \in Nat
    BY <1>1, <1>7 DEF MaxOffset
  <2>2. High(n) \in Nat /\ High(m) \in Nat /\ High(High(n)) \in Nat /\ High(High(m)) \in Nat
    BY <1>1, <1>2
  <2>3. High(n) <= Base * Base - 1 /\ High(m) <= Base * Base - 1
    BY <1>1, <1>3, <2>1
  <2>4. High(High(n)) <= Base - 1 /\ High(High(m)) <= Base - 1
    BY <1>1, <1>3, <2>2, <2>3
  <2>5. High(High(n)) = n \div (Base * Base) /\ High(High(m)) = m \div (Base * Base)
    BY <1>1, DivDiv
  <2>6. Low(High(High(n))) = Low(High(High(m)))
    BY <1>7, <2>5 DEF LittleEndian
  <2> HIDE DEF High, Low
  <2>7. High(High(n)) = High(High(m))
    BY <1>4, <2>2, <2>4, <2>6
  <2>8. High(n) = High(m)
    BY <1>2, <1>5, <2>2, <2>7
  <2> QED
    BY <1>1, <1>2, <1>5, <2>8
<1> QED
  BY <1>6, <1>7

-----------------------------------------------------------------------------
LEMMA TokenFacts ==
  ASSUME NEW t \in Token, t.m = 0 \/ t.m >= MinMatch
  PROVE  /\ t.c \in Nat /\ t.p \in Nat /\ t.a \in Nat /\ t.m \in Nat /\ t.o \in Nat
         /\ MatchBase \in Nat
         /\ MatchNibble(t) \in 0 .. NibbleMax
         /\ Extension(t.a, NibbleMax) \in Seq(Byte) /\ Len(Extension(t.a, NibbleMax)) \in Nat
         /\ Extension(t.m, MatchBase) \in Seq(Byte) /\ Len(Extension(t.m, MatchBase)) \in Nat
         /\ LittleEndian(t.o) \in Seq(Byte) /\ Len(LittleEndian(t.o)) = OffsetBytes
         /\ Behind(t) \in Seq(Byte) /\ Len(Behind(t)) \in Nat
         /\ FrontSize(t) \in Nat /\ EndOf(t) \in Nat
<1>1. t.c \in Nat /\ t.p \in Nat /\ t.a \in Nat /\ t.m \in Nat /\ t.o \in Nat
  BY DEF Token
<1>2. MatchBase \in Nat /\ NibbleMax \in Nat
  BY RadixFacts DEF MatchBase
<1>3. MatchNibble(t) \in 0 .. NibbleMax
  <2>1. t.m # 0 => t.m - MinMatch \in Nat
    BY <1>1, RadixFacts
  <2> QED
    BY <1>2, <2>1, NibbleOK DEF MatchNibble
<1>4. Extension(t.a, NibbleMax) \in Seq(Byte) /\ Extension(t.m, MatchBase) \in Seq(Byte)
  BY <1>1, <1>2, ExtensionOK
<1>5. LittleEndian(t.o) \in Seq(Byte)
  BY <1>1, LittleEndianOK
<1>6. Len(LittleEndian(t.o)) = OffsetBytes
  BY DEF LittleEndian, OffsetBytes
<1>7. Behind(t) \in Seq(Byte)
  BY <1>4, <1>5, EmptySeq, ConcatProperties DEF Behind
<1>8. /\ Len(Extension(t.a, NibbleMax)) \in Nat /\ Len(Extension(t.m, MatchBase)) \in Nat
      /\ Len(Behind(t)) \in Nat
  BY <1>4, <1>7, LenProperties
<1>9. FrontSize(t) \in Nat /\ EndOf(t) \in Nat
  BY <1>1, <1>8, SMTT(30) DEF FrontSize, EndOf
<1> QED
  BY <1>1, <1>2, <1>3, <1>4, <1>5, <1>6, <1>7, <1>8, <1>9

LEMMA FrontOK ==
  ASSUME NEW d \in Seq(Byte), NEW t \in Token, t.m = 0 \/ t.m >= MinMatch,
         t.p + t.a <= Len(d)
  PROVE  /\ TokenLiterals(d, t) \in Seq(Byte) /\ Len(TokenLiterals(d, t)) = t.a
         /\ <<Nibble(t.a) * Radix + MatchNibble(t)>> \in Seq(Byte)
         /\ Front(d, t) = <<Nibble(t.a) * Radix + MatchNibble(t)>>
                            \o Extension(t.a, NibbleMax) \o TokenLiterals(d, t)
         /\ Front(d, t) \in Seq(Byte) /\ Len(Front(d, t)) = FrontSize(t)
<1>1. TokenLiterals(d, t) \in Seq(Byte) /\ Len(TokenLiterals(d, t)) = t.a
  <2>1. t.p \in Nat /\ t.a \in Nat
    BY TokenFacts
  <2>2. /\ SubSeq(d, t.p + 1, t.p + t.a) \in Seq(Byte)
        /\ Len(SubSeq(d, t.p + 1, t.p + t.a)) = t.a
    BY <2>1, NextElements
  <2> QED
    BY <2>2 DEF TokenLiterals
<1>2. /\ <<Nibble(t.a) * Radix + MatchNibble(t)>> \in Seq(Byte)
      /\ Len(<<Nibble(t.a) * Radix + MatchNibble(t)>>) = 1
  BY TokenFacts, NibbleOK, TokenByte, OneByte
<1>3. Front(d, t) = <<Nibble(t.a) * Radix + MatchNibble(t)>>
                      \o Extension(t.a, NibbleMax) \o TokenLiterals(d, t)
  BY <1>1 DEF Front, LiteralRun
<1>4. Front(d, t) \in Seq(Byte) /\ Len(Front(d, t)) = FrontSize(t)
  <2>1. /\ <<Nibble(t.a) * Radix + MatchNibble(t)>> \o Extension(t.a, NibbleMax) \in Seq(Byte)
        /\ Len(<<Nibble(t.a) * Radix + MatchNibble(t)>> \o Extension(t.a, NibbleMax))
             = 1 + Len(Extension(t.a, NibbleMax))
    BY <1>2, TokenFacts, ConcatProperties
  <2> QED
    BY <1>1, <1>3, <2>1, ConcatProperties DEF FrontSize
<1> QED
  BY <1>1, <1>2, <1>3, <1>4

(* What the decoder finds behind the beginning of a token.                 *)
LEMMA TokenParts ==
  ASSUME NEW d \in Seq(Byte), NEW z \in Seq(Byte), NEW t \in Token, Encodes(d, z, t)
  PROVE  /\ t.c < Len(z)
         /\ z[t.c + 1] = Nibble(t.a) * Radix + MatchNibble(t)
         /\ At(z, t.c + 1, Extension(t.a, NibbleMax))
         /\ At(z, t.c + 1 + Len(Extension(t.a, NibbleMax)), TokenLiterals(d, t))
         /\ t.m # 0 =>
              /\ At(z, t.c + FrontSize(t), Extension(t.m, MatchBase))
              /\ At(z, t.c + FrontSize(t) + Len(Extension(t.m, MatchBase)), LittleEndian(t.o))
         /\ EndOf(t) <= Len(z)
<1> DEFINE b == Nibble(t.a) * Radix + MatchNibble(t)
           e == Extension(t.a, NibbleMax)
           l == TokenLiterals(d, t)
<1>1. t.m = 0 \/ t.m >= MinMatch
  BY DEF Encodes, Fits
<1>2. /\ t.c \in Nat /\ t.p \in Nat /\ t.a \in Nat /\ t.m \in Nat
      /\ e \in Seq(Byte) /\ Len(e) \in Nat
      /\ FrontSize(t) \in Nat /\ Len(z) \in Nat /\ Len(d) \in Nat
      /\ Len(Behind(t)) \in Nat
  BY <1>1, TokenFacts, LenProperties
<1>3. t.p + t.a <= Len(d)
  BY <1>2, SMTT(30) DEF Encodes, Fits, Upto
<1>4. l \in Seq(Byte) /\ <<b>> \in Seq(Byte) /\ Front(d, t) = <<b>> \o e \o l
  BY <1>1, <1>3, FrontOK
<1>5. At(z, t.c, <<b>> \o e \o l)
  BY <1>4 DEF Encodes
<1> HIDE DEF b, e, l
<1>6. <<b>> \o e \in Seq(Byte) /\ Len(<<b>> \o e) = 1 + Len(e)
  BY <1>2, <1>4, ConcatProperties
<1>i. PICK n \in Nat : n = Len(<<b>> \o e)
  BY <1>2, <1>6
<1>7. At(z, t.c, <<b>> \o e) /\ At(z, t.c + Len(<<b>> \o e), l)
  BY <1>2, <1>4, <1>5, <1>6, AtConcat
<1>8. At(z, t.c, <<b>>) /\ At(z, t.c + 1, e)
  <2>1. Len(<<b>>) = 1
    OBVIOUS
  <2>2. At(z, t.c, <<b>>) /\ At(z, t.c + Len(<<b>>), e)
    BY <1>2, <1>4, <1>7, AtConcat
  <2> QED
    BY <2>1, <2>2
<1>9. t.c < Len(z) /\ z[t.c + 1] = b
  <2>1. Len(<<b>>) = 1 /\ <<b>>[1] = b /\ 1 \in 1 .. 1
    OBVIOUS
  <2> QED
    BY <1>2, <1>8, <2>1 DEF At
<1>10. At(z, t.c + 1 + Len(e), l)
  <2>0. n = 1 + Len(e)
    BY <1>6, <1>i, Zenon
  <2>1. ASSUME NEW c \in Nat, NEW l1 \in Nat PROVE c + (1 + l1) = c + 1 + l1
    OBVIOUS
  <2>2. t.c + n = t.c + 1 + Len(e)
    BY <1>2, <2>0, <2>1, Zenon
  <2> QED
    BY <1>7, <1>i, <2>2, Zenon
<1>11. ASSUME t.m # 0
       PROVE  /\ At(z, t.c + FrontSize(t), Extension(t.m, MatchBase))
              /\ At(z, t.c + FrontSize(t) + Len(Extension(t.m, MatchBase)), LittleEndian(t.o))
  <2>1. At(z, t.c + FrontSize(t), Extension(t.m, MatchBase) \o LittleEndian(t.o))
    BY <1>11 DEF Encodes, Behind
  <2>2. t.c + FrontSize(t) \in Nat
    BY <1>2
  <2>3. Extension(t.m, MatchBase) \in Seq(Byte) /\ LittleEndian(t.o) \in Seq(Byte)
    BY <1>1, TokenFacts
  <2> QED
    BY <1>2, <2>1, <2>2, <2>3, AtConcat
<1>12. EndOf(t) <= Len(z)
  BY DEF Encodes, At, EndOf
<1> QED
  BY <1>8, <1>9, <1>10, <1>11, <1>12 DEF b, e, l

(* A token stays encoded when the output grows, and what is appended is    *)
(* the next one.                                                           *)
LEMMA StillEncodes ==
  ASSUME NEW d \in Seq(Byte), NEW z \in Seq(Byte), NEW x \in Seq(Byte), NEW t \in Token,
         Encodes(d, z, t)
  PROVE  Encodes(d, z \o x, t)
<1>1. t.m = 0 \/ t.m >= MinMatch
  BY DEF Encodes, Fits
<1>2. /\ t.c \in Nat /\ t.p \in Nat /\ t.a \in Nat /\ t.m \in Nat /\ Len(d) \in Nat
      /\ t.c + FrontSize(t) \in Nat /\ Behind(t) \in Seq(Byte)
  BY <1>1, TokenFacts, LenProperties, SMTT(30)
<1>3. t.p + t.a <= Len(d)
  BY <1>2 DEF Encodes, Fits, Upto
<1>4. Front(d, t) \in Seq(Byte)
  BY <1>1, <1>3, FrontOK
<1>5. At(z \o x, t.c, Front(d, t)) /\ At(z \o x, t.c + FrontSize(t), Behind(t))
  BY <1>2, <1>4, AtGrows DEF Encodes
<1> QED
  BY <1>5 DEF Encodes

LEMMA NewToken ==
  ASSUME NEW d \in Seq(Byte), NEW z \in Seq(Byte), NEW t \in Token,
         t.c = Len(z), t.p + t.a <= Len(d), t.m = 0 \/ t.m >= MinMatch
  PROVE  /\ At(z \o (Front(d, t) \o Behind(t)), t.c, Front(d, t))
         /\ At(z \o (Front(d, t) \o Behind(t)), t.c + FrontSize(t), Behind(t))
         /\ Len(z \o (Front(d, t) \o Behind(t))) = EndOf(t)
         /\ z \o (Front(d, t) \o Behind(t)) \in Seq(Byte)
<1> DEFINE x == Front(d, t)
           y == Behind(t)
           w == z \o (x \o y)
<1>1. x \in Seq(Byte) /\ Len(x) = FrontSize(t)
  BY FrontOK
<1>2. y \in Seq(Byte) /\ Len(y) \in Nat /\ t.c \in Nat /\ FrontSize(t) \in Nat
  BY TokenFacts
<1> HIDE DEF x, y
<1>3. x \o y \in Seq(Byte) /\ Len(x \o y) = FrontSize(t) + Len(y)
  BY <1>1, <1>2, ConcatProperties, ZenonT(30)
<1>4. w \in Seq(Byte) /\ Len(w) = t.c + FrontSize(t) + Len(y)
  <2> DEFINE v == x \o y
  <2>1. v \in Seq(Byte) /\ Len(v) = FrontSize(t) + Len(y)
    BY <1>3
  <2> HIDE DEF v
  <2>2. z \o v \in Seq(Byte) /\ Len(z \o v) = Len(z) + Len(v)
    BY <2>1, ConcatLength
  <2>3. Len(z) + Len(v) = t.c + FrontSize(t) + Len(y)
    BY <1>2, <2>1
  <2> QED
    BY <2>2, <2>3 DEF v
<1>5. At(w, t.c, x \o y)
  BY <1>3, AtEnd
<1>6. Len(w) \in Nat
  BY <1>2, <1>4
<1> HIDE DEF w
<1>7. At(w, t.c, x) /\ At(w, t.c + FrontSize(t), y)
  BY <1>1, <1>2, <1>5, <1>6, AtConcat
<1> QED
  BY <1>4, <1>7 DEF w, x, y, EndOf

-----------------------------------------------------------------------------
(* The decoder has read some escapes behind e of a length len.             *)
Extending(e, len, base) ==
  /\ len >= base /\ length <= len
  /\ \E j \in Nat : cursor = e + j /\ length = base + j * Escape

(* Where the decoder is in token t.                                        *)
Reading(t) ==
  /\ pc \in {"decode", "token"} => cursor = t.c
  /\ pc \in {"literalExt", "literals"} => matchNibble = MatchNibble(t)
  /\ pc = "literalExt" => Extending(t.c + 1, t.a, NibbleMax)
  /\ pc = "literals" =>
       length = t.a /\ cursor = t.c + 1 + Len(Extension(t.a, NibbleMax))
  /\ pc \in {"matchExt", "match"} => t.m # 0
  /\ pc = "matchExt" => Extending(t.c + FrontSize(t), t.m, MatchBase)
  /\ pc = "match" =>
       length = t.m /\ cursor = t.c + FrontSize(t) + Len(Extension(t.m, MatchBase))
  /\ decoded = SubSeq(data, 1, IF pc \in {"matchExt", "match"} THEN t.p + t.a ELSE t.p)

(* How far the encoder has emitted tokens, and the decoder read them.      *)
InStep(n, tok) ==
  /\ pc = "encode" => compressed = <<>> /\ anchor = 0
  /\ tok[n + 1].p = IF pc \in {"encode", "search", "tail"} THEN anchor ELSE Len(data)
  /\ pc \notin {"encode", "search", "tail", "done"} => \E k \in 1 .. n : Reading(tok[k])
  /\ pc = "done" => result = "ok" /\ decoded = data

RInv ==
  /\ IInv
  /\ data # <<>> =>
       /\ expected = Len(data)
       /\ \E n, tok : Tokens(data, compressed, n, tok) /\ InStep(n, tok)

LEMMA InitRInv == Init => RInv
<1> SUFFICES ASSUME Init, data # <<>>
             PROVE  /\ expected = Len(data)
                    /\ \E n, tok : Tokens(data, compressed, n, tok) /\ InStep(n, tok)
  BY InitIInv DEF RInv
<1>1. pc = "encode" /\ expected = Len(data) /\ compressed = <<>> /\ anchor = 0
  BY DEF Init
<1>2. PICK tok : tok = [k \in 1 .. 1 |-> [c |-> 0, p |-> 0, a |-> 0, m |-> 0, o |-> 0]]
  OBVIOUS
<1>3. tok \in [1 .. 0 + 1 -> Token] /\ tok[1].c = 0 /\ tok[1].p = 0 /\ 0 + 1 = 1
  BY <1>2 DEF Token
<1>4. Len(compressed) = 0
  BY <1>1, EmptySeq
<1>5. Tokens(data, compressed, 0, tok)
  BY <1>3, <1>4 DEF Tokens
<1>6. InStep(0, tok)
  BY <1>1, <1>3 DEF InStep
<1> QED
  BY <1>1, <1>5, <1>6

(* A token that is appended behind the others is one of them.              *)
LEMMA AppendToken ==
  ASSUME NEW d \in Seq(Byte), NEW z \in Seq(Byte), NEW n, NEW tok, Tokens(d, z, n, tok),
         NEW t \in Token, t.c = Len(z), t.p = tok[n + 1].p, Fits(d, t)
  PROVE  \E u : /\ Tokens(d, z \o (Front(d, t) \o Behind(t)), n + 1, u)
               /\ u[n + 1 + 1].p = Upto(t)
<1> DEFINE x == Front(d, t) \o Behind(t)
<1>1. t.m = 0 \/ t.m >= MinMatch
  BY DEF Fits
<1>2. /\ t.c \in Nat /\ t.p \in Nat /\ t.a \in Nat /\ t.m \in Nat /\ Len(d) \in Nat
      /\ EndOf(t) \in Nat
  BY <1>1, TokenFacts, LenProperties
<1>3. t.p + t.a <= Len(d) /\ Upto(t) \in Nat
  <2>1. ASSUME NEW p \in Nat, NEW a \in Nat, NEW m \in Nat, NEW l \in Nat, p + a + m <= l
        PROVE  p + a <= l /\ p + a + m \in Nat
    BY <2>1
  <2>2. t.p + t.a + t.m <= Len(d)
    BY Zenon DEF Fits, Upto
  <2> QED
    BY <1>2, <2>1, <2>2, Zenon DEF Upto
<1>4. x \in Seq(Byte)
  BY <1>1, <1>3, FrontOK, TokenFacts, ConcatProperties
<1>5. /\ At(z \o x, t.c, Front(d, t)) /\ At(z \o x, t.c + FrontSize(t), Behind(t))
      /\ Len(z \o x) = EndOf(t)
  BY <1>1, <1>3, NewToken
<1> HIDE DEF x
<1>6. Encodes(d, z \o x, t)
  BY <1>5 DEF Encodes
<1>7. /\ n \in Nat /\ tok \in [1 .. n + 1 -> Token] /\ tok[1].c = 0 /\ tok[1].p = 0
      /\ tok[n + 1].c = Len(z)
      /\ \A k \in 1 .. n : /\ Encodes(d, z, tok[k])
                           /\ tok[k + 1].c = EndOf(tok[k]) /\ tok[k + 1].p = Upto(tok[k])
  BY DEF Tokens
<1>8. PICK last \in Token : last.c = EndOf(t) /\ last.p = Upto(t)
  <2>1. [c |-> EndOf(t), p |-> Upto(t), a |-> 0, m |-> 0, o |-> 0] \in Token
    BY <1>2, <1>3 DEF Token
  <2> QED
    BY <2>1
<1>9. PICK u : u = [k \in 1 .. n + 1 + 1 |-> IF k <= n THEN tok[k] ELSE
                                            IF k = n + 1 THEN t ELSE last]
  OBVIOUS
<1>10. /\ u \in [1 .. n + 1 + 1 -> Token]
       /\ \A k \in 1 .. n : u[k] = tok[k]
       /\ u[n + 1] = t /\ u[n + 1 + 1] = last
  <2>1. \A k \in 1 .. n : k \in 1 .. n + 1
    BY <1>7
  <2> QED
    BY <1>7, <1>8, <1>9, <2>1
<1>11. u[1].c = 0 /\ u[1].p = 0
  <2>1. CASE n = 0
    BY <1>7, <1>10, <2>1
  <2>2. CASE n # 0
    <3>1. 1 \in 1 .. n
      BY <1>7, <2>2
    <3> QED
      BY <1>7, <1>10, <3>1
  <2> QED
    BY <2>1, <2>2
<1>12. ASSUME NEW k \in 1 .. n + 1
       PROVE  /\ Encodes(d, z \o x, u[k])
              /\ u[k + 1].c = EndOf(u[k]) /\ u[k + 1].p = Upto(u[k])
  <2>1. CASE k = n + 1
    BY <1>6, <1>8, <1>10, <2>1
  <2>2. CASE k # n + 1
    <3>1. k \in 1 .. n /\ tok[k] \in Token
      BY <1>7, <2>2
    <3>2. Encodes(d, z \o x, tok[k])
      BY <1>4, <1>7, <3>1, StillEncodes
    <3>3. u[k + 1].c = tok[k + 1].c /\ u[k + 1].p = tok[k + 1].p
      <4>1. CASE k = n
        BY <1>7, <1>10, <4>1
      <4>2. CASE k # n
        <5>1. k + 1 \in 1 .. n
          BY <1>7, <3>1, <4>2
        <5> QED
          BY <1>10, <5>1
      <4> QED
        BY <4>1, <4>2
    <3> QED
      BY <1>7, <1>10, <3>1, <3>2, <3>3
  <2> QED
    BY <2>1, <2>2
<1>13. n + 1 \in Nat /\ u[n + 1 + 1].c = Len(z \o x)
  BY <1>5, <1>7, <1>8, <1>10
<1>14. Tokens(d, z \o x, n + 1, u)
  BY <1>10, <1>11, <1>12, <1>13 DEF Tokens
<1>15. u[n + 1 + 1].p = Upto(t)
  BY <1>8, <1>10
<1> QED
  BY <1>14, <1>15 DEF x

(* The encoder's output is always a sequence of tokens up to its anchor,   *)
(* and in the end up to the end of the data.                               *)
LEMMA EncodeRInv == RInv /\ Encode => RInv'
<1> DEFINE Goal == \E n, tok : (Tokens(data, compressed, n, tok) /\ InStep(n, tok))'
<1> SUFFICES ASSUME RInv, Encode, data' # <<>>
             PROVE  (expected = Len(data))' /\ Goal
  BY EncodeIInv DEF RInv
<1>0. IInv /\ TypeOK /\ SearchLooksBack
  BY DEF RInv, IInv
<1>1. /\ pc \in {"encode", "search", "tail"} /\ data # <<>>
      /\ UNCHANGED <<data, expected, decoderVars>>
  BY DEF Encode, EncodeShort, EncodeLong, EmitMatch, SkipByte, SearchEnds,
    EmitTail, CanSearch, encoderVars
<1>2. cursor' = 0 /\ decoded' = <<>>
  BY <1>0, <1>1 DEF IInv, decoderVars
<1>3. /\ data \in Seq(Byte) /\ compressed \in Seq(Byte)
      /\ Len(data) \in Nat /\ Len(compressed) \in Nat
      /\ ip \in Nat /\ anchor \in Nat /\ anchor <= ip /\ ip <= Len(data)
  BY <1>0, LenProperties DEF TypeOK, SearchLooksBack
<1>4. expected' = Len(data')
  BY <1>1 DEF RInv
<1>5. PICK n, tok : Tokens(data, compressed, n, tok) /\ InStep(n, tok)
  BY <1>1 DEF RInv
<1>6. tok[n + 1].p = anchor
  BY <1>1, <1>5 DEF InStep
<1>7. Len(data) > 0
  BY <1>1, <1>3, EmptySeq
(* The decoder begins with the first token.                                *)
<1>8. ASSUME NEW k, NEW u, pc' = "decode",
             Tokens(data, compressed', k, u), u[k + 1].p = Len(data)
      PROVE  Goal
  <2>1. k \in Nat /\ u[1].c = 0 /\ u[1].p = 0
    BY <1>8 DEF Tokens
  <2>2. 1 \in 1 .. k
    <3>1. k # 0
      BY <1>7, <1>8, <2>1
    <3> QED
      BY <2>1, <3>1
  <2>3. decoded' = SubSeq(data', 1, u[1].p)
    BY <1>2, <2>1, SubSeqEmpty
  <2>4. Reading(u[1])'
    BY <1>2, <1>8, <2>1, <2>3 DEF Reading
  <2>5. InStep(k, u)'
    BY <1>1, <1>8, <2>2, <2>4 DEF InStep
  <2>6. Tokens(data, compressed, k, u)'
    BY <1>1, <1>8
  <2> QED
    BY <2>5, <2>6
(* The last token, without a match.                                        *)
<1>9. ASSUME anchor < Len(data), pc' = "decode",
             compressed' = compressed \o LiteralRun(Pending(Len(data)), 0)
      PROVE  Goal
  <2>1. PICK t : t = [c |-> Len(compressed), p |-> anchor, a |-> Len(data) - anchor,
                      m |-> 0, o |-> 0]
    OBVIOUS
  <2>2. /\ t \in Token /\ t.c = Len(compressed) /\ t.p = anchor
        /\ t.a = Len(data) - anchor /\ t.m = 0
    BY <1>3, <1>9, <2>1 DEF Token
  <2>3. t.p + t.a = Len(data) /\ Upto(t) = Len(data) /\ t.a + t.m > 0
    BY <1>3, <1>9, <2>2 DEF Upto
  <2>4. TokenLiterals(data, t) = Pending(Len(data)) /\ MatchNibble(t) = 0
    BY <2>2, <2>3 DEF TokenLiterals, Pending, MatchNibble
  <2>5. /\ Front(data, t) = LiteralRun(Pending(Len(data)), 0) /\ Behind(t) = <<>>
        /\ Front(data, t) \in Seq(Byte)
    <3>0. t.p + t.a <= Len(data) /\ (t.m = 0 \/ t.m >= MinMatch)
      BY <1>3, <2>2, <2>3
    <3>1. Front(data, t) \in Seq(Byte)
      BY <1>3, <2>2, <3>0, FrontOK, Zenon
    <3> QED
      BY <2>2, <2>4, <3>1 DEF Front, Behind
  <2>6. compressed' = compressed \o (Front(data, t) \o Behind(t))
    BY <1>9, <2>5, ConcatEmptySeq
  <2>7. Fits(data, t)
    BY <1>3, <2>2, <2>3 DEF Fits
  <2>8. \E u : /\ Tokens(data, compressed \o (Front(data, t) \o Behind(t)), n + 1, u)
              /\ u[n + 1 + 1].p = Upto(t)
    BY <1>3, <1>5, <1>6, <2>2, <2>7, AppendToken
  <2>9. PICK u : Tokens(data, compressed', n + 1, u) /\ u[n + 1 + 1].p = Len(data)
    BY <2>3, <2>6, <2>8
  <2> QED
    BY <1>8, <1>9, <2>9
(* The search goes on, with the tokens as they are.                        *)
<1>10. ASSUME pc' \in {"search", "tail"}, UNCHANGED <<anchor, compressed>> PROVE Goal
  <2>1. InStep(n, tok)'
    BY <1>6, <1>10 DEF InStep
  <2>2. Tokens(data, compressed, n, tok)'
    BY <1>1, <1>5, <1>10
  <2> QED
    BY <2>1, <2>2
<1>11. CASE EncodeShort
  <2>1. compressed = <<>> /\ anchor = 0
    BY <1>5, <1>11 DEF EncodeShort, InStep
  <2>2. data = Pending(Len(data))
    BY <1>3, <2>1, SubSeqFull DEF Pending
  <2>3. compressed' = LiteralRun(Pending(Len(data)), 0)
    BY <1>1, <1>11, <2>2 DEF EncodeShort
  <2>4. 0 \in 0 .. NibbleMax
    BY RadixFacts
  <2>5. LiteralRun(Pending(Len(data)), 0) \in Seq(Byte)
    BY <1>3, <2>2, <2>4, LiteralRunOK
  <2>6. compressed' = compressed \o LiteralRun(Pending(Len(data)), 0)
    BY <2>1, <2>3, <2>5, ConcatEmptySeq
  <2> QED
    BY <1>4, <1>7, <1>9, <1>11, <2>1, <2>6 DEF EncodeShort
<1>12. CASE EncodeLong
  BY <1>4, <1>10, <1>12 DEF EncodeLong, encoderVars
<1>13. CASE SkipByte
  <2>1. pc' = "search" /\ UNCHANGED <<anchor, compressed>>
    BY <1>13 DEF SkipByte, CanSearch
  <2> QED
    BY <1>4, <1>10, <2>1
<1>14. CASE SearchEnds
  BY <1>4, <1>10, <1>14 DEF SearchEnds, encoderVars
<1>15. CASE EmitTail
  <2>1. CASE anchor = Len(data)
    <3>1. compressed' = compressed /\ pc' = "decode"
      BY <1>15, <2>1 DEF EmitTail
    <3> QED
      BY <1>4, <1>5, <1>6, <1>8, <2>1, <3>1
  <2>2. CASE anchor # Len(data)
    BY <1>3, <1>4, <1>9, <1>15, <2>2 DEF EmitTail
  <2> QED
    BY <2>1, <2>2
<1>16. CASE EmitMatch
  <2>1. PICK m \in MinMatch .. Len(data) - ip :
          /\ IsMatchLength(m)
          /\ compressed' = compressed
               \o LiteralRun(Pending(ip), Nibble(m - MinMatch))
               \o Extension(m, MinMatch + NibbleMax) \o LittleEndian(ip - Previous)
          /\ ip' = ip + m
          /\ anchor' = ip + m
    BY <1>16 DEF EmitMatch
  <2>2. m \in Nat /\ m >= MinMatch /\ m # 0 /\ m > 0 /\ ip + m <= Len(data)
    BY <1>3, <2>1, RadixFacts
  <2>3. Previous \in Nat /\ ip - Previous \in 1 .. MaxOffset /\ ip - Previous <= ip
    <3>1. table[HashAt(ip)] \in Nat /\ Previous # -1 /\ Previous < ip /\ ip - Previous <= MaxOffset
      BY <1>0, <1>16, SlotOK DEF EmitMatch, Found
    <3>2. MaxOffset \in Int
      BY RadixFacts DEF MaxOffset
    <3> QED
      BY <1>3, <3>1, <3>2, SMTT(30) DEF Previous
  <2>4. PICK t : t = [c |-> Len(compressed), p |-> anchor, a |-> ip - anchor,
                      m |-> m, o |-> ip - Previous]
    OBVIOUS
  <2>5. /\ t \in Token /\ t.c = Len(compressed) /\ t.p = anchor
        /\ t.a = ip - anchor /\ t.m = m /\ t.o = ip - Previous
    <3>1. ip - Previous \in Nat /\ ip - anchor \in Nat
      BY <1>3, <2>3
    <3> QED
      BY <1>3, <2>2, <2>4, <3>1 DEF Token
  <2>6. t.p + t.a = ip /\ Upto(t) = ip + m /\ t.a + t.m > 0
    <3>1. anchor + (ip - anchor) = ip /\ ip - anchor \in Nat
      BY <1>3
    <3> HIDE DEF Previous
    <3> QED
      BY <1>3, <2>2, <2>5, <3>1 DEF Upto
  <2>7. TokenLiterals(data, t) = Pending(ip) /\ MatchNibble(t) = Nibble(m - MinMatch)
    BY <2>2, <2>5, <2>6 DEF TokenLiterals, Pending, MatchNibble
  <2>8. /\ Front(data, t) = LiteralRun(Pending(ip), Nibble(m - MinMatch))
        /\ Behind(t) = Extension(m, MinMatch + NibbleMax) \o LittleEndian(ip - Previous)
    BY <2>2, <2>5, <2>7 DEF Front, Behind, MatchBase
  <2>9. /\ Front(data, t) \in Seq(Byte)
        /\ Extension(m, MinMatch + NibbleMax) \in Seq(Byte)
        /\ LittleEndian(ip - Previous) \in Seq(Byte)
    <3>1. t.p + t.a <= Len(data) /\ t.m >= MinMatch
      BY <1>3, <2>2, <2>5, <2>6
    <3>2. Front(data, t) \in Seq(Byte)
      BY <1>3, <2>5, <3>1, FrontOK
    <3>3. MinMatch + NibbleMax \in Nat /\ ip - Previous \in Nat
      BY <2>3, RadixFacts
    <3> QED
      BY <2>2, <3>2, <3>3, ExtensionOK, LittleEndianOK
  <2>10. compressed' = compressed \o (Front(data, t) \o Behind(t))
    <3> DEFINE f == Front(data, t)
               e == Extension(m, MinMatch + NibbleMax)
               o == LittleEndian(ip - Previous)
    <3>1. f \in Seq(Byte) /\ e \in Seq(Byte) /\ o \in Seq(Byte)
      BY <2>9
    <3>2. compressed' = compressed \o f \o e \o o /\ Behind(t) = e \o o
      BY <2>1, <2>8
    <3> HIDE DEF f, e, o
    <3> DEFINE cf == compressed \o f
               eo == e \o o
    <3>0. compressed \in Seq(Byte)
      BY <1>3
    <3>3. cf \in Seq(Byte)
      BY <3>0, <3>1, ConcatLength
    <3>4. eo \in Seq(Byte)
      BY <3>1, ConcatLength
    <3>5. cf \o e \o o = cf \o (e \o o)
      <4> HIDE DEF cf
      <4> QED
        BY <3>1, <3>3, BytesAssociative
    <3>6. compressed \o f \o eo = compressed \o (f \o eo)
      <4> HIDE DEF eo
      <4> QED
        BY <3>0, <3>1, <3>4, BytesAssociative, ZenonT(30)
    <3> QED
      BY <3>2, <3>5, <3>6, Zenon DEF f
  <2>11. EqualsBefore(data, t.p + t.a, t.o, t.m)
    <3>1. ip - (ip - Previous) = Previous
      BY <1>3, <2>3
    <3>2. \A j \in 1 .. m : data[Previous + j] = data[ip + j]
      BY <2>1 DEF IsMatchLength
    <3> HIDE DEF Previous
    <3> QED
      BY <2>5, <2>6, <3>1, <3>2 DEF EqualsBefore
  <2>12. t.o \in 1 .. MaxOffset /\ t.o <= t.p + t.a
    BY <2>3, <2>5, <2>6
  <2>13. Fits(data, t)
    BY <2>2, <2>5, <2>6, <2>11, <2>12 DEF Fits
  <2>14. \E u : /\ Tokens(data, compressed \o (Front(data, t) \o Behind(t)), n + 1, u)
               /\ u[n + 1 + 1].p = Upto(t)
    BY <1>3, <1>5, <1>6, <2>5, <2>13, AppendToken
  <2>15. PICK u : Tokens(data, compressed', n + 1, u) /\ u[n + 1 + 1].p = ip + m
    BY <2>6, <2>10, <2>14
  <2>16. pc' = "search"
    BY <1>16 DEF EmitMatch, CanSearch
  <2>17. InStep(n + 1, u)'
    BY <2>1, <2>15, <2>16 DEF InStep
  <2>18. Tokens(data, compressed, n + 1, u)'
    BY <1>1, <2>15
  <2> QED
    BY <1>4, <2>17, <2>18
<1> QED
  BY <1>11, <1>12, <1>13, <1>14, <1>15, <1>16 DEF Encode

-----------------------------------------------------------------------------
(* There is a byte to be read while a length is incomplete, and reading it *)
(* completes the length or leaves it incomplete.                           *)
LEMMA ExtendOneByte ==
  ASSUME TypeOK, NEW e \in Nat, NEW len \in Nat, NEW base \in Nat,
         Extending(e, len, base), At(compressed, e, Extension(len, base))
  PROVE  /\ cursor < Len(compressed)
         /\ Take /\ length' = length + Next1 =>
              /\ length' <= len
              /\ Next1 < Escape => length' = len /\ cursor' = e + Len(Extension(len, base))
              /\ ~(Next1 < Escape) => Extending(e, len, base)'
<1> DEFINE x == Extension(len, base)
<1>1. len >= base /\ length <= len
  BY DEF Extending
<1>2. PICK q \in Nat, r \in 0 .. Escape - 1 :
        /\ len = base + q * Escape + r
        /\ Len(x) = q + 1
        /\ \A i \in 1 .. q : x[i] = Escape
        /\ x[q + 1] = r
  BY <1>1, ExtensionBytes
<1>3. PICK j \in Nat : cursor = e + j /\ length = base + j * Escape
  BY DEF Extending
<1>4. e + Len(x) <= Len(compressed) /\ \A i \in 1 .. Len(x) : compressed[e + i] = x[i]
  BY DEF At
<1> HIDE DEF x
<1>5. /\ Escape \in Nat \ {0} /\ r \in Nat /\ r < Escape /\ Len(compressed) \in Nat
      /\ q * Escape \in Nat /\ j * Escape \in Nat /\ (q + 1) * Escape = q * Escape + Escape
      /\ (j + 1) * Escape = j * Escape + Escape
  BY <1>2, RadixFacts, LenProperties DEF TypeOK
<1>6. j <= q
  <2>1. CASE j >= q + 1
    <3>1. j * Escape >= (q + 1) * Escape
      BY <1>2, <1>3, <1>5, <2>1
    <3> QED
      BY <1>1, <1>2, <1>3, <1>5, <3>1
  <2> QED
    BY <1>2, <1>3, <2>1
<1>7. /\ cursor < Len(compressed) /\ j + 1 \in 1 .. Len(x)
      /\ cursor + 1 = e + (j + 1) /\ Next1 = x[j + 1]
  <2>1. /\ e + j < Len(compressed) /\ j + 1 \in 1 .. Len(x)
        /\ e + j + 1 = e + (j + 1)
    BY <1>2, <1>3, <1>4, <1>5, <1>6
  <2>2. compressed[e + (j + 1)] = x[j + 1]
    BY <1>4, <2>1
  <2> QED
    BY <1>3, <2>1, <2>2 DEF Next1
<1>8. ASSUME Take, length' = length + Next1
      PROVE  /\ length' <= len
             /\ Next1 < Escape => length' = len /\ cursor' = e + Len(x)
             /\ ~(Next1 < Escape) => Extending(e, len, base)'
  <2>1. cursor' = cursor + 1
    BY <1>8 DEF Take
  <2>2. CASE j = q
    <3>1. Next1 = r /\ Next1 < Escape
      BY <1>2, <1>5, <1>7, <2>2
    <3>2. length' = len /\ cursor' = e + Len(x)
      BY <1>2, <1>3, <1>5, <1>7, <1>8, <2>1, <2>2, <3>1
    <3> QED
      BY <3>1, <3>2
  <2>3. CASE j # q
    <3>1. j + 1 \in 1 .. q
      BY <1>6, <2>3
    <3>2. Next1 = Escape
      BY <1>2, <1>7, <3>1
    <3>3. (j + 1) * Escape <= q * Escape
      BY <1>2, <1>3, <1>5, <3>1
    <3>4. length' = base + (j + 1) * Escape
      BY <1>3, <1>5, <1>8, <3>2
    <3>5. length' <= len
      BY <1>2, <1>5, <3>3, <3>4
    <3>6. cursor' = e + (j + 1) /\ j + 1 \in Nat
      BY <1>7, <2>1
    <3>7. Extending(e, len, base)'
      BY <1>1, <3>4, <3>5, <3>6 DEF Extending
    <3> QED
      BY <1>5, <3>2, <3>5, <3>7
  <2> QED
    BY <2>2, <2>3
<1> QED
  BY <1>7, <1>8 DEF x

(* A match is restored also where it runs into itself.                     *)
LEMMA CopyRestores ==
  ASSUME TypeOK, NEW p \in Nat, NEW o \in 1 .. p, NEW m \in Nat,
         decoded = SubSeq(data, 1, p), p + m <= Len(data), EqualsBefore(data, p, o, m)
  PROVE  Len(decoded) = p /\ decoded \o CopyFrom(o, m) = SubSeq(data, 1, p + m)
<1> DEFINE t == CopyFrom(o, m)
<1>1. data \in Seq(Byte) /\ Len(data) \in Nat /\ p \in 0 .. Len(data) /\ o \in Nat \ {0}
  BY LenProperties DEF TypeOK
<1>2. Len(decoded) = p /\ \A j \in 1 .. p : decoded[j] = data[j]
  <2>1. p \in 0 .. p
    OBVIOUS
  <2> QED
    BY <1>1, <2>1, PrefixOfPrefix, PrefixElements
<1>3. t \in Seq(Byte) /\ Len(t) = m
  BY <1>2, CopyOK
<1>4. \A j \in 1 .. m : data[p + j] = data[p - o + 1 + ((j - 1) % o)]
  BY <1>1, Repeats
<1>5. ASSUME NEW i \in 1 .. m PROVE t[i] = data[p + i]
  <2> DEFINE r == (i - 1) % o
  <2>1. t[i] = decoded[p - o + 1 + r]
    BY <1>2 DEF CopyFrom
  <2>2. r \in 0 .. o - 1
    <3>1. i - 1 \in Nat
      OBVIOUS
    <3> QED
      BY <1>1, <3>1
  <2>3. data[p + i] = data[p - o + 1 + r]
    BY <1>4
  <2> HIDE DEF r
  <2>4. p - o + 1 + r \in 1 .. p
    BY <1>1, <2>2
  <2> QED
    BY <1>2, <2>1, <2>3, <2>4
<1> HIDE DEF t
<1>6. SubSeq(data, 1, p) \o t = SubSeq(data, 1, p + Len(t))
  BY <1>1, <1>3, <1>5, PrefixGrows
<1> QED
  BY <1>2, <1>3, <1>6 DEF t

(* The decoder never wants for a byte, rejects none of the encoder's, and  *)
(* restores what a token stands for.                                       *)
LEMMA DecodeRInv == RInv /\ Decode => RInv'
<1> SUFFICES ASSUME RInv, Decode, data' # <<>>
             PROVE  /\ (expected = Len(data))'
                    /\ \E n, tok : (Tokens(data, compressed, n, tok) /\ InStep(n, tok))'
  BY DecodeIInv DEF RInv
<1>0. IInv /\ TypeOK
  BY DEF RInv, IInv
<1>1. /\ pc \in {"decode", "token", "literalExt", "literals", "matchExt", "match"}
      /\ pc' \in {"token", "literalExt", "literals", "matchExt", "match", "done"}
      /\ UNCHANGED <<data, compressed, expected>>
  BY DEF Decode, DecodeStarts, ReadToken, ExtendLiterals, ExtendMatch, Extend,
    ExtensionEof, CopyLiterals, Complete, LiteralsEof, CopyMatch, OffsetEof, PayloadEnds,
    Return, encoderVars
<1>2. /\ data \in Seq(Byte) /\ compressed \in Seq(Byte) /\ decoded \in Seq(Byte)
      /\ Len(data) \in Nat /\ Len(compressed) \in Nat /\ Len(decoded) \in Nat
      /\ cursor \in Nat /\ length \in Nat /\ matchNibble \in 0 .. NibbleMax
  BY <1>0, LenProperties DEF TypeOK
<1>n. /\ Len(data) \in Nat /\ Len(compressed) \in Nat /\ Len(decoded) \in Nat
      /\ cursor \in Nat /\ length \in Nat
  BY <1>2
<1>3. expected = Len(data) /\ expected' = Len(data')
  BY <1>1 DEF RInv
<1>4. PICK n, tok : Tokens(data, compressed, n, tok) /\ InStep(n, tok)
  BY <1>1 DEF RInv
<1>5. /\ n \in Nat /\ tok \in [1 .. n + 1 -> Token] /\ tok[n + 1].c = Len(compressed)
      /\ \A k \in 1 .. n : /\ Encodes(data, compressed, tok[k])
                           /\ tok[k + 1].c = EndOf(tok[k]) /\ tok[k + 1].p = Upto(tok[k])
  BY <1>4 DEF Tokens
<1>6. tok[n + 1].p = Len(data)
  BY <1>1, <1>4 DEF InStep
<1>7. PICK k \in 1 .. n : Reading(tok[k])
  BY <1>1, <1>4 DEF InStep
<1>t. PICK t \in Token : t = tok[k]
  <2>1. k \in 1 .. n + 1
    BY <1>5
  <2> QED
    BY <1>5, <2>1
<1>8. Reading(t) /\ Encodes(data, compressed, t)
  BY <1>5, <1>7, <1>t
<1>9. Fits(data, t) /\ (t.m = 0 \/ t.m >= MinMatch)
  BY <1>8 DEF Encodes, Fits
<1>p. PICK c \in Nat, p \in Nat, a \in Nat, m \in Nat, o \in Nat :
        c = t.c /\ p = t.p /\ a = t.a /\ m = t.m /\ o = t.o
  BY <1>9, TokenFacts
<1>10. /\ c \in Nat /\ p \in Nat /\ a \in Nat /\ m \in Nat /\ o \in Nat
       /\ MatchBase \in Nat /\ MatchNibble(t) \in 0 .. NibbleMax
       /\ Len(Extension(a, NibbleMax)) \in Nat /\ Len(Extension(m, MatchBase)) \in Nat
       /\ FrontSize(t) \in Nat /\ EndOf(t) \in Nat
  BY <1>9, <1>p, TokenFacts
<1>o. LittleEndian(o) \in Seq(Byte) /\ Len(LittleEndian(o)) = OffsetBytes
  BY <1>9, <1>p, TokenFacts
<1>m. m = 0 \/ m >= MinMatch
  BY <1>9, <1>p
<1>11. /\ c < Len(compressed)
       /\ compressed[c + 1] = Nibble(a) * Radix + MatchNibble(t)
       /\ At(compressed, c + 1, Extension(a, NibbleMax))
       /\ At(compressed, c + 1 + Len(Extension(a, NibbleMax)), TokenLiterals(data, t))
       /\ m # 0 =>
            /\ At(compressed, c + FrontSize(t), Extension(m, MatchBase))
            /\ At(compressed, c + FrontSize(t) + Len(Extension(m, MatchBase)),
                  LittleEndian(o))
       /\ EndOf(t) <= Len(compressed)
  BY <1>p, <1>2, <1>8, TokenParts
<1>12. /\ Upto(t) = p + a + m /\ Upto(t) <= Len(data) /\ Upto(t) \in Nat
       /\ p + a <= Len(data) /\ m <= Len(data) - (p + a)
       /\ p <= Len(data) /\ a <= Len(data) - p
       /\ m # 0 => p + a < Len(data)
       /\ m = 0 => p + a = Len(data) /\ Upto(t) = Len(data)
  <2>1. Upto(t) = p + a + m /\ Upto(t) <= Len(data) /\ (m = 0 => Upto(t) = Len(data))
    BY <1>p, <1>9 DEF Fits, Upto
  <2> QED
    BY <1>n, <1>10, <2>1
<1>13. FrontSize(t) = 1 + Len(Extension(a, NibbleMax)) + a
  BY <1>p DEF FrontSize
<1>14. (Tokens(data, compressed, n, tok))'
  BY <1>1, <1>4
<1> SUFFICES InStep(n, tok)'
  BY <1>3, <1>14
(* The decoder stays in this token.                                        *)
<1>15. ASSUME pc' # "done", Reading(t)' PROVE InStep(n, tok)'
  <2>1. \E i \in 1 .. n : Reading(tok[i])'
    BY <1>15, <1>t
  <2> QED
    BY <1>1, <1>6, <1>15, <2>1 DEF InStep
(* The token is read: the next one begins, or the payload is used up.      *)
<1>16. ASSUME cursor' = EndOf(t), decoded' = SubSeq(data, 1, Upto(t)),
              IF Upto(t) = expected THEN Complete(cursor')
              ELSE pc' = "token" /\ UNCHANGED result
       PROVE  InStep(n, tok)'
  <2>1. k + 1 \in 1 .. n + 1 /\ tok[k + 1].c = EndOf(t) /\ tok[k + 1].p = Upto(t)
    BY <1>5, <1>t
  <2>2. CASE Upto(t) = Len(data)
    <3>1. k = n
      <4>1. SUFFICES ASSUME k # n PROVE FALSE
        OBVIOUS
      <4>2. k + 1 \in 1 .. n
        BY <1>5, <4>1
      <4>3. PICK u \in Token : u = tok[k + 1]
        BY <1>5, <2>1
      <4>4. Fits(data, u) /\ u.p = Upto(t)
        BY <1>5, <2>1, <4>2, <4>3 DEF Encodes
      <4>5. u.p \in Nat /\ u.a \in Nat /\ u.m \in Nat
        BY DEF Token
      <4>6. u.p + u.a + u.m <= Len(data) /\ u.a + u.m > 0
        BY <1>p, <4>4 DEF Fits, Upto
      <4> QED
        BY <1>n, <2>2, <4>4, <4>5, <4>6
    <3>2. cursor' = Len(compressed)
      BY <1>5, <1>16, <2>1, <3>1
    <3>3. pc' = "done" /\ result' = "ok"
      BY <1>3, <1>16, <2>2, <3>2 DEF Complete, Return
    <3>4. decoded' = data'
      BY <1>1, <1>2, <1>16, <2>2, SubSeqFull
    <3> QED
      BY <1>1, <1>6, <3>3, <3>4 DEF InStep
  <2>3. CASE Upto(t) # Len(data)
    <3>1. k # n
      BY <1>6, <2>1, <2>3
    <3>2. k + 1 \in 1 .. n
      BY <1>5, <3>1
    <3>3. pc' = "token"
      BY <1>3, <1>16, <2>3
    <3>4. Reading(tok[k + 1])'
      BY <1>p, <1>1, <1>16, <2>1, <3>3 DEF Reading
    <3> QED
      BY <1>1, <1>6, <3>2, <3>3, <3>4 DEF InStep
  <2> QED
    BY <2>2, <2>3
(* What is decoded in front of the literals, and behind them.              *)
<1>17. ASSUME pc \notin {"matchExt", "match"} PROVE decoded = SubSeq(data, 1, p) /\ Len(decoded) = p
  <2>1. decoded = SubSeq(data, 1, p)
    BY <1>p, <1>8, <1>17 DEF Reading
  <2>2. p \in 0 .. Len(data) /\ p \in 0 .. p
    BY <1>n, <1>10, <1>12
  <2> QED
    BY <1>2, <2>1, <2>2, PrefixOfPrefix
<1>18. ASSUME pc \in {"matchExt", "match"}
       PROVE  decoded = SubSeq(data, 1, p + a) /\ Len(decoded) = p + a /\ m # 0
  <2>1. decoded = SubSeq(data, 1, p + a) /\ m # 0
    BY <1>p, <1>8, <1>18 DEF Reading
  <2>2. p + a \in 0 .. Len(data) /\ p + a \in 0 .. p + a
    BY <1>n, <1>10, <1>12
  <2> QED
    BY <1>2, <2>1, <2>2, PrefixOfPrefix
<1>19. CASE DecodeStarts
  <2>1. expected > 0
    BY <1>1, <1>2, <1>3, EmptySeq
  <2>2. pc = "decode" /\ pc' = "token" /\ cursor' = cursor /\ decoded' = decoded
    BY <1>19, <2>1 DEF DecodeStarts
  <2>3. Reading(t)'
    BY <1>p, <1>1, <1>8, <2>2 DEF Reading
  <2> QED
    BY <1>15, <2>2, <2>3
<1>20. CASE ReadToken
  <2>1. /\ pc = "token" /\ cursor' = cursor + 1 /\ decoded' = decoded
        /\ matchNibble' = Next1 % Radix /\ length' = Next1 \div Radix
    BY <1>20 DEF ReadToken, Take
  <2>2. cursor = c /\ Next1 = Nibble(a) * Radix + MatchNibble(t)
    BY <1>p, <1>8, <1>11, <2>1 DEF Reading, Next1
  <2>3. Next1 \div Radix = Nibble(a) /\ Next1 % Radix = MatchNibble(t)
    BY <1>10, <2>2, NibbleOK, Nibbles
  <2>4. CASE a >= NibbleMax
    <3>1. Nibble(a) = NibbleMax
      BY <1>10, <2>4, RadixFacts DEF Nibble
    <3>2. pc' = "literalExt"
      BY <1>20, <2>3, <3>1 DEF ReadToken
    <3>3. cursor' = c + 1 + 0 /\ length' = NibbleMax + 0 * Escape /\ length' <= a
      BY <1>10, <2>1, <2>2, <2>3, <2>4, <3>1, RadixFacts
    <3>4. Extending(c + 1, a, NibbleMax)'
      BY <2>4, <3>3 DEF Extending
    <3>5. Reading(t)'
      BY <1>p, <1>1, <1>17, <2>1, <2>3, <3>2, <3>4 DEF Reading
    <3> QED
      BY <1>15, <3>2, <3>5
  <2>5. CASE a < NibbleMax
    <3>1. Nibble(a) = a /\ a # NibbleMax
      BY <1>10, <2>5, RadixFacts DEF Nibble
    <3>2. a <= Remaining
      BY <1>3, <1>12, <1>17, <2>1 DEF Remaining
    <3>3. ~(a > Remaining)
      BY <1>n, <1>3, <1>10, <3>2 DEF Remaining
    <3>4. pc' = "literals"
      BY <1>20, <2>3, <3>1, <3>3 DEF ReadToken
    <3>5. Len(Extension(a, NibbleMax)) = 0
      BY <2>5, EmptySeq DEF Extension
    <3>6. length' = a /\ cursor' = c + 1 + Len(Extension(a, NibbleMax))
      BY <1>10, <2>1, <2>2, <2>3, <3>1, <3>5
    <3>7. Reading(t)'
      BY <1>p, <1>1, <1>17, <2>1, <2>3, <3>4, <3>6 DEF Reading
    <3> QED
      BY <1>15, <3>4, <3>7
  <2> QED
    BY <1>10, <2>4, <2>5, RadixFacts
<1>21. CASE ExtendLiterals
  <2>1. pc = "literalExt" /\ Take /\ length' = length + Next1
        /\ matchNibble' = matchNibble /\ decoded' = decoded
        /\ IF length + Next1 > Remaining THEN Return("MemoryLimitExceeded")
           ELSE pc' = (IF Next1 < Escape THEN "literals" ELSE pc) /\ UNCHANGED result
    BY <1>21 DEF ExtendLiterals, Extend
  <2>2. Extending(c + 1, a, NibbleMax) /\ matchNibble = MatchNibble(t)
    BY <1>p, <1>8, <2>1 DEF Reading
  <2>3. /\ length' <= a
        /\ Next1 < Escape =>
             length' = a /\ cursor' = c + 1 + Len(Extension(a, NibbleMax))
        /\ ~(Next1 < Escape) => Extending(c + 1, a, NibbleMax)'
    <3>1. c + 1 \in Nat /\ NibbleMax \in Nat
      BY <1>10, RadixFacts
    <3> QED
      BY <1>0, <1>10, <1>11, <2>1, <2>2, <3>1, ExtendOneByte
  <2>4. Next1 \in Nat
    BY <1>0, <2>1, NextByte
  <2>5. ~(length + Next1 > Remaining)
    BY <1>n, <1>3, <1>10, <1>12, <1>17, <2>1, <2>3, <2>4, SMTT(30) DEF Remaining
  <2>6. pc' = IF Next1 < Escape THEN "literals" ELSE "literalExt"
    BY <2>1, <2>5
  <2>7. Reading(t)'
    BY <1>p, <1>1, <1>17, <2>1, <2>2, <2>3, <2>6 DEF Reading
  <2> QED
    BY <1>15, <2>6, <2>7
<1>22. CASE ExtendMatch
  <2>1. pc = "matchExt" /\ Take /\ length' = length + Next1
        /\ matchNibble' = matchNibble /\ decoded' = decoded
        /\ IF length + Next1 > Remaining THEN Return("InvalidMatchLength")
           ELSE pc' = (IF Next1 < Escape THEN "match" ELSE pc) /\ UNCHANGED result
    BY <1>22 DEF ExtendMatch, Extend
  <2>2. Extending(c + FrontSize(t), m, MatchBase)
    BY <1>p, <1>8, <2>1 DEF Reading
  <2>3. /\ length' <= m
        /\ Next1 < Escape =>
             length' = m /\ cursor' = c + FrontSize(t) + Len(Extension(m, MatchBase))
        /\ ~(Next1 < Escape) => Extending(c + FrontSize(t), m, MatchBase)'
    <3>1. c + FrontSize(t) \in Nat
      BY <1>10
    <3>2. At(compressed, c + FrontSize(t), Extension(m, MatchBase))
      BY <1>11, <1>18, <2>1
    <3> QED
      BY <1>0, <1>10, <2>1, <2>2, <3>1, <3>2, ExtendOneByte
  <2>4. Next1 \in Nat
    BY <1>0, <2>1, NextByte
  <2>5. ~(length + Next1 > Remaining)
    <3>1. length + Next1 <= m /\ m <= Len(data) - (p + a) /\ Len(decoded) = p + a
      BY <1>12, <1>18, <2>1, <2>3
    <3> QED
      BY <1>n, <1>3, <1>10, <2>4, <3>1 DEF Remaining
  <2>6. pc' = IF Next1 < Escape THEN "match" ELSE "matchExt"
    BY <2>1, <2>5
  <2>7. Reading(t)'
    BY <1>p, <1>1, <1>18, <2>1, <2>3, <2>6 DEF Reading
  <2> QED
    BY <1>15, <2>6, <2>7
<1>23. CASE ExtensionEof
  <2>1. CASE pc = "literalExt"
    <3>1. Extending(c + 1, a, NibbleMax)
      BY <1>p, <1>8, <2>1 DEF Reading
    <3>2. c + 1 \in Nat /\ NibbleMax \in Nat
      BY <1>10, RadixFacts
    <3>3. cursor < Len(compressed)
      BY <1>0, <1>10, <1>11, <3>1, <3>2, ExtendOneByte
    <3> QED
      BY <1>n, <1>23, <3>3 DEF ExtensionEof
  <2>2. CASE pc = "matchExt"
    <3>1. Extending(c + FrontSize(t), m, MatchBase)
      BY <1>p, <1>8, <2>2 DEF Reading
    <3>2. c + FrontSize(t) \in Nat
      BY <1>10
    <3>3. At(compressed, c + FrontSize(t), Extension(m, MatchBase))
      BY <1>11, <1>18, <2>2
    <3>4. cursor < Len(compressed)
      BY <1>0, <1>10, <3>1, <3>2, <3>3, ExtendOneByte
    <3> QED
      BY <1>n, <1>23, <3>4 DEF ExtensionEof
  <2> QED
    BY <1>23, <2>1, <2>2 DEF ExtensionEof
(* The literals are in the payload, behind their length.                   *)
<1>24. ASSUME pc = "literals"
       PROVE  /\ length = a /\ matchNibble = MatchNibble(t)
              /\ cursor + length = c + FrontSize(t) /\ cursor + length <= Len(compressed)
              /\ decoded \o SubSeq(compressed, cursor + 1, cursor + length)
                   = SubSeq(data, 1, p + a)
  <2>1. /\ length = a /\ matchNibble = MatchNibble(t)
        /\ cursor = c + 1 + Len(Extension(a, NibbleMax))
    BY <1>p, <1>8, <1>24 DEF Reading
  <2>2. cursor + length = c + FrontSize(t)
    BY <1>10, <1>13, <2>1
  <2> DEFINE l == TokenLiterals(data, t)
  <2>3. At(compressed, cursor, l)
    BY <1>11, <2>1
  <2>4. l \in Seq(Byte) /\ Len(l) = a
    BY <1>p, <1>2, <1>9, <1>12, FrontOK
  <2>5. \A i \in 1 .. a : l[i] = data[p + i]
    <3> DEFINE b == p + 1
               e == p + a
    <3>1. b \in Int /\ e \in Int /\ e - b + 1 = a /\ \A i \in 1 .. a : b + i - 1 = p + i
      BY <1>10
    <3>2. \A i \in b .. e : data[i] \in Byte
      <4>1. \A i \in b .. e : i \in 1 .. Len(data)
        BY <1>n, <1>10, <1>12
      <4> QED
        BY <1>2, <4>1, ElementOfSeq
    <3> HIDE DEF b, e
    <3>3. \A i \in 1 .. e - b + 1 : SubSeq(data, b, e)[i] = data[b + i - 1]
      BY <3>1, <3>2, SubSeqProperties
    <3>4. l = SubSeq(data, b, e)
      BY <1>p DEF TokenLiterals, b, e
    <3> QED
      BY <3>1, <3>3, <3>4
  <2> HIDE DEF l
  <2>6. SubSeq(compressed, cursor + 1, cursor + Len(l)) = l
    BY <1>2, <2>3, <2>4, SliceAt
  <2>7. SubSeq(data, 1, p) \o l = SubSeq(data, 1, p + Len(l))
    <3>1. p + Len(l) <= Len(data)
      BY <1>12, <2>4
    <3> QED
      BY <1>2, <1>10, <2>4, <2>5, <3>1, PrefixGrows
  <2>8. cursor + Len(l) <= Len(compressed)
    BY <2>3 DEF At
  <2>9. decoded = SubSeq(data, 1, p)
    BY <1>17, <1>24
  <2> QED
    BY <2>1, <2>2, <2>4, <2>6, <2>7, <2>8, <2>9
<1>25. CASE CopyLiterals
  <2> DEFINE out == decoded \o SubSeq(compressed, cursor + 1, cursor + length)
             readTo == cursor + length
             match == matchNibble + MinMatch
  <2>1. pc = "literals"
    BY <1>25 DEF CopyLiterals
  <2>2. /\ decoded' = out /\ cursor' = readTo /\ length' = match /\ matchNibble' = matchNibble
        /\ \/ Len(out) = expected /\ Complete(readTo)
           \/ Len(out) # expected /\ readTo = Len(compressed) /\ Return("UnexpectedEof")
           \/ /\ Len(out) # expected /\ readTo < Len(compressed)
              /\ \/ matchNibble = NibbleMax /\ pc' = "matchExt" /\ UNCHANGED result
                 \/ /\ matchNibble # NibbleMax
                    /\ IF match > expected - Len(out) THEN Return("InvalidMatchLength")
                       ELSE pc' = "match" /\ UNCHANGED result
    BY <1>25 DEF CopyLiterals
  <2>3. /\ out = SubSeq(data, 1, p + a) /\ readTo = c + FrontSize(t)
        /\ matchNibble = MatchNibble(t)
    BY <1>24, <2>1
  <2>4. Len(out) = p + a
    <3>1. p + a \in 0 .. Len(data) /\ p + a \in 0 .. p + a
      BY <1>n, <1>10, <1>12
    <3> QED
      BY <1>2, <2>3, <3>1, PrefixOfPrefix
  <2> HIDE DEF out, readTo, match
  <2>5. CASE m = 0
    <3>1. Len(out) = expected /\ Upto(t) = p + a /\ Upto(t) = expected
      BY <1>3, <1>12, <2>4, <2>5
    <3>2. EndOf(t) = c + FrontSize(t)
      <4>1. Len(Behind(t)) = 0
        BY <1>p, <2>5, EmptySeq DEF Behind
      <4> QED
        BY <1>p, <1>10, <4>1 DEF EndOf
    <3>3. Complete(cursor') /\ cursor' = EndOf(t) /\ decoded' = SubSeq(data, 1, Upto(t))
      BY <2>2, <2>3, <3>1, <3>2
    <3> QED
      BY <1>16, <3>1, <3>3
  <2>6. CASE m # 0
    <3>1. Len(out) # expected
      BY <1>n, <1>3, <1>10, <1>12, <2>4, <2>6
    <3>2. readTo < Len(compressed)
      <4>1. At(compressed, c + FrontSize(t) + Len(Extension(m, MatchBase)), LittleEndian(o))
        BY <1>11, <2>6
      <4>2. c + FrontSize(t) + Len(Extension(m, MatchBase)) + OffsetBytes <= Len(compressed)
        BY <1>o, <4>1 DEF At
      <4>3. OffsetBytes \in Nat /\ OffsetBytes >= 2
        BY DEF OffsetBytes
      <4>4. readTo = c + FrontSize(t)
        BY <2>3
      <4> QED
        BY <1>n, <1>10, <4>2, <4>3, <4>4, SMTT(30)
    <3>3. m - MinMatch \in Nat /\ matchNibble = Nibble(m - MinMatch)
      <4>1. m - MinMatch \in Nat
        BY <1>10, <1>m, <2>6, RadixFacts
      <4>2. MatchNibble(t) = Nibble(m - MinMatch)
        BY <1>p, <2>6 DEF MatchNibble
      <4> QED
        BY <2>3, <4>1, <4>2
    <3>4. /\ \/ matchNibble = NibbleMax /\ pc' = "matchExt"
             \/ /\ matchNibble # NibbleMax
                /\ IF match > expected - Len(out) THEN Return("InvalidMatchLength")
                   ELSE pc' = "match"
      BY <1>n, <2>2, <3>1, <3>2
    <3>5. decoded' = SubSeq(data', 1, p + a)
      BY <1>1, <2>2, <2>3
    <3>6. CASE m >= MatchBase
      <4>1. matchNibble = NibbleMax
        BY <1>10, <3>3, <3>6, RadixFacts DEF Nibble, MatchBase
      <4>2. /\ pc' = "matchExt" /\ cursor' = c + FrontSize(t) + 0
            /\ length' = MatchBase + 0 * Escape /\ length' <= m
        BY <1>10, <2>2, <2>3, <3>4, <3>6, <4>1, RadixFacts, SMTT(60) DEF match, MatchBase
      <4>3. Extending(c + FrontSize(t), m, MatchBase)'
        BY <3>6, <4>2 DEF Extending
      <4>4. Reading(t)'
        BY <1>p, <2>6, <3>5, <4>2, <4>3 DEF Reading
      <4> QED
        BY <1>15, <4>2, <4>4
    <3>7. CASE m < MatchBase
      <4>1. matchNibble = m - MinMatch /\ matchNibble # NibbleMax /\ match = m
        BY <1>10, <3>3, <3>7, RadixFacts DEF Nibble, MatchBase, match
      <4>2. ~(match > expected - Len(out))
        BY <1>n, <1>3, <1>10, <1>12, <2>4, <4>1
      <4>3. pc' = "match"
        BY <3>4, <4>1, <4>2
      <4>4. Len(Extension(m, MatchBase)) = 0
        BY <3>7, EmptySeq DEF Extension
      <4>5. length' = m /\ cursor' = c + FrontSize(t) + Len(Extension(m, MatchBase))
        BY <1>10, <2>2, <2>3, <4>1, <4>4
      <4>6. Reading(t)'
        BY <1>p, <2>6, <3>5, <4>3, <4>5 DEF Reading
      <4> QED
        BY <1>15, <4>3, <4>6
    <3> QED
      BY <1>10, <3>6, <3>7
  <2> QED
    BY <2>5, <2>6
<1>26. CASE LiteralsEof
  BY <1>n, <1>24, <1>26 DEF LiteralsEof
(* And so is the offset.                                                   *)
<1>27. ASSUME pc = "match"
       PROVE  /\ length = m /\ cursor + OffsetBytes = EndOf(t)
              /\ cursor + OffsetBytes <= Len(compressed)
              /\ SubSeq(compressed, cursor + 1, cursor + OffsetBytes) = LittleEndian(o)
  <2>1. length = m /\ m # 0 /\ cursor = c + FrontSize(t) + Len(Extension(m, MatchBase))
    BY <1>p, <1>8, <1>27 DEF Reading
  <2>2. At(compressed, cursor, LittleEndian(o))
    BY <1>11, <2>1
  <2>3. SubSeq(compressed, cursor + 1, cursor + OffsetBytes) = LittleEndian(o)
    BY <1>2, <1>o, <2>2, SliceAt
  <2>4. cursor + OffsetBytes <= Len(compressed)
    BY <1>o, <2>2 DEF At
  <2>5. Len(Behind(t)) = Len(Extension(m, MatchBase)) + OffsetBytes
    <3>1. Extension(m, MatchBase) \in Seq(Byte)
      BY <1>p, <1>9, TokenFacts
    <3> QED
      BY <1>p, <1>o, <2>1, <3>1, ConcatLength DEF Behind
  <2>6. cursor + OffsetBytes = EndOf(t)
    <3>1. OffsetBytes \in Nat
      BY DEF OffsetBytes
    <3>2. EndOf(t) = c + FrontSize(t) + Len(Behind(t))
      BY <1>p DEF EndOf
    <3> QED
      BY <1>10, <2>1, <2>5, <3>1, <3>2, SMTT(30)
  <2> QED
    BY <2>1, <2>3, <2>4, <2>6
<1>28. CASE CopyMatch
  <2>1. pc = "match" /\ cursor' = cursor + OffsetBytes
    BY <1>28 DEF CopyMatch
  <2>2. PICK offset \in 0 .. MaxOffset :
          /\ LittleEndian(offset) = SubSeq(compressed, cursor + 1, cursor + OffsetBytes)
          /\ IF offset = 0 \/ offset > Len(decoded)
               THEN Return("InvalidOffset") /\ UNCHANGED decoded
               ELSE /\ decoded' = decoded \o CopyFrom(offset, length)
                    /\ IF Len(decoded) + length = expected
                         THEN Complete(cursor')
                         ELSE pc' = "token" /\ UNCHANGED result
    BY <1>28 DEF CopyMatch
  <2>3. /\ decoded = SubSeq(data, 1, p + a) /\ Len(decoded) = p + a /\ m # 0
        /\ length = m
    BY <1>18, <1>27, <2>1
  <2>4. o \in 1 .. MaxOffset /\ o <= p + a /\ EqualsBefore(data, p + a, o, m)
    BY <1>p, <1>9, <2>3 DEF Fits
  <2>5. MaxOffset \in Int
    BY RadixFacts DEF MaxOffset
  <2>6. offset = o
    <3>1. o \in 0 .. MaxOffset
      BY <2>4, <2>5
    <3>2. LittleEndian(offset) = LittleEndian(o)
      BY <1>27, <2>1, <2>2
    <3> QED
      BY <3>1, <3>2, OffsetOfBytes
  <2>7. ~(offset = 0 \/ offset > Len(decoded)) /\ o \in 1 .. p + a
    BY <1>n, <1>10, <2>3, <2>4, <2>5, <2>6
  <2>8. /\ decoded' = decoded \o CopyFrom(o, m)
        /\ IF Len(decoded) + m = expected THEN Complete(cursor')
           ELSE pc' = "token" /\ UNCHANGED result
    BY <2>2, <2>3, <2>6, <2>7
  <2>9. decoded \o CopyFrom(o, m) = SubSeq(data, 1, p + a + m)
    <3>1. p + a \in Nat /\ p + a + m <= Len(data)
      BY <1>10, <1>12
    <3> QED
      BY <1>0, <1>10, <2>3, <2>4, <2>7, <3>1, CopyRestores, ZenonT(30)
  <2>10. Len(decoded) + m = Upto(t) /\ cursor' = EndOf(t) /\ decoded' = SubSeq(data, 1, Upto(t))
    BY <1>12, <1>27, <2>1, <2>3, <2>8, <2>9
  <2> QED
    BY <1>16, <2>8, <2>10
<1>29. CASE OffsetEof
  <2>1. OffsetBytes \in Nat
    BY DEF OffsetBytes
  <2> QED
    BY <1>n, <1>27, <1>29, <2>1 DEF OffsetEof
<1>30. CASE PayloadEnds
  <2>1. cursor = c
    BY <1>p, <1>8, <1>30 DEF PayloadEnds, Reading
  <2> QED
    BY <1>n, <1>10, <1>11, <1>30, <2>1 DEF PayloadEnds
<1> QED
  BY <1>19, <1>20, <1>21, <1>22, <1>23, <1>25, <1>26, <1>28, <1>29, <1>30 DEF Decode

(* What encode emits decodes to its input, for bytes of any size, any data *)
(* and any hash function, and for both sizes of offsets.                   *)
THEOREM LzfRoundTrip == Spec => []RoundTrip
<1>1. RInv /\ [Next]_vars => RInv'
  <2> SUFFICES ASSUME RInv, Next \/ UNCHANGED vars PROVE RInv'
    OBVIOUS
  <2>1. CASE Done \/ UNCHANGED vars
    <3>1. UNCHANGED vars
      BY <2>1 DEF Done
    <3>2. IInv'
      BY <3>1 DEF vars, encoderVars, decoderVars, RInv, IInv, TypeOK, SearchLooksBack,
        DecoderStaysInBounds, Remaining
    <3>3. ASSUME NEW n, NEW tok, InStep(n, tok) PROVE InStep(n, tok)'
      BY <3>1, <3>3 DEF vars, encoderVars, decoderVars, InStep, Reading, Extending
    <3> QED
      BY <3>1, <3>2, <3>3 DEF RInv, vars, encoderVars
  <2> QED
    BY <2>1, EncodeRInv, DecodeRInv DEF Next
<1>2. RInv => RoundTrip
  BY DEF RInv, RoundTrip, InStep
<1> QED
  BY <1>1, <1>2, InitRInv, PTL DEF Spec

-----------------------------------------------------------------------------
(***************************************************************************)
(* Sums over finite sets, as the community modules fold them. What        *)
(* follows serves the entropy coders.                                     *)
(***************************************************************************)

(* Induction over the subsets of a finite set.                             *)
LEMMA SetInduction ==
  ASSUME NEW S, IsFiniteSet(S), NEW Good, {} \in Good,
         \A T \in SUBSET S : \A x \in S \ T : T \in Good => T \cup {x} \in Good
  PROVE  \A T \in SUBSET S : T \in Good
<1> DEFINE Bad == {n \in Nat : \E T \in SUBSET S : Cardinality(T) = n /\ T \notin Good}
<1> SUFFICES ASSUME NEW B \in SUBSET S, B \notin Good PROVE FALSE
  OBVIOUS
<1>1. \A T \in SUBSET S : IsFiniteSet(T) /\ Cardinality(T) \in Nat
  BY FS_Subset, FS_CardinalityType
<1>2. Bad \in SUBSET Nat /\ Bad # {}
  BY <1>1
<1>3. PICK m \in Bad : \A y \in Bad : m <= y
  <2> HIDE DEF Bad
  <2> QED
    BY <1>2, SmallestNat
<1>4. PICK T \in SUBSET S : Cardinality(T) = m /\ T \notin Good
  BY <1>3
<1>5. PICK x \in T : TRUE
  BY <1>4
<1> DEFINE U == T \ {x}
<1>6. IsFiniteSet(U) /\ Cardinality(U) = m - 1 /\ U \in SUBSET S /\ m \in Nat
  BY <1>1, <1>3, <1>4, <1>5, FS_RemoveElement
<1>7. U \in Good
  <2>1. m - 1 \in Nat /\ ~(m <= m - 1)
    BY <1>1, <1>6
  <2> HIDE DEF U
  <2> QED
    BY <1>3, <1>6, <2>1
<1>8. x \in S \ U /\ U \cup {x} = T
  BY <1>5
<1> QED
  BY <1>4, <1>6, <1>7, <1>8

-----------------------------------------------------------------------------
(* The recursive function behind a sum.                                    *)
First(s) == CHOOSE x \in s : TRUE

AddsUp(it, g, S) ==
  it = [s \in SUBSET S |-> IF s = {} THEN 0 ELSE g[First(s)] + it[s \ {First(s)}]]

(* FoldFunctionOnSet as that recursive function.                          *)
LEMMA SumIs ==
  ASSUME NEW g, NEW S
  PROVE  SumFunctionOnSet(g, S) = (CHOOSE it : AddsUp(it, g, S))[S]
BY DEF SumFunctionOnSet, FoldFunctionOnSet, MapThenFoldSet, AddsUp, First

LEMMA FirstIn == ASSUME NEW s, s # {} PROVE First(s) \in s
BY DEF First

(* There is such a function for every finite set, by induction on the     *)
(* subset.                                                                *)
LEMMA AddsUpExists ==
  ASSUME NEW S, IsFiniteSet(S), NEW g, \A x \in S : g[x] \in Int
  PROVE  \E it \in [SUBSET S -> Int] : AddsUp(it, g, S)
<1> DEFINE n == Cardinality(S) + 1
           T == [SUBSET S -> Int]
           more(F) == [s \in SUBSET S |-> IF s = {} THEN 0 ELSE g[First(s)] + F[s \ {First(s)}]]
           base == [s \in SUBSET S |-> 0]
           step == [k \in 1 .. n |-> [F \in T |-> more(F)]]
<1>1. \A T1 \in SUBSET S : IsFiniteSet(T1) /\ Cardinality(T1) \in Nat
      /\ Cardinality(T1) <= Cardinality(S)
  BY FS_Subset, FS_CardinalityType
<1>2. n \in Nat /\ base \in T /\ n >= 1 /\ n - 1 = Cardinality(S) /\ Cardinality(S) \in Nat
      /\ \A s \in SUBSET S : Cardinality(s) < n
  <2>1. Cardinality(S) \in Nat
    BY <1>1
  <2> QED
    BY <1>1, <2>1
<1> HIDE DEF n
<1>3. \A F \in T : more(F) \in T
  <2> SUFFICES ASSUME NEW F \in T, NEW s \in SUBSET S, s # {}
               PROVE  g[First(s)] + F[s \ {First(s)}] \in Int
    OBVIOUS
  <2>1. First(s) \in S /\ s \ {First(s)} \in SUBSET S
    BY FirstIn
  <2>2. F[s \ {First(s)}] \in Int
    BY <2>1
  <2> QED
    BY <2>1, <2>2
<1>4. step \in [1 .. n -> [T -> T]]
  BY <1>3
<1>5. PICK f \in [0 .. n -> T] : Climbs(f, n, base, step)
  <2> HIDE DEF step, base, T, n
  <2> QED
    BY <1>2, <1>4, ForwardRecursion
<1>6. f[0] = base /\ \A k \in 1 .. n : f[k] = more(f[k - 1])
  <2>1. f[0] = base /\ \A k \in 1 .. n : f[k] = step[k][f[k - 1]]
    BY <1>5 DEF Climbs
  <2>2. \A k \in 1 .. n : f[k - 1] \in T
    <3> HIDE DEF T
    <3>1. \A k \in 1 .. n : k - 1 \in 0 .. n
      BY <1>2
    <3> QED
      BY <1>5, <3>1
  <2> HIDE DEF T, more
  <2> QED
    BY <2>1, <2>2
<1>a. \A k \in 1 .. n : \A s \in SUBSET S :
        f[k][s] = IF s = {} THEN 0 ELSE g[First(s)] + f[k - 1][s \ {First(s)}]
  <2> SUFFICES ASSUME NEW k \in 1 .. n, NEW s \in SUBSET S
               PROVE  f[k][s] = IF s = {} THEN 0 ELSE g[First(s)] + f[k - 1][s \ {First(s)}]
    OBVIOUS
  <2>1. f[k] = more(f[k - 1])
    <3> HIDE DEF more
    <3> QED
      BY <1>6
  <2> QED
    BY <2>1, Zenon
<1> DEFINE Good == {k \in 1 .. n : \A s \in SUBSET S : Cardinality(s) < k =>
      f[k][s] = f[k - 1][s]}
<1> HIDE DEF step
<1>7. \A k \in 1 .. n : k \in Good
  <2> DEFINE Bad == {k \in Nat : k \in 1 .. n /\ k \notin Good}
  <2> SUFFICES ASSUME NEW k0 \in 1 .. n, k0 \notin Good PROVE FALSE
    OBVIOUS
  <2>1. Bad \in SUBSET Nat /\ Bad # {}
    <3>1. k0 \in Bad
      <4>1. k0 \in Nat
        BY <1>2
      <4> HIDE DEF Good
      <4> QED
        BY <4>1
    <3> QED
      BY <3>1
  <2>2. PICK k \in Bad : \A y \in Bad : k <= y
    <3> HIDE DEF Bad
    <3> QED
      BY <2>1, SmallestNat
  <2>3. PICK s \in SUBSET S : Cardinality(s) < k /\ f[k][s] # f[k - 1][s]
    BY <2>2
  <2>4. CASE s = {}
    <3>1. f[k][s] = 0
      BY <1>6, <2>2, <2>4
    <3>2. f[k - 1][s] = 0
      <4>1. CASE k = 1
        BY <1>6, <2>4, <4>1
      <4>2. CASE k # 1
        <5>1. k - 1 \in 1 .. n
          BY <1>2, <2>2, <4>2
        <5> QED
          BY <1>6, <2>4, <5>1
      <4> QED
        BY <4>1, <4>2
    <3> QED
      BY <2>3, <3>1, <3>2
  <2>5. CASE s # {}
    <3> DEFINE c == First(s)
               r == s \ {c}
    <3>0. IsFiniteSet(s) /\ Cardinality(s) \in Nat
      BY <1>1
    <3>1. c \in s /\ r \in SUBSET S /\ Cardinality(r) = Cardinality(s) - 1 /\ Cardinality(s) > 0
      <4>1. c \in s
        BY <2>5, FirstIn
      <4>2. Cardinality(r) = Cardinality(s) - 1
        BY <3>0, <4>1, FS_RemoveElement
      <4>3. Cardinality(s) # 0
        BY <2>5, <3>0, FS_EmptySet
      <4> QED
        BY <3>0, <4>1, <4>2, <4>3
    <3>2. k - 1 \in 1 .. n /\ k \in 1 .. n
      <4>1. k \in 1 .. n /\ Cardinality(s) < k
        BY <2>2, <2>3
      <4> HIDE DEF c, r
      <4> QED
        BY <1>2, <3>0, <3>1, <4>1
    <3>3. f[k][s] = g[c] + f[k - 1][r]
      BY <1>a, <2>5, <3>2
    <3>4. f[k - 1][s] = g[c] + f[k - 1 - 1][r]
      BY <1>a, <2>5, <3>2
    <3>5. k - 1 \in Good
      <4>1. ~(k <= k - 1) /\ k - 1 \in Nat
        BY <3>2
      <4> QED
        BY <2>2, <3>2, <4>1
    <3>6. Cardinality(r) < k - 1
      BY <1>1, <2>2, <2>3, <3>1
    <3>7. f[k - 1][r] = f[k - 1 - 1][r]
      BY <3>1, <3>5, <3>6
    <3> HIDE DEF c, r
    <3> QED
      BY <2>3, <3>3, <3>4, <3>7
  <2> QED
    BY <2>4, <2>5
<1> DEFINE it == f[n - 1]
<1>8. it \in T
  <2>1. n - 1 \in 0 .. n
    BY <1>2
  <2> HIDE DEF T
  <2> QED
    BY <1>5, <2>1
<1>9. f[n] = it
  <2>1. f[n] \in T
    <3>1. n \in 0 .. n
      BY <1>2
    <3> HIDE DEF T
    <3> QED
      BY <1>5, <3>1
  <2>2. \A s \in SUBSET S : f[n][s] = f[n - 1][s]
    <3>1. n \in Good /\ \A s \in SUBSET S : Cardinality(s) < n
      <4> HIDE DEF Good
      <4>1. n \in 1 .. n
        BY <1>2
      <4> QED
        BY <1>2, <1>7, <4>1
    <3> QED
      BY <3>1
  <2> QED
    BY <1>8, <2>1, <2>2
<1>10. it = more(it)
  <2>1. n \in 1 .. n
    BY <1>2
  <2>2. f[n] = more(f[n - 1])
    BY <1>6, <2>1
  <2> QED
    BY <1>9, <2>2
<1>11. AddsUp(it, g, S)
  BY <1>10 DEF AddsUp
<1> QED
  BY <1>8, <1>11

(* What it is for a part does not depend on the set it is taken from.     *)
LEMMA AddsUpOnce ==
  ASSUME NEW S, NEW U, NEW T \in SUBSET (S \cap U), IsFiniteSet(T), NEW g,
         NEW it, NEW jt, AddsUp(it, g, S), AddsUp(jt, g, U)
  PROVE  it[T] = jt[T]
<1> DEFINE Bad == {n \in Nat : \E s \in SUBSET T : Cardinality(s) = n /\ it[s] # jt[s]}
<1> SUFFICES ASSUME it[T] # jt[T] PROVE FALSE
  OBVIOUS
<1>1. \A s \in SUBSET T : IsFiniteSet(s) /\ Cardinality(s) \in Nat
  BY FS_Subset, FS_CardinalityType
<1>2. Bad \in SUBSET Nat /\ Bad # {}
  BY <1>1
<1>3. PICK m \in Bad : \A y \in Bad : m <= y
  <2> HIDE DEF Bad
  <2> QED
    BY <1>2, SmallestNat
<1>4. PICK s \in SUBSET T : Cardinality(s) = m /\ it[s] # jt[s]
  BY <1>3
<1>5. s \in SUBSET S /\ s \in SUBSET U
  OBVIOUS
<1>6. it[s] = IF s = {} THEN 0 ELSE g[First(s)] + it[s \ {First(s)}]
  BY <1>5 DEF AddsUp
<1>7. jt[s] = IF s = {} THEN 0 ELSE g[First(s)] + jt[s \ {First(s)}]
  BY <1>5 DEF AddsUp
<1>8. s # {}
  BY <1>4, <1>6, <1>7
<1> DEFINE r == s \ {First(s)}
<1>9. First(s) \in s /\ r \in SUBSET T /\ Cardinality(r) = m - 1
  BY <1>1, <1>4, <1>8, FirstIn, FS_RemoveElement
<1>10. it[r] # jt[r]
  BY <1>4, <1>6, <1>7, <1>8
<1>11. m - 1 \in Nat /\ ~(m <= m - 1)
  BY <1>1, <1>3, <1>9
<1>12. m - 1 \in Bad
  BY <1>9, <1>10, <1>11
<1> QED
  BY <1>3, <1>11, <1>12

LEMMA SumEmpty == ASSUME NEW g PROVE SumFunctionOnSet(g, {}) = 0
<1> DEFINE it == CHOOSE i : AddsUp(i, g, {})
<1>1. AddsUp(it, g, {})
  <2>1. \E i : AddsUp(i, g, {})
    BY AddsUpExists, FS_EmptySet
  <2> QED
    BY <2>1
<1>2. it[{}] = 0
  <2>1. {} \in SUBSET {}
    OBVIOUS
  <2> HIDE DEF it
  <2> QED
    BY <1>1, <2>1 DEF AddsUp
<1> QED
  BY <1>2, SumIs

(* A sum begins with the element that CHOOSE picks.                       *)
LEMMA SumOfFirst ==
  ASSUME NEW S, IsFiniteSet(S), S # {}, NEW g, \A x \in S : g[x] \in Int
  PROVE  /\ SumFunctionOnSet(g, S) = g[First(S)] + SumFunctionOnSet(g, S \ {First(S)})
         /\ SumFunctionOnSet(g, S \ {First(S)}) \in Int
<1> DEFINE c == First(S)
           r == S \ {c}
           it == CHOOSE i : AddsUp(i, g, S)
           jt == CHOOSE i : AddsUp(i, g, r)
<1>1. IsFiniteSet(r) /\ c \in S /\ r \in SUBSET (S \cap r)
  BY FS_RemoveElement, FirstIn
<1>2. AddsUp(it, g, S)
  <2>1. \E i : AddsUp(i, g, S)
    BY AddsUpExists
  <2> QED
    BY <2>1
<1>3. AddsUp(jt, g, r) /\ \E i \in [SUBSET r -> Int] : AddsUp(i, g, r)
  <2>1. \E i \in [SUBSET r -> Int] : AddsUp(i, g, r)
    <3>1. \A x \in r : g[x] \in Int
      OBVIOUS
    <3> HIDE DEF r
    <3> QED
      BY <1>1, <3>1, AddsUpExists
  <2> HIDE DEF r
  <2> QED
    BY <2>1
<1> HIDE DEF it, jt
<1>4. it[S] = g[c] + it[r]
  BY <1>2 DEF AddsUp
<1>5. it[r] = jt[r]
  <2> HIDE DEF r
  <2> QED
    BY <1>1, <1>2, <1>3, AddsUpOnce
<1>6. jt[r] \in Int
  <2>1. PICK i \in [SUBSET r -> Int] : AddsUp(i, g, r)
    BY <1>3
  <2>2. i[r] \in Int
    BY <2>1
  <2>3. r \in SUBSET (r \cap r)
    OBVIOUS
  <2>4. i[r] = jt[r]
    <3> HIDE DEF r
    <3> QED
      BY <1>1, <1>3, <2>1, <2>3, AddsUpOnce
  <2> QED
    BY <2>2, <2>4
<1>7. SumFunctionOnSet(g, S) = it[S] /\ SumFunctionOnSet(g, r) = jt[r]
  <2> HIDE DEF r
  <2> QED
    BY SumIs DEF it, jt
<1> QED
  BY <1>4, <1>5, <1>6, <1>7

-----------------------------------------------------------------------------
(* A sum is a number, and x may be taken out first, whatever x is.         *)
LEMMA SumType ==
  ASSUME NEW S, IsFiniteSet(S), NEW g, \A x \in S : g[x] \in Int
  PROVE  SumFunctionOnSet(g, S) \in Int
<1>1. CASE S = {}
  BY <1>1, SumEmpty
<1>2. CASE S # {}
  <2>1. First(S) \in S
    BY <1>2, FirstIn
  <2>2. /\ SumFunctionOnSet(g, S) = g[First(S)] + SumFunctionOnSet(g, S \ {First(S)})
        /\ SumFunctionOnSet(g, S \ {First(S)}) \in Int
    BY <1>2, SumOfFirst
  <2>3. \A a, b, d : a \in Int /\ b \in Int /\ d = a + b => d \in Int
    OBVIOUS
  <2> QED
    BY <2>1, <2>2, <2>3, Zenon
<1> QED
  BY <1>1, <1>2

(* ... and any other may be taken out first.                              *)
LEMMA SumWithout ==
  ASSUME NEW S, IsFiniteSet(S), NEW g, \A x \in S : g[x] \in Int, NEW x \in S
  PROVE  SumFunctionOnSet(g, S) = g[x] + SumFunctionOnSet(g, S \ {x})
<1> DEFINE Sum(T) == SumFunctionOnSet(g, T)
           Good == {T \in SUBSET S : \A y \in T : Sum(T) = g[y] + Sum(T \ {y})}
           Bad == {n \in Nat : \E T \in SUBSET S : Cardinality(T) = n /\ T \notin Good}
<1>1. \A T \in SUBSET S : IsFiniteSet(T) /\ Cardinality(T) \in Nat
  BY FS_Subset, FS_CardinalityType
<1>2. \A T \in SUBSET S : Sum(T) \in Int
  BY <1>1, SumType
<1> SUFFICES ASSUME S \notin Good PROVE FALSE
  OBVIOUS
<1>3. Bad \in SUBSET Nat /\ Bad # {}
  <2>1. Cardinality(S) \in Bad
    BY <1>1
  <2> QED
    BY <2>1
<1>4. PICK m \in Bad : \A n \in Bad : m <= n
  <2> HIDE DEF Bad
  <2> QED
    BY <1>3, SmallestNat
<1>5. PICK T \in SUBSET S : Cardinality(T) = m /\ T \notin Good
  BY <1>4
<1>6. PICK y \in T : Sum(T) # g[y] + Sum(T \ {y})
  BY <1>5
<1> DEFINE c == First(T)
<1>7. c \in T /\ Sum(T) = g[c] + Sum(T \ {c})
  <2>1. IsFiniteSet(T) /\ T # {} /\ \A z \in T : g[z] \in Int
    BY <1>1, <1>6
  <2> QED
    BY <2>1, FirstIn, SumOfFirst
<1>8. \A z \in T : T \ {z} \in Good
  <2> SUFFICES ASSUME NEW z \in T PROVE T \ {z} \in Good
    OBVIOUS
  <2>1. Cardinality(T \ {z}) = m - 1 /\ T \ {z} \in SUBSET S
    BY <1>1, <1>5, FS_RemoveElement
  <2>2. m - 1 \in Nat /\ ~(m <= m - 1)
    BY <1>1, <1>4, <2>1
  <2>3. m - 1 \notin Bad
    <3> HIDE DEF Bad
    <3> QED
      BY <1>4, <2>2
  <2> HIDE DEF Good
  <2> QED
    BY <2>1, <2>2, <2>3
<1>9. y # c
  BY <1>6, <1>7
<1> HIDE DEF c
<1>10. Sum(T \ {c}) = g[y] + Sum((T \ {c}) \ {y})
  BY <1>7, <1>8, <1>9
<1>11. Sum(T \ {y}) = g[c] + Sum((T \ {y}) \ {c})
  BY <1>7, <1>8, <1>9
<1>12. (T \ {c}) \ {y} = (T \ {y}) \ {c}
  OBVIOUS
<1>13. g[c] \in Int /\ g[y] \in Int /\ Sum((T \ {y}) \ {c}) \in Int
  BY <1>2, <1>7
<1> HIDE DEF Sum
<1>14. Sum(T \ {c}) = g[y] + Sum((T \ {y}) \ {c})
  BY <1>10, <1>12, Zenon
<1>16. Sum(T) = g[y] + Sum(T \ {y})
  BY <1>7, <1>11, <1>13, <1>14
<1> QED
  BY <1>6, <1>16

LEMMA SumWith ==
  ASSUME NEW S, IsFiniteSet(S), NEW x, x \notin S, NEW g, \A y \in S \cup {x} : g[y] \in Int
  PROVE  SumFunctionOnSet(g, S \cup {x}) = SumFunctionOnSet(g, S) + g[x]
<1>1. IsFiniteSet(S \cup {x})
  BY FS_AddElement
<1>2. SumFunctionOnSet(g, S \cup {x}) = g[x] + SumFunctionOnSet(g, (S \cup {x}) \ {x})
  BY <1>1, SumWithout
<1>3. (S \cup {x}) \ {x} = S
  OBVIOUS
<1>4. SumFunctionOnSet(g, S) \in Int /\ g[x] \in Int
  BY SumType
<1>5. SumFunctionOnSet(g, S \cup {x}) = g[x] + SumFunctionOnSet(g, S)
  BY <1>2, <1>3, Zenon
<1>6. \A a, b, d : a \in Int /\ b \in Int /\ d = a + b => d = b + a
  OBVIOUS
<1> QED
  BY <1>4, <1>5, <1>6, Zenon

(* Functions that agree on S have the same sum.                            *)
LEMMA SumSame ==
  ASSUME NEW S, IsFiniteSet(S), NEW g, NEW h, \A x \in S : g[x] \in Int /\ h[x] = g[x]
  PROVE  SumFunctionOnSet(h, S) = SumFunctionOnSet(g, S)
<1> DEFINE Good == {T \in SUBSET S : SumFunctionOnSet(h, T) = SumFunctionOnSet(g, T)}
<1>1. {} \in Good
  BY SumEmpty
<1>2. ASSUME NEW T \in SUBSET S, NEW x \in S \ T, T \in Good PROVE T \cup {x} \in Good
  <2>1. IsFiniteSet(T)
    BY FS_Subset
  <2>2. SumFunctionOnSet(h, T \cup {x}) = SumFunctionOnSet(h, T) + h[x]
    BY <2>1, SumWith
  <2>3. SumFunctionOnSet(g, T \cup {x}) = SumFunctionOnSet(g, T) + g[x]
    BY <2>1, SumWith
  <2> QED
    BY <1>2, <2>2, <2>3
<1>3. \A T \in SUBSET S : T \in Good
  <2> HIDE DEF Good
  <2> QED
    BY <1>1, <1>2, SetInduction
<1> QED
  BY <1>3

(* If no term is more than c, the sum is not more than that often c.       *)
LEMMA SumAtMost ==
  ASSUME NEW S, IsFiniteSet(S), NEW g, \A x \in S : g[x] \in Int /\ g[x] <= 1
  PROVE  SumFunctionOnSet(g, S) <= Cardinality(S)
<1> DEFINE Good == {T \in SUBSET S : SumFunctionOnSet(g, T) <= Cardinality(T)}
<1>1. {} \in Good
  BY SumEmpty, FS_EmptySet
<1>2. ASSUME NEW T \in SUBSET S, NEW x \in S \ T, T \in Good PROVE T \cup {x} \in Good
  <2>1. IsFiniteSet(T)
    BY FS_Subset
  <2>2. SumFunctionOnSet(g, T \cup {x}) = SumFunctionOnSet(g, T) + g[x]
    BY <2>1, SumWith
  <2>3. Cardinality(T \cup {x}) = Cardinality(T) + 1 /\ Cardinality(T) \in Nat
    BY <2>1, FS_AddElement, FS_CardinalityType
  <2>4. SumFunctionOnSet(g, T) \in Int /\ g[x] \in Int /\ g[x] <= 1
    BY <2>1, SumType
  <2> QED
    BY <1>2, <2>2, <2>3, <2>4
<1>3. \A T \in SUBSET S : T \in Good
  <2> HIDE DEF Good
  <2> QED
    BY <1>1, <1>2, SetInduction
<1> QED
  BY <1>3

(* Every term c makes it just that.                                        *)
LEMMA SumConstant ==
  ASSUME NEW S, IsFiniteSet(S), NEW c \in Int, NEW g, \A x \in S : g[x] = c
  PROVE  SumFunctionOnSet(g, S) = Cardinality(S) * c
<1> DEFINE Good == {T \in SUBSET S : SumFunctionOnSet(g, T) = Cardinality(T) * c}
<1>1. {} \in Good
  BY SumEmpty, FS_EmptySet
<1>2. ASSUME NEW T \in SUBSET S, NEW x \in S \ T, T \in Good PROVE T \cup {x} \in Good
  <2>1. IsFiniteSet(T)
    BY FS_Subset
  <2>2. SumFunctionOnSet(g, T \cup {x}) = SumFunctionOnSet(g, T) + g[x]
    BY <2>1, SumWith
  <2>3. Cardinality(T \cup {x}) = Cardinality(T) + 1 /\ Cardinality(T) \in Nat
    BY <2>1, FS_AddElement, FS_CardinalityType
  <2>4. \A n \in Nat : (n + 1) * c = n * c + c
    OBVIOUS
  <2> QED
    BY <1>2, <2>2, <2>3, <2>4
<1>3. \A T \in SUBSET S : T \in Good
  <2> HIDE DEF Good
  <2> QED
    BY <1>1, <1>2, SetInduction
<1> QED
  BY <1>3

(* Sums of disjoint sets add up.                                           *)
LEMMA SumUnion ==
  ASSUME NEW S, IsFiniteSet(S), NEW U, IsFiniteSet(U), S \cap U = {},
         NEW g, \A x \in S \cup U : g[x] \in Int
  PROVE  SumFunctionOnSet(g, S \cup U) = SumFunctionOnSet(g, S) + SumFunctionOnSet(g, U)
<1> DEFINE Sum(T) == SumFunctionOnSet(g, T)
           Good == {T \in SUBSET U : Sum(S \cup T) = Sum(S) + Sum(T)}
<1>1. Sum(S) \in Int
  BY SumType
<1>2. {} \in Good
  <2>1. S \cup {} = S
    OBVIOUS
  <2> QED
    BY <1>1, <2>1, SumEmpty
<1>3. ASSUME NEW T \in SUBSET U, NEW x \in U \ T, T \in Good PROVE T \cup {x} \in Good
  <2>1. IsFiniteSet(T) /\ IsFiniteSet(S \cup T) /\ x \notin S \cup T
    <3>1. IsFiniteSet(T)
      BY FS_Subset
    <3> QED
      BY <3>1, FS_Union
  <2>2. Sum(T \cup {x}) = Sum(T) + g[x]
    BY <2>1, SumWith
  <2>3. Sum((S \cup T) \cup {x}) = Sum(S \cup T) + g[x]
    BY <2>1, SumWith
  <2>4. (S \cup T) \cup {x} = S \cup (T \cup {x})
    OBVIOUS
  <2>5. Sum(T) \in Int /\ g[x] \in Int
    BY <2>1, SumType
  <2>6. Sum(S \cup T) = Sum(S) + Sum(T)
    BY <1>3
  <2>7. Sum(S \cup (T \cup {x})) = Sum(S) + Sum(T \cup {x})
    <3> HIDE DEF Sum
    <3>1. Sum(S \cup (T \cup {x})) = Sum(S \cup T) + g[x]
      BY <2>3, <2>4, Zenon
    <3> QED
      BY <1>1, <2>2, <2>5, <2>6, <3>1
  <2> HIDE DEF Sum
  <2> QED
    BY <2>7
<1>4. \A T \in SUBSET U : T \in Good
  <2> HIDE DEF Good
  <2> QED
    BY <1>2, <1>3, SetInduction
<1> QED
  BY <1>4

(* Without negative terms a part is not more than the whole.               *)
LEMMA SumNat ==
  ASSUME NEW S, IsFiniteSet(S), NEW g, \A x \in S : g[x] \in Nat
  PROVE  SumFunctionOnSet(g, S) \in Nat
<1> DEFINE Good == {T \in SUBSET S : SumFunctionOnSet(g, T) \in Nat}
<1>1. {} \in Good
  BY SumEmpty
<1>2. ASSUME NEW T \in SUBSET S, NEW x \in S \ T, T \in Good PROVE T \cup {x} \in Good
  <2>1. IsFiniteSet(T)
    BY FS_Subset
  <2>0. \A y \in S : g[y] \in Int
    OBVIOUS
  <2>2. SumFunctionOnSet(g, T \cup {x}) = SumFunctionOnSet(g, T) + g[x]
    BY <2>0, <2>1, SumWith
  <2>3. g[x] \in Nat
    OBVIOUS
  <2> QED
    BY <1>2, <2>2, <2>3
<1>3. \A T \in SUBSET S : T \in Good
  <2> HIDE DEF Good
  <2> QED
    BY <1>1, <1>2, SetInduction
<1> QED
  BY <1>3

(* ... nor less than any of its parts.                                    *)
LEMMA SumPart ==
  ASSUME NEW S, IsFiniteSet(S), NEW U \in SUBSET S, NEW g, \A x \in S : g[x] \in Nat
  PROVE  SumFunctionOnSet(g, U) <= SumFunctionOnSet(g, S)
<1>1. IsFiniteSet(U) /\ IsFiniteSet(S \ U) /\ U \cap (S \ U) = {} /\ U \cup (S \ U) = S
  BY FS_Subset
<1>2. SumFunctionOnSet(g, U) \in Nat /\ SumFunctionOnSet(g, S \ U) \in Nat
  BY <1>1, SumNat
<1>3. SumFunctionOnSet(g, S) = SumFunctionOnSet(g, U) + SumFunctionOnSet(g, S \ U)
  BY <1>1, SumUnion
<1> QED
  BY <1>2, <1>3

(* ... nor less than one of its terms.                                    *)
LEMMA SumMember ==
  ASSUME NEW S, IsFiniteSet(S), NEW g, \A x \in S : g[x] \in Nat, NEW x \in S
  PROVE  g[x] <= SumFunctionOnSet(g, S)
<1>1. IsFiniteSet(S \ {x})
  BY FS_RemoveElement
<1>2. SumFunctionOnSet(g, S \ {x}) \in Nat
  BY <1>1, SumNat
<1>3. SumFunctionOnSet(g, S) = g[x] + SumFunctionOnSet(g, S \ {x})
  BY SumWithout
<1> QED
  BY <1>2, <1>3

-----------------------------------------------------------------------------
(***************************************************************************)
(* Powers of two, products and quotients.                                 *)
(***************************************************************************)

(* Induction over the numbers, for sets of numbers.                       *)
LEMMA UpwardInduction ==
  ASSUME NEW Good, 0 \in Good, \A n \in Nat : n \in Good => n + 1 \in Good
  PROVE  \A n \in Nat : n \in Good
<1> DEFINE Bad == {n \in Nat : n \notin Good}
<1> SUFFICES ASSUME NEW b \in Nat, b \notin Good PROVE FALSE
  OBVIOUS
<1>1. PICK m \in Bad : \A y \in Bad : m <= y
  <2>1. Bad \in SUBSET Nat /\ Bad # {}
    OBVIOUS
  <2> HIDE DEF Bad
  <2> QED
    BY <2>1, SmallestNat
<1>2. m \in Nat /\ m # 0 /\ m - 1 \in Nat /\ ~(m <= m - 1)
  OBVIOUS
<1>3. m - 1 \in Good
  BY <1>1, <1>2
<1>4. m - 1 + 1 = m
  BY <1>2
<1>5. m \in Good
  BY <1>2, <1>3, <1>4
<1> QED
  BY <1>1, <1>5

(* A sequence of values without an end, each made from the one before it.   *)
Grows(f, base, step) == f[0] = base /\ \A n \in Nat : f[n + 1] = step[n][f[n]]

(* A recursion over the numbers defines a function.                       *)
LEMMA NatRecursion ==
  ASSUME NEW T, NEW base \in T, NEW step \in [Nat -> [T -> T]]
  PROVE  \E f \in [Nat -> T] : Grows(f, base, step)
<1> DEFINE up(n) == [k \in 1 .. n |-> step[k - 1]]
           Is(f, n) == f \in [0 .. n -> T] /\ Climbs(f, n, base, up(n))
           part(n) == CHOOSE f : Is(f, n)
           joined == [n \in Nat |-> part(n)[n]]
<1>1. ASSUME NEW n \in Nat PROVE Is(part(n), n)
  <2>1. up(n) \in [1 .. n -> [T -> T]]
    OBVIOUS
  <2> HIDE DEF up
  <2>2. \E f \in [0 .. n -> T] : Climbs(f, n, base, up(n))
    BY <2>1, ForwardRecursion
  <2> QED
    BY <2>2
<1>2. ASSUME NEW n \in Nat, NEW f, Is(f, n)
      PROVE  /\ f \in [0 .. n -> T] /\ f[0] = base
             /\ \A k \in 0 .. n : k + 1 <= n => f[k + 1] = step[k][f[k]]
  <2>1. f \in [0 .. n -> T] /\ f[0] = base /\ \A k \in 1 .. n : f[k] = up(n)[k][f[k - 1]]
    BY <1>2 DEF Climbs
  <2>2. ASSUME NEW k \in 0 .. n, k + 1 <= n PROVE f[k + 1] = step[k][f[k]]
    <3>1. k + 1 \in 1 .. n /\ k + 1 - 1 = k
      BY <2>2
    <3>2. f[k + 1] = up(n)[k + 1][f[k]]
      BY <2>1, <3>1
    <3> QED
      BY <3>1, <3>2
  <2> QED
    BY <2>1, <2>2
<1> HIDE DEF Is, part
<1>3. ASSUME NEW n \in Nat PROVE part(n + 1)[n] = part(n)[n]
  <2> DEFINE f == part(n)
             g == part(n + 1)
             Good == {k \in Nat : k <= n => f[k] = g[k]}
  <2>1. f \in [0 .. n -> T] /\ f[0] = base
        /\ \A k \in 0 .. n : k + 1 <= n => f[k + 1] = step[k][f[k]]
    BY <1>1, <1>2
  <2>2. g \in [0 .. n + 1 -> T] /\ g[0] = base
        /\ \A k \in 0 .. n + 1 : k + 1 <= n + 1 => g[k + 1] = step[k][g[k]]
    <3>1. n + 1 \in Nat
      OBVIOUS
    <3> QED
      BY <1>1, <1>2, <3>1
  <2> HIDE DEF f, g
  <2>3. 0 \in Good
    BY <2>1, <2>2
  <2>4. \A k \in Nat : k \in Good => k + 1 \in Good
    BY <2>1, <2>2
  <2> HIDE DEF Good
  <2>5. \A k \in Nat : k \in Good
    BY <2>3, <2>4, UpwardInduction
  <2>6. f[n] = g[n]
    BY <2>5 DEF Good
  <2> QED
    BY <2>6 DEF f, g
<1>4. ASSUME NEW n \in Nat PROVE joined[n + 1] = step[n][joined[n]]
  <2>1. n + 1 \in Nat /\ n \in 0 .. n + 1
    OBVIOUS
  <2>2. part(n + 1)[n + 1] = step[n][part(n + 1)[n]]
    <3>1. Is(part(n + 1), n + 1)
      BY <1>1, <2>1
    <3>2. n + 1 <= n + 1
      OBVIOUS
    <3> QED
      BY <1>2, <2>1, <3>1, <3>2
  <2> QED
    BY <1>3, <2>1, <2>2
<1>5. joined \in [Nat -> T]
  <2>1. \A n \in Nat : part(n)[n] \in T
    <3>1. \A n \in Nat : n \in 0 .. n
      OBVIOUS
    <3> QED
      BY <1>1, <1>2, <3>1
  <2> QED
    BY <2>1
<1>6. joined[0] = base
  <2>1. 0 \in Nat /\ part(0)[0] = base
    BY <1>1, <1>2
  <2> QED
    BY <2>1
<1> HIDE DEF joined
<1> QED
  BY <1>4, <1>5, <1>6 DEF Grows

(* 1 << n doubles with each n.                                             *)
LEMMA Pow2Is ==
  /\ Pow2 \in [Nat -> Nat \ {0}]
  /\ Pow2[0] = 1
  /\ \A n \in Nat : Pow2[n + 1] = 2 * Pow2[n]
<1> DEFINE T == Nat \ {0}
           Is(f) == f = [n \in Nat |-> IF n = 0 THEN 1 ELSE 2 * f[n - 1]]
           double == [x \in T |-> 2 * x]
           step == [n \in Nat |-> double]
<1>1. PICK f \in [Nat -> T] : f[0] = 1 /\ \A n \in Nat : f[n + 1] = step[n][f[n]]
  <2>1. double \in [T -> T] /\ 1 \in T
    OBVIOUS
  <2> HIDE DEF double, T
  <2>2. step \in [Nat -> [T -> T]]
    BY <2>1
  <2> HIDE DEF step
  <2>3. \E f \in [Nat -> T] : Grows(f, 1, step)
    BY <2>1, <2>2, NatRecursion
  <2> QED
    BY <2>3 DEF Grows
<1>2. \A n \in Nat : f[n + 1] = 2 * f[n]
  BY <1>1
<1>3. \A n \in Nat : n # 0 => f[n] = 2 * f[n - 1]
  <2>1. \A n \in Nat : n # 0 => n - 1 \in Nat /\ n - 1 + 1 = n
    OBVIOUS
  <2> QED
    BY <1>2, <2>1
<1>4. Is(f)
  BY <1>1, <1>3
<1>5. Is(Pow2)
  <2>1. Pow2 = CHOOSE g : Is(g)
    BY DEF Pow2
  <2> HIDE DEF Is
  <2> QED
    BY <1>4, <2>1
<1>6. DOMAIN Pow2 = Nat /\ \A n \in Nat : Pow2[n] = IF n = 0 THEN 1 ELSE 2 * Pow2[n - 1]
  <2> DEFINE P == Pow2
  <2> HIDE DEF P
  <2>1. Is(P)
    BY <1>5 DEF P
  <2>2. DOMAIN P = Nat /\ \A n \in Nat : P[n] = IF n = 0 THEN 1 ELSE 2 * P[n - 1]
    BY <2>1
  <2> QED
    BY <2>2 DEF P
<1>7. Pow2 = [n \in Nat |-> Pow2[n]]
  <2> DEFINE P == Pow2
  <2> HIDE DEF P
  <2>1. Is(P)
    BY <1>5 DEF P
  <2>2. P = [n \in Nat |-> P[n]]
    BY <2>1
  <2> QED
    BY <2>2 DEF P
<1>8. Pow2[0] = 1 /\ \A n \in Nat : Pow2[n + 1] = 2 * Pow2[n]
  <2>1. \A n \in Nat : n + 1 \in Nat /\ n + 1 # 0 /\ n + 1 - 1 = n
    OBVIOUS
  <2> QED
    BY <1>6, <2>1
<1>9. \A n \in Nat : Pow2[n] \in Nat \ {0}
  <2> DEFINE Good == {n \in Nat : Pow2[n] \in Nat \ {0}}
  <2>1. 0 \in Good /\ \A n \in Nat : n \in Good => n + 1 \in Good
    BY <1>8
  <2> HIDE DEF Good
  <2>2. \A n \in Nat : n \in Good
    BY <2>1, UpwardInduction
  <2> QED
    BY <2>2 DEF Good
<1> QED
  BY <1>7, <1>8, <1>9

(* Powers of two are positive.                                            *)
LEMMA Pow2Type == \A n \in Nat : Pow2[n] \in Nat \ {0} /\ Pow2[n] \in Nat
      /\ Pow2[n] \in Int /\ Pow2[n] >= 1
<1>1. \A n \in Nat : Pow2[n] \in Nat \ {0}
  BY Pow2Is
<1>2. \A x \in Nat \ {0} : x \in Nat /\ x \in Int /\ x >= 1
  OBVIOUS
<1> QED
  BY <1>1, <1>2

(* What the provers have to be told of products.                          *)
LEMMA Product ==
  /\ \A a, b \in Nat : a * b \in Nat /\ a * b = b * a
  /\ \A a, b \in Int : a * b \in Int /\ a * b = b * a
  /\ \A a, b, c \in Nat : a * (b * c) = (a * b) * c
  /\ \A a, b \in Nat \ {0} : a * b \in Nat \ {0}
  /\ \A a, b, c \in Nat : a <= b => a * c <= b * c
  /\ \A a, b, c \in Nat : (a + b) * c = a * c + b * c
OBVIOUS

(* 1 << (a + b) is (1 << a) << b.                                         *)
LEMMA Pow2Add == \A a, b \in Nat : Pow2[a + b] = Pow2[a] * Pow2[b]
<1> SUFFICES ASSUME NEW a \in Nat PROVE \A b \in Nat : Pow2[a + b] = Pow2[a] * Pow2[b]
  OBVIOUS
<1> DEFINE Good == {b \in Nat : Pow2[a + b] = Pow2[a] * Pow2[b]}
<1>1. 0 \in Good
  <2>1. Pow2[a] \in Nat /\ a + 0 = a /\ Pow2[0] = 1
    BY Pow2Is, Pow2Type
  <2>2. \A x \in Nat : x = x * 1
    OBVIOUS
  <2> QED
    BY <2>1, <2>2
<1>2. ASSUME NEW b \in Nat, b \in Good PROVE b + 1 \in Good
  <2>1. Pow2[a] \in Nat /\ Pow2[b] \in Nat
    BY Pow2Type
  <2>2. a + b \in Nat /\ a + (b + 1) = (a + b) + 1
    OBVIOUS
  <2>3. Pow2[a + (b + 1)] = 2 * Pow2[a + b] /\ Pow2[b + 1] = 2 * Pow2[b]
    BY <2>2, Pow2Is
  <2>4. \A x, y \in Nat : 2 * (x * y) = x * (2 * y)
    OBVIOUS
  <2> QED
    BY <1>2, <2>1, <2>3, <2>4
<1> HIDE DEF Good
<1>3. \A b \in Nat : b \in Good
  BY <1>1, <1>2, UpwardInduction
<1> QED
  BY <1>3 DEF Good

LEMMA Pow2Split ==
  ASSUME NEW b \in Nat, NEW a \in 0 .. b
  PROVE  Pow2[b] = Pow2[a] * Pow2[b - a] /\ Pow2[b] = Pow2[b - a] * Pow2[a]
<1>1. a \in Nat /\ b - a \in Nat /\ a + (b - a) = b /\ (b - a) + a = b
  OBVIOUS
<1>2. Pow2[a + (b - a)] = Pow2[a] * Pow2[b - a]
  BY <1>1, Pow2Add
<1>3. Pow2[(b - a) + a] = Pow2[b - a] * Pow2[a]
  BY <1>1, Pow2Add
<1> QED
  BY <1>1, <1>2, <1>3

LEMMA Pow2Order ==
  /\ \A b \in Nat : \A a \in 0 .. b : Pow2[a] <= Pow2[b]
  /\ \A b \in Nat : \A a \in 0 .. b - 1 : 2 * Pow2[a] <= Pow2[b]
<1>1. ASSUME NEW b \in Nat, NEW a \in 0 .. b PROVE Pow2[a] <= Pow2[b]
  <2>1. b - a \in Nat /\ a \in Nat
    OBVIOUS
  <2>2. Pow2[b] = Pow2[a] * Pow2[b - a]
    BY Pow2Split
  <2>3. Pow2[a] \in Nat /\ Pow2[b - a] \in Nat /\ Pow2[b - a] >= 1
    BY <2>1, Pow2Type
  <2>4. \A x, y \in Nat : y >= 1 => x <= x * y
    OBVIOUS
  <2> QED
    BY <2>2, <2>3, <2>4
<1>2. ASSUME NEW b \in Nat, NEW a \in 0 .. b - 1 PROVE 2 * Pow2[a] <= Pow2[b]
  <2>1. a + 1 \in 0 .. b /\ a \in Nat
    OBVIOUS
  <2> QED
    BY <1>1, <2>1, Pow2Is
<1> QED
  BY <1>1, <1>2

(* Division by d, and what it says of n.                                   *)
LEMMA Division ==
  ASSUME NEW n \in Nat, NEW d \in Nat \ {0}
  PROVE  n \div d \in Nat /\ n % d \in 0 .. d - 1 /\ n % d \in Nat
           /\ n = (n \div d) * d + (n % d)
OBVIOUS

(* Quotient and remainder are the only numbers of that kind.              *)
LEMMA DivisionIs ==
  ASSUME NEW n \in Nat, NEW d \in Nat \ {0}, NEW q \in Nat, NEW r \in 0 .. d - 1, n = q * d + r
  PROVE  n \div d = q /\ n % d = r
BY Quotient, Remainder

(* A quotient is below m exactly if the number is below m * d.            *)
LEMMA QuotientBounds ==
  ASSUME NEW n \in Nat, NEW d \in Nat \ {0}, NEW m \in Nat
  PROVE  /\ n < m * d => n \div d < m
         /\ n >= m * d => n \div d >= m
<1> DEFINE q == n \div d
           r == n % d
<1>1. q \in Nat /\ r \in 0 .. d - 1 /\ n = q * d + r
  BY Division
<1> HIDE DEF q, r
<1>2. CASE q >= m
  <2>1. q * d >= m * d
    BY <1>1, <1>2, Product
  <2>2. q * d \in Nat /\ m * d \in Nat
    BY <1>1, Product
  <2> QED
    BY <1>1, <1>2, <2>1, <2>2 DEF q
<1>3. CASE q < m
  <2>1. (q + 1) * d <= m * d /\ (q + 1) * d = q * d + d
    <3>1. q + 1 \in Nat /\ q + 1 <= m /\ d \in Nat
      BY <1>1, <1>3
    <3>2. (q + 1) * d = q * d + 1 * d /\ 1 * d = d
      BY <1>1, <3>1, Product
    <3> QED
      BY <3>1, <3>2, Product
  <2>2. q * d \in Nat /\ m * d \in Nat
    BY <1>1, Product
  <2> QED
    BY <1>1, <1>3, <2>1, <2>2 DEF q
<1> QED
  BY <1>1, <1>2, <1>3

(* Dividing by a and then by b.                                            *)
LEMMA DivisionTwice ==
  ASSUME NEW v \in Nat, NEW a \in Nat \ {0}, NEW b \in Nat \ {0}
  PROVE  /\ v \div (a * b) = (v \div a) \div b
         /\ v % (a * b) = (((v \div a) % b) * a) + (v % a)
<1> DEFINE q == v \div a
           r == v % a
           p == q \div b
           s == q % b
<1>1. q \in Nat /\ r \in 0 .. a - 1 /\ v = q * a + r
  BY Division
<1> HIDE DEF q, r
<1>2. p \in Nat /\ s \in 0 .. b - 1 /\ q = p * b + s
  BY <1>1, Division
<1> HIDE DEF p, s
<1>3. a * b \in Nat \ {0}
  OBVIOUS
<1>4. s * a + r \in 0 .. a * b - 1
  <2>1. s \in Nat /\ a \in Nat /\ b \in Nat /\ s + 1 \in Nat /\ s + 1 <= b
    BY <1>2
  <2>2. (s + 1) * a <= b * a /\ (s + 1) * a = s * a + a /\ b * a = a * b
        /\ s * a \in Nat /\ b * a \in Nat
    <3>1. (s + 1) * a = s * a + 1 * a /\ 1 * a = a
      BY <2>1, Product
    <3> QED
      BY <2>1, <3>1, Product
  <2> QED
    BY <1>1, <2>2
<1>5. v = p * (a * b) + (s * a + r)
  <2>1. q * a = (p * b) * a + s * a /\ (p * b) * a = p * (a * b) /\ p * b \in Nat
    <3>1. p * b \in Nat /\ s \in Nat /\ a \in Nat /\ b \in Nat
      BY <1>2
    <3>2. (p * b + s) * a = (p * b) * a + s * a
      BY <3>1, Product
    <3>3. \A x, y, z \in Nat : (x * y) * z = x * (z * y)
      OBVIOUS
    <3> QED
      BY <1>2, <3>1, <3>2, <3>3
  <2>2. p * (a * b) \in Nat /\ s * a \in Nat
    BY <1>2
  <2>3. q * a = p * (a * b) + s * a
    BY <2>1
  <2>4. \A x, y, z \in Nat : (x + y) + z = x + (y + z)
    OBVIOUS
  <2>5. v = (p * (a * b) + s * a) + r /\ r \in Nat
    BY <1>1, <2>3
  <2> QED
    BY <2>2, <2>4, <2>5
<1>6. v \div (a * b) = p /\ v % (a * b) = s * a + r
  BY <1>2, <1>3, <1>4, <1>5, DivisionIs
<1> QED
  BY <1>6 DEF p, q, r, s

-----------------------------------------------------------------------------
(***************************************************************************)
(* Numbers as strings of bits.                                            *)
(***************************************************************************)

Bit == {0, 1}

(* The part of a number that its first k bits make up.                     *)
Weights(b) == [i \in DOMAIN b |-> b[i] * Pow2[i - 1]]
Low(b, k) == SumFunctionOnSet(Weights(b), 1 .. k)

LEMMA NatInInt == \A n \in Nat : n \in Int
OBVIOUS

LEMMA IntervalIsFinite == \A m, n \in Int : IsFiniteSet(m .. n)
BY FS_Interval

(* The value of a string of bits, bit by bit.                             *)
LEMMA LowIs ==
  ASSUME NEW n \in Nat, NEW b \in [1 .. n -> Bit]
  PROVE  /\ Value(b) = Low(b, n)
         /\ Low(b, 0) = 0
         /\ \A k \in 0 .. n - 1 : Low(b, k + 1) = Low(b, k) + b[k + 1] * Pow2[k]
         /\ \A k \in 0 .. n : Low(b, k) \in Int
<1> DEFINE g == Weights(b)
<1>1. DOMAIN g = 1 .. n /\ \A i \in 1 .. n : g[i] = b[i] * Pow2[i - 1]
  BY DEF Weights
<1>2. \A i \in 1 .. n : g[i] \in Int
  <2>1. \A i \in 1 .. n : b[i] \in Int /\ i - 1 \in Nat
    BY DEF Bit
  <2>2. \A i \in 1 .. n : b[i] \in Int /\ Pow2[i - 1] \in Int
    BY <2>1, Pow2Type
  <2>3. \A x, y \in Int : x * y \in Int
    OBVIOUS
  <2> HIDE DEF g
  <2> QED
    BY <1>1, <2>2, <2>3
<1>3. Value(b) = Low(b, n)
  <2>1. [i \in DOMAIN b |-> b[i] * Pow2[i - 1]] = g
    BY DEF Weights
  <2>2. Value(b) = SumFunction(g)
    BY <2>1 DEF Value
  <2> HIDE DEF g
  <2>3. SumFunction(g) = SumFunctionOnSet(g, 1 .. n)
    BY <1>1 DEF SumFunction, SumFunctionOnSet, FoldFunction
  <2> QED
    BY <2>2, <2>3 DEF Low, g
<1>4. Low(b, 0) = 0
  <2>1. 1 .. 0 = {}
    OBVIOUS
  <2> QED
    BY <2>1, SumEmpty DEF Low
<1> HIDE DEF g
<1>5. ASSUME NEW k \in 0 .. n - 1 PROVE Low(b, k + 1) = Low(b, k) + b[k + 1] * Pow2[k]
  <2>1. 1 .. k + 1 = (1 .. k) \cup {k + 1} /\ k + 1 \notin 1 .. k /\ k + 1 \in 1 .. n
        /\ k + 1 - 1 = k
    OBVIOUS
  <2>2. IsFiniteSet(1 .. k)
    BY IntervalIsFinite
  <2>3. \A y \in (1 .. k) \cup {k + 1} : g[y] \in Int
    BY <1>2, <2>1
  <2>4. SumFunctionOnSet(g, (1 .. k) \cup {k + 1}) = SumFunctionOnSet(g, 1 .. k) + g[k + 1]
    BY <2>1, <2>2, <2>3, SumWith
  <2>5. g[k + 1] = b[k + 1] * Pow2[k]
    BY <1>1, <2>1
  <2> QED
    BY <2>1, <2>4, <2>5 DEF Low, g
<1>6. ASSUME NEW k \in 0 .. n PROVE Low(b, k) \in Int
  <2>1. IsFiniteSet(1 .. k)
    BY IntervalIsFinite
  <2>2. \A y \in 1 .. k : g[y] \in Int
    BY <1>2
  <2> QED
    BY <2>1, <2>2, SumType DEF Low, g
<1> QED
  BY <1>3, <1>4, <1>5, <1>6

(* k bits make a number below 1 << k.                                     *)
LEMMA LowRange ==
  ASSUME NEW n \in Nat, NEW b \in [1 .. n -> Bit]
  PROVE  \A k \in 0 .. n : Low(b, k) \in 0 .. Pow2[k] - 1 /\ Low(b, k) \in Nat
<1> DEFINE Good == {k \in Nat : k <= n => Low(b, k) \in 0 .. Pow2[k] - 1}
<1>1. 0 \in Good
  <2>1. Low(b, 0) = 0 /\ Pow2[0] = 1
    BY LowIs, Pow2Is
  <2> QED
    BY <2>1
<1>2. ASSUME NEW k \in Nat, k \in Good PROVE k + 1 \in Good
  <2>1. CASE k + 1 <= n
    <3>1. k \in 0 .. n - 1 /\ k \in 0 .. n /\ k + 1 \in 1 .. n /\ k <= n
      BY <2>1
    <3>2. Low(b, k + 1) = Low(b, k) + b[k + 1] * Pow2[k]
      BY <3>1, LowIs
    <3>3. b[k + 1] = 0 \/ b[k + 1] = 1
      BY <3>1 DEF Bit
    <3>4. Pow2[k] \in Nat /\ Pow2[k + 1] = 2 * Pow2[k]
      BY Pow2Type, Pow2Is
    <3>5. Low(b, k) \in 0 .. Pow2[k] - 1
      BY <1>2, <3>1
    <3>6. b[k + 1] * Pow2[k] \in {0, Pow2[k]}
      BY <3>3, <3>4
    <3> QED
      BY <3>2, <3>4, <3>5, <3>6
  <2> QED
    BY <2>1
<1> HIDE DEF Good
<1>3. \A k \in Nat : k \in Good
  BY <1>1, <1>2, UpwardInduction
<1>4. ASSUME NEW k \in 0 .. n PROVE Low(b, k) \in 0 .. Pow2[k] - 1 /\ Low(b, k) \in Nat
  <2>1. k \in Nat /\ k <= n /\ Pow2[k] \in Nat
    BY Pow2Type
  <2> QED
    BY <1>3, <2>1 DEF Good
<1> QED
  BY <1>4

(* A remainder by a power of two is what the lowest bits make up.         *)
LEMMA LowOfValue ==
  ASSUME NEW n \in Nat, NEW b \in [1 .. n -> Bit], NEW k \in 0 .. n
  PROVE  Value(b) % Pow2[k] = Low(b, k)
<1> DEFINE Good == {j \in Nat : k + j <= n =>
      \E h \in Nat : Low(b, k + j) = h * Pow2[k] + Low(b, k)}
<1>0. k \in Nat /\ Pow2[k] \in Nat /\ Pow2[k] \in Nat \ {0} /\ Low(b, k) \in Nat
      /\ Low(b, k) \in 0 .. Pow2[k] - 1
  BY Pow2Type, LowRange
<1>1. 0 \in Good
  <2>1. Low(b, k + 0) = 0 * Pow2[k] + Low(b, k)
    BY <1>0
  <2> QED
    BY <2>1
<1>2. ASSUME NEW j \in Nat, j \in Good PROVE j + 1 \in Good
  <2>1. CASE k + (j + 1) <= n
    <3>1. k + j \in 0 .. n - 1 /\ k + j \in 0 .. n /\ k + j + 1 \in 1 .. n
          /\ k + j <= n /\ k + (j + 1) = k + j + 1
      BY <1>0, <2>1
    <3>2. Low(b, k + j + 1) = Low(b, k + j) + b[k + j + 1] * Pow2[k + j]
      BY <3>1, LowIs
    <3>3. PICK h \in Nat : Low(b, k + j) = h * Pow2[k] + Low(b, k)
      BY <1>2, <3>1
    <3>4. Pow2[k + j] = Pow2[k] * Pow2[j] /\ Pow2[j] \in Nat
      BY <1>0, Pow2Add, Pow2Type
    <3>5. b[k + j + 1] \in Nat
      BY <3>1 DEF Bit
    <3> DEFINE m == h + b[k + j + 1] * Pow2[j]
    <3>6. m \in Nat /\ m * Pow2[k] = h * Pow2[k] + b[k + j + 1] * (Pow2[k] * Pow2[j])
      <4> DEFINE x == b[k + j + 1]
                 y == Pow2[j]
                 z == Pow2[k]
      <4>1. x \in Nat /\ y \in Nat /\ z \in Nat
        BY <1>0, <3>4, <3>5
      <4> HIDE DEF x, y, z
      <4>2. h + x * y \in Nat /\ (h + x * y) * z = h * z + x * (z * y)
        BY <4>1
      <4> QED
        BY <4>2 DEF x, y, z
    <3> HIDE DEF m
    <3>7. \A x, y, z \in Int : (x + y) + z = (x + z) + y
      OBVIOUS
    <3>8. h * Pow2[k] \in Int /\ b[k + j + 1] * (Pow2[k] * Pow2[j]) \in Int
      BY <1>0, <3>4, <3>5
    <3>9. Low(b, k + j + 1) = m * Pow2[k] + Low(b, k)
      BY <1>0, <3>2, <3>3, <3>4, <3>6, <3>7, <3>8
    <3> QED
      BY <3>1, <3>6, <3>9
  <2> QED
    BY <2>1
<1> HIDE DEF Good
<1>3. \A j \in Nat : j \in Good
  BY <1>1, <1>2, UpwardInduction
<1>4. n - k \in Nat /\ k + (n - k) = n /\ k + (n - k) <= n
  BY <1>0
<1>5. PICK h \in Nat : Low(b, n) = h * Pow2[k] + Low(b, k)
  BY <1>3, <1>4 DEF Good
<1>6. Low(b, n) \in Nat
  BY LowRange
<1>7. Low(b, n) % Pow2[k] = Low(b, k)
  BY <1>0, <1>5, <1>6, DivisionIs
<1> QED
  BY <1>7, LowIs

(* The remainder by a power of two drops the bits from there on.           *)
LEMMA NextRemainder ==
  ASSUME NEW v \in Nat, NEW k \in Nat
  PROVE  /\ v % Pow2[k + 1] = (((v \div Pow2[k]) % 2) * Pow2[k]) + (v % Pow2[k])
         /\ (v \div Pow2[k]) % 2 \in Bit
         /\ v % Pow2[k] \in Nat
<1>1. Pow2[k] \in Nat \ {0} /\ 2 \in Nat \ {0} /\ Pow2[k + 1] = 2 * Pow2[k]
      /\ 2 * Pow2[k] = Pow2[k] * 2
  BY Pow2Type, Pow2Is
<1>2. v \div Pow2[k] \in Nat /\ v % Pow2[k] \in Nat
  BY <1>1, Division
<1>3. (v \div Pow2[k]) % 2 \in 0 .. 2 - 1
  BY <1>2, <1>1, Division
<1>4. \A x \in 0 .. 2 - 1 : x \in Bit
  BY DEF Bit
<1>5. v % (Pow2[k] * 2) = (((v \div Pow2[k]) % 2) * Pow2[k]) + (v % Pow2[k])
  BY <1>1, DivisionTwice, Zenon
<1> QED
  BY <1>1, <1>2, <1>3, <1>4, <1>5, Zenon

(* write_bits writes bits, as many as it was asked to.                    *)
LEMMA BitsType ==
  ASSUME NEW v \in Nat, NEW n \in Nat
  PROVE  /\ Bits(v, n) \in [1 .. n -> Bit]
         /\ \A i \in 1 .. n : Bits(v, n)[i] = (v \div Pow2[i - 1]) % 2
         /\ Bits(v, n) \in Seq(Bit) /\ Len(Bits(v, n)) = n
<1>1. \A i \in 1 .. n : (v \div Pow2[i - 1]) % 2 \in Bit
  <2>1. \A i \in 1 .. n : i - 1 \in Nat
    OBVIOUS
  <2> QED
    BY <2>1, NextRemainder
<1>2. /\ Bits(v, n) \in [1 .. n -> Bit]
      /\ \A i \in 1 .. n : Bits(v, n)[i] = (v \div Pow2[i - 1]) % 2
  BY <1>1 DEF Bits
<1> QED
  BY <1>2

(* n bits are read as a number below 1 << n.                              *)
LEMMA ValueRange ==
  ASSUME NEW n \in Nat, NEW b \in [1 .. n -> Bit]
  PROVE  Value(b) \in Nat /\ Value(b) < Pow2[n] /\ Value(b) \in 0 .. Pow2[n] - 1
<1>1. n \in 0 .. n
  OBVIOUS
<1>2. Value(b) \in 0 .. Pow2[n] - 1 /\ Value(b) \in Nat
  BY <1>1, LowIs, LowRange
<1>3. Pow2[n] \in Nat
  BY Pow2Type
<1> QED
  BY <1>2, <1>3

(* The number that the first n bits of v make up.                          *)
LEMMA ValueOfBits ==
  ASSUME NEW v \in Nat, NEW n \in Nat
  PROVE  Value(Bits(v, n)) = v % Pow2[n]
<1> DEFINE b == Bits(v, n)
           Good == {k \in Nat : k <= n => Low(b, k) = v % Pow2[k]}
<1>1. b \in [1 .. n -> Bit] /\ \A i \in 1 .. n : b[i] = (v \div Pow2[i - 1]) % 2
  BY BitsType
<1> HIDE DEF b
<1>2. 0 \in Good
  <2>1. v % 1 = 0
    OBVIOUS
  <2>2. Low(b, 0) = 0 /\ Pow2[0] = 1
    BY <1>1, LowIs, Pow2Is
  <2> QED
    BY <2>1, <2>2
<1>3. ASSUME NEW k \in Nat, k \in Good PROVE k + 1 \in Good
  <2>1. CASE k + 1 <= n
    <3>1. k \in 0 .. n - 1 /\ k + 1 \in 1 .. n /\ k <= n /\ k + 1 - 1 = k
      BY <2>1
    <3>2. Low(b, k + 1) = Low(b, k) + b[k + 1] * Pow2[k]
      BY <1>1, <3>1, LowIs
    <3>3. b[k + 1] = (v \div Pow2[k]) % 2
      BY <1>1, <3>1
    <3>4. Low(b, k) = v % Pow2[k]
      BY <1>3, <3>1
    <3>5. v % Pow2[k + 1] = (((v \div Pow2[k]) % 2) * Pow2[k]) + (v % Pow2[k])
      BY NextRemainder
    <3>6. v % Pow2[k] \in Int /\ b[k + 1] * Pow2[k] \in Int
      <4>1. v % Pow2[k] \in Nat /\ b[k + 1] \in Nat
        <5>1. \A x \in Bit : x \in Nat
          BY DEF Bit
        <5> QED
          BY <3>3, <5>1, NextRemainder, Zenon
      <4>2. v % Pow2[k] \in Int
        BY <4>1, Zenon, NatInInt
      <4> QED
        BY <4>1, <4>2, NatInInt, Pow2Type, Product, Zenon
    <3>7. v % Pow2[k + 1] = b[k + 1] * Pow2[k] + (v % Pow2[k])
      BY <3>3, <3>5, Zenon
    <3>8. \A x, y \in Int : x + y = y + x
      OBVIOUS
    <3>9. Low(b, k + 1) = v % Pow2[k + 1]
      BY <3>2, <3>4, <3>6, <3>7, <3>8, Zenon
    <3> QED
      BY <3>9
  <2> QED
    BY <2>1
<1> HIDE DEF Good
<1>4. \A k \in Nat : k \in Good
  BY <1>2, <1>3, UpwardInduction
<1>5. Low(b, n) = v % Pow2[n]
  BY <1>4 DEF Good
<1> QED
  BY <1>1, <1>5, LowIs DEF b

(* A number that fits is read as it was written.                          *)
LEMMA BitsOfNumber ==
  ASSUME NEW n \in Nat, NEW v \in 0 .. Pow2[n] - 1
  PROVE  Value(Bits(v, n)) = v /\ v \in Nat
<1>1. Pow2[n] \in Nat
  BY Pow2Type
<1>2. v \in Nat /\ v % Pow2[n] = v
  BY <1>1
<1> QED
  BY <1>2, ValueOfBits

(* Bits are written as they were read.                                    *)
LEMMA BitsOfValue ==
  ASSUME NEW n \in Nat, NEW b \in [1 .. n -> Bit]
  PROVE  Bits(Value(b), n) = b
<1> DEFINE v == Value(b)
<1>1. v \in Nat
  BY ValueRange
<1>2. ASSUME NEW i \in 1 .. n PROVE (v \div Pow2[i - 1]) % 2 = b[i]
  <2> DEFINE k == i - 1
  <2>1. k \in Nat /\ k \in 0 .. n - 1 /\ k \in 0 .. n /\ k + 1 \in 0 .. n /\ k + 1 = i
    OBVIOUS
  <2> HIDE DEF k
  <2>2. v % Pow2[k] = Low(b, k) /\ v % Pow2[k + 1] = Low(b, k + 1)
    BY <2>1, LowOfValue
  <2>3. Low(b, k + 1) = Low(b, k) + b[k + 1] * Pow2[k]
    BY <2>1, LowIs
  <2> HIDE DEF v
  <2>4. /\ v % Pow2[k + 1] = (((v \div Pow2[k]) % 2) * Pow2[k]) + (v % Pow2[k])
        /\ (v \div Pow2[k]) % 2 \in Bit
        /\ v % Pow2[k] \in Nat
    BY <1>1, <2>1, NextRemainder
  <2>5. b[k + 1] \in Bit /\ Pow2[k] \in Nat \ {0}
    BY <2>1, Pow2Type
  <2>6. \A x, y \in Bit : \A p \in Nat \ {0} : \A l \in Nat : (x * p) + l = l + y * p => x = y
    BY DEF Bit
  <2>7. (v \div Pow2[k]) % 2 = b[k + 1]
    <3>1. (((v \div Pow2[k]) % 2) * Pow2[k]) + (v % Pow2[k]) = (v % Pow2[k])
          + b[k + 1] * Pow2[k]
      BY <2>2, <2>3, <2>4, Zenon
    <3> QED
      BY <2>4, <2>5, <2>6, <3>1, Zenon
  <2> QED
    BY <2>1, <2>7 DEF k, v
<1>3. Bits(v, n) \in [1 .. n -> Bit] /\ \A i \in 1 .. n : Bits(v, n)[i] = b[i]
  <2> HIDE DEF v
  <2>1. Bits(v, n) \in [1 .. n -> Bit]
        /\ \A i \in 1 .. n : Bits(v, n)[i] = (v \div Pow2[i - 1]) % 2
    BY <1>1, BitsType
  <2> QED
    BY <1>2, <2>1
<1> HIDE DEF v
<1>4. Bits(v, n) = b
  BY <1>3
<1> QED
  BY <1>4 DEF v

(* Numbers with the same bits are the same.                               *)
LEMMA SameBits ==
  ASSUME NEW n \in Nat, NEW v \in 0 .. Pow2[n] - 1, NEW w \in 0 .. Pow2[n] - 1,
         \A i \in 1 .. n : Bits(v, n)[i] = Bits(w, n)[i]
  PROVE  v = w
<1>1. v \in Nat /\ w \in Nat /\ Value(Bits(v, n)) = v /\ Value(Bits(w, n)) = w
  BY BitsOfNumber
<1>2. Bits(v, n) \in [1 .. n -> Bit] /\ Bits(w, n) \in [1 .. n -> Bit]
  BY <1>1, BitsType
<1>3. Bits(v, n) = Bits(w, n)
  BY <1>2
<1> QED
  BY <1>1, <1>3

(* The lowest m bits are those of the remainder.                          *)
LEMMA LowBits ==
  ASSUME NEW v \in Nat, NEW n \in Nat, NEW m \in 0 .. n, NEW i \in 1 .. m
  PROVE  Bits(v % Pow2[m], m)[i] = Bits(v, n)[i]
<1>1. m \in Nat /\ i \in 1 .. n
  OBVIOUS
<1>2. Bits(v, m) \in [1 .. m -> Bit] /\ Value(Bits(v, m)) = v % Pow2[m]
  BY <1>1, BitsType, ValueOfBits
<1>3. Bits(v % Pow2[m], m) = Bits(v, m)
  BY <1>1, <1>2, BitsOfValue
<1>4. Bits(v, m)[i] = Bits(v, n)[i]
  BY <1>1, BitsType
<1> QED
  BY <1>3, <1>4

(* The other ones are those of the quotient.                              *)
LEMMA HighBits ==
  ASSUME NEW v \in Nat, NEW n \in Nat, NEW k \in Nat, NEW i \in 1 .. n
  PROVE  Bits(v \div Pow2[k], n)[i] = Bits(v, n + k)[k + i]
<1>1. i - 1 \in Nat /\ k + i \in 1 .. n + k /\ k + i - 1 = k + (i - 1) /\ n + k \in Nat
  OBVIOUS
<1>2. Pow2[k] \in Nat \ {0} /\ Pow2[i - 1] \in Nat \ {0}
  BY <1>1, Pow2Type
<1>3. v \div Pow2[k] \in Nat
  BY <1>2, Division
<1>4. Pow2[k + (i - 1)] = Pow2[k] * Pow2[i - 1]
  BY <1>1, Pow2Add
<1>5. v \div (Pow2[k] * Pow2[i - 1]) = (v \div Pow2[k]) \div Pow2[i - 1]
  BY <1>2, DivisionTwice
<1>6. Bits(v \div Pow2[k], n)[i] = ((v \div Pow2[k]) \div Pow2[i - 1]) % 2
  BY <1>3, BitsType
<1>7. Bits(v, n + k)[k + i] = (v \div Pow2[k + (i - 1)]) % 2
  BY <1>1, BitsType
<1> QED
  BY <1>4, <1>5, <1>6, <1>7, Zenon

-----------------------------------------------------------------------------
(***************************************************************************)
(* ANS: the states of a filled table and the steps between them.          *)
(***************************************************************************)

(* In a finite set in which R is a strict total order, something has each  *)
(* rank.                                                                   *)
StrictOrder(R, W) ==
  /\ \A t \in W : <<t, t>> \notin R
  /\ \A t, u \in W : t # u => <<t, u>> \in R \/ <<u, t>> \in R
  /\ \A t, u, v \in W : <<t, u>> \in R /\ <<u, v>> \in R => <<t, v>> \in R

Lower(t, R, W) == {u \in W : <<u, t>> \in R}

LEMMA RankOnto ==
  ASSUME NEW W, IsFiniteSet(W), NEW R, StrictOrder(R, W)
  PROVE  \A r \in 1 .. Cardinality(W) :
           \E t \in W : Cardinality(Lower(t, R, W)) + 1 = r
<1> USE DEF Lower
<1> DEFINE n == Cardinality(W)
           Below(t) == {u \in W : <<u, t>> \in R}
           rank == [t \in W |-> Cardinality(Below(t)) + 1]
<1>1. n \in Nat
  BY FS_CardinalityType
<1>2. \A t \in W : Below(t) \in SUBSET (W \ {t})
  BY DEF StrictOrder
<1>3. ASSUME NEW t \in W PROVE IsFiniteSet(Below(t)) /\ Cardinality(Below(t)) \in 0 .. n - 1
  <2>1. IsFiniteSet(W \ {t}) /\ Cardinality(W \ {t}) = n - 1
    BY FS_RemoveElement
  <2> HIDE DEF Below
  <2>2. IsFiniteSet(Below(t)) /\ Cardinality(Below(t)) <= n - 1
    BY <1>2, <2>1, FS_Subset
  <2>3. Cardinality(Below(t)) \in Nat
    BY <2>2, FS_CardinalityType
  <2> QED
    BY <1>1, <2>2, <2>3
<1>4. rank \in [W -> 1 .. n]
  <2> HIDE DEF Below
  <2> QED
    BY <1>1, <1>3
<1>5. ASSUME NEW t \in W, NEW u \in W, <<t, u>> \in R PROVE rank[t] # rank[u]
  <2>1. Below(t) \in SUBSET Below(u)
    BY <1>5 DEF StrictOrder
  <2>2. Below(t) # Below(u)
    BY <1>5 DEF StrictOrder
  <2> HIDE DEF Below
  <2>3. Cardinality(Below(t)) # Cardinality(Below(u))
    BY <1>3, <2>1, <2>2, FS_Subset
  <2>4. Cardinality(Below(t)) \in Int /\ Cardinality(Below(u)) \in Int
    BY <1>3
  <2> QED
    BY <2>3, <2>4
<1> HIDE DEF rank
<1>6. \A t, u \in W : rank[t] = rank[u] => t = u
  BY <1>5 DEF StrictOrder
<1>7. rank \in Injection(W, 1 .. n)
  BY <1>4, <1>6 DEF Injection, IsInjective
<1>8. IsFiniteSet(1 .. n) /\ Cardinality(1 .. n) = n
  <2>1. 1 \in Int /\ n \in Int /\ (1 > n => n = 0) /\ n - 1 + 1 = n
    BY <1>1
  <2> QED
    BY <2>1, FS_Interval
<1>9. rank \in Surjection(W, 1 .. n)
  BY <1>7, <1>8, FS_Injection
<1> QED
  BY <1>9 DEF Surjection, rank


(* Something is the first of those that are the most.                      *)
LEMMA MostExists ==
  ASSUME NEW S \in SUBSET Int, IsFiniteSet(S), S # {}, NEW g, \A x \in S : g[x] \in Int
  PROVE  \E s \in S : \A r \in S : g[s] > g[r] \/ (g[s] = g[r] /\ s <= r)
<1> DEFINE Most(s, T) == \A r \in T : g[s] > g[r] \/ (g[s] = g[r] /\ s <= r)
           Good == {T \in SUBSET S : T = {} \/ \E s \in T : Most(s, T)}
<1>1. {} \in Good
  OBVIOUS
<1>2. ASSUME NEW T \in SUBSET S, NEW x \in S \ T, T \in Good PROVE T \cup {x} \in Good
  <2>0. g[x] \in Int /\ x \in Int /\ \A r \in T : g[r] \in Int /\ r \in Int
    OBVIOUS
  <2>1. CASE T = {}
    <3>1. Most(x, T \cup {x})
      BY <2>0, <2>1
    <3> QED
      BY <3>1
  <2>2. CASE T # {}
    <3>1. PICK s \in T : Most(s, T)
      BY <1>2, <2>2
    <3>2. CASE g[x] > g[s] \/ (g[x] = g[s] /\ x <= s)
      <4>1. Most(x, T \cup {x})
        BY <2>0, <3>1, <3>2
      <4> QED
        BY <4>1
    <3>3. CASE ~(g[x] > g[s] \/ (g[x] = g[s] /\ x <= s))
      <4>1. g[s] > g[x] \/ (g[s] = g[x] /\ s <= x)
        BY <2>0, <3>3
      <4>2. Most(s, T \cup {x})
        BY <3>1, <4>1
      <4> QED
        BY <4>2
    <3> QED
      BY <3>2, <3>3
  <2> QED
    BY <2>1, <2>2
<1> HIDE DEF Good
<1>3. \A T \in SUBSET S : T \in Good
  BY <1>1, <1>2, SetInduction
<1>4. S \in SUBSET S
  OBVIOUS
<1>5. S \in Good
  BY <1>3, <1>4
<1> QED
  BY <1>5 DEF Good

-----------------------------------------------------------------------------
(* The sizes of the table, of the alphabet and of the state.              *)
LEMMA TableFacts ==
  /\ TableLog \in Nat /\ TableSize = Pow2[TableLog]
  /\ TableSize \in Nat \ {0} /\ TableSize \in Nat /\ TableSize \in Int /\ TableSize >= 1
  /\ Pow2[TableLog + 1] = 2 * TableSize
  /\ AlphabetSize \in Nat \ {0} /\ AlphabetSize <= TableSize
  /\ AnsSymbols = 0 .. AlphabetSize - 1 /\ Symbols = AnsSymbols
  /\ Free \notin Symbols /\ Eob \in Symbols
  /\ States = TableSize .. 2 * TableSize - 1
  /\ StateBits \in Nat /\ ByteBits \in Nat \ {0} /\ 2 * TableSize <= Pow2[StateBits]
<1>1. TableLog \in Nat /\ AlphabetSize \in Nat \ {0} /\ AlphabetSize <= Pow2[TableLog]
  BY AnsAssumption
<1>2. TableSize = Pow2[TableLog] /\ States = TableSize .. 2 * TableSize - 1
      /\ AnsSymbols = 0 .. AlphabetSize - 1 /\ Free = AlphabetSize
  BY DEF TableSize, States, AnsSymbols, Free
<1>3. Pow2[TableLog] \in Nat \ {0} /\ Pow2[TableLog] \in Nat /\ Pow2[TableLog] \in Int
      /\ Pow2[TableLog] >= 1
  BY <1>1, Pow2Type
<1>4. Pow2[TableLog + 1] = 2 * Pow2[TableLog]
  BY <1>1, Pow2Is
<1>5. Symbols = AnsSymbols /\ Eob \in Symbols
  BY EntropyAssumption DEF Symbols, AnsSymbols
<1>6. Free \notin Symbols
  BY <1>1, <1>2, <1>5
<1>7. StateBits \in Nat /\ ByteBits \in Nat \ {0} /\ TableLog \in 0 .. StateBits - 1
  BY <1>1, EntropyAssumption
<1>8. 2 * Pow2[TableLog] <= Pow2[StateBits]
  BY <1>7, Pow2Order
<1> QED
  BY <1>1, <1>2, <1>3, <1>4, <1>5, <1>6, <1>7, <1>8

(* floor_log2 finds a power of two for every frequency.                   *)
LEMMA FloorLog2Is ==
  ASSUME NEW n \in 1 .. 2 * TableSize - 1
  PROVE  /\ FloorLog2(n) \in 0 .. TableLog
         /\ Pow2[FloorLog2(n)] <= n /\ n < Pow2[FloorLog2(n) + 1]
<1> DEFINE Above == {k \in Nat : n < Pow2[k + 1]}
           Is(k) == Pow2[k] <= n /\ n < Pow2[k + 1]
<1>1. n \in Nat /\ n >= 1 /\ n < 2 * TableSize
  BY TableFacts
<1>2. TableLog \in Above
  BY <1>1, TableFacts
<1>3. PICK m \in Above : \A k \in Above : m <= k
  <2>1. Above \in SUBSET Nat /\ Above # {}
    BY <1>2
  <2> HIDE DEF Above
  <2> QED
    BY <2>1, SmallestNat
<1>4. m \in Nat /\ m <= TableLog /\ m \in 0 .. TableLog
  BY <1>2, <1>3, TableFacts
<1>5. Pow2[m] <= n
  <2>1. CASE m = 0
    BY <1>1, <2>1, Pow2Is
  <2>2. CASE m # 0
    <3>1. m - 1 \in Nat /\ m - 1 + 1 = m /\ ~(m <= m - 1)
      BY <1>4, <2>2
    <3>2. ~(n < Pow2[m])
      BY <1>3, <3>1
    <3>3. Pow2[m] \in Nat
      BY <1>4, Pow2Type
    <3> QED
      BY <1>1, <3>2, <3>3
  <2> QED
    BY <2>1, <2>2
<1>6. Is(m)
  BY <1>3, <1>5
<1>7. FloorLog2(n) = CHOOSE k \in 0 .. TableLog : Is(k)
  BY DEF FloorLog2
<1> HIDE DEF Is
<1>8. FloorLog2(n) \in 0 .. TableLog /\ Is(FloorLog2(n))
  BY <1>4, <1>6, <1>7
<1> QED
  BY <1>8 DEF Is

(* There is only one.                                                     *)
LEMMA FloorLog2Once ==
  ASSUME NEW n \in Nat, NEW k \in Nat, NEW l \in Nat,
         Pow2[k] <= n, n < Pow2[k + 1], Pow2[l] <= n, n < Pow2[l + 1]
  PROVE  k = l
<1>1. ASSUME NEW i \in Nat, NEW j \in Nat, i < j, n < Pow2[i + 1], Pow2[j] <= n PROVE FALSE
  <2>1. i + 1 \in 0 .. j /\ i + 1 \in Nat
    BY <1>1
  <2>2. Pow2[i + 1] <= Pow2[j] /\ Pow2[i + 1] \in Nat /\ Pow2[j] \in Nat
    BY <2>1, Pow2Order, Pow2Type
  <2> QED
    BY <1>1, <2>2
<1> QED
  BY <1>1

(* Before a symbol with f slots goes into the state, the state is brought  *)
(* between f and 2f by leaving out its last bits.                          *)
LEMMA EncodeBitsIs ==
  ASSUME NEW freqs, NEW s, freqs[s] \in 1 .. TableSize, NEW x \in States
  PROVE  /\ EncodeBits(freqs, s, x) \in 0 .. TableLog
         /\ x \div Pow2[EncodeBits(freqs, s, x)] \in freqs[s] .. 2 * freqs[s] - 1
<1> DEFINE f == freqs[s]
           k == FloorLog2(f)
           L == TableLog
           n == EncodeBits(freqs, s, x)
<1> HIDE DEF f
<1>1. f \in Nat /\ f >= 1 /\ f <= TableSize /\ x \in Nat /\ x >= TableSize /\ x < 2 * TableSize
  BY TableFacts DEF f
<1>2. k \in 0 .. L /\ Pow2[k] <= f /\ f < Pow2[k + 1]
  <2>1. f \in 1 .. 2 * TableSize - 1
    BY <1>1, TableFacts
  <2> QED
    BY <2>1, FloorLog2Is
<1>3. n = IF x >= f * Pow2[L - k] THEN L - k ELSE L - k - 1
  BY DEF EncodeBits, f
<1> HIDE DEF k, n
<1>4. L \in Nat /\ k \in Nat /\ L - k \in Nat /\ k + 1 \in Nat
  BY <1>2, TableFacts
<1>5. Pow2[L - k] \in Nat \ {0} /\ Pow2[k] \in Nat /\ Pow2[k + 1] \in Nat
  BY <1>4, Pow2Type
<1>6. TableSize = Pow2[k] * Pow2[L - k] /\ 2 * TableSize = Pow2[k + 1] * Pow2[L - k]
  <2>1. TableSize = Pow2[k] * Pow2[L - k]
    BY <1>2, <1>4, TableFacts, Pow2Split
  <2>2. Pow2[k + 1] = 2 * Pow2[k]
    BY <1>4, Pow2Is
  <2>3. \A a, b \in Nat : 2 * (a * b) = (2 * a) * b
    OBVIOUS
  <2> QED
    BY <1>5, <2>1, <2>2, <2>3
<1>7. CASE x >= f * Pow2[L - k]
  <2>1. n = L - k
    BY <1>3, <1>7
  <2>2. x < (2 * f) * Pow2[L - k]
    <3>1. (2 * f) * Pow2[L - k] >= (2 * Pow2[k]) * Pow2[L - k]
      <4>1. 2 * Pow2[k] <= 2 * f /\ 2 * Pow2[k] \in Nat /\ 2 * f \in Nat
        BY <1>1, <1>2, <1>5
      <4> QED
        BY <1>5, <4>1, Product
    <3>2. Pow2[k + 1] = 2 * Pow2[k]
      BY <1>4, Pow2Is
    <3>3. (2 * f) * Pow2[L - k] \in Nat
      BY <1>1, <1>5
    <3> QED
      BY <1>1, <1>6, <3>1, <3>2, <3>3
  <2>3. x \div Pow2[L - k] >= f /\ x \div Pow2[L - k] < 2 * f /\ x \div Pow2[L - k] \in Nat
    <3>1. 2 * f \in Nat
      BY <1>1
    <3> QED
      BY <1>1, <1>5, <1>7, <2>2, <3>1, QuotientBounds, Division
  <2>4. L - k \in 0 .. L
    BY <1>4
  <2> QED
    BY <1>1, <2>1, <2>3, <2>4 DEF f, n
<1>8. CASE x < f * Pow2[L - k]
  <2>0. f * Pow2[L - k] \in Nat
    BY <1>1, <1>5
  <2>1. n = L - k - 1
    BY <1>1, <1>3, <1>8, <2>0
  <2>2. k # L
    <3>1. ASSUME k = L PROVE FALSE
      <4>1. L - k = 0 /\ Pow2[0] = 1
        BY <1>4, <3>1, Pow2Is
      <4>2. f * Pow2[L - k] = f
        BY <1>1, <4>1
      <4> QED
        BY <1>1, <1>8, <4>2, TableFacts
    <3> QED
      BY <3>1
  <2>3. L - k - 1 \in Nat /\ L - k - 1 + 1 = L - k /\ L - k - 1 \in 0 .. L
    BY <1>2, <1>4, <2>2
  <2> DEFINE h == Pow2[L - k - 1]
  <2>4. h \in Nat \ {0} /\ Pow2[L - k] = 2 * h
    BY <2>3, Pow2Type, Pow2Is
  <2> HIDE DEF h
  <2>5. x < (2 * f) * h
    <3>1. f * (2 * h) = (2 * f) * h
      BY <1>1, <2>4
    <3> QED
      BY <1>8, <2>4, <3>1
  <2>6. x >= f * h
    <3>1. TableSize = Pow2[k + 1] * h
      <4>1. Pow2[k + 1] = 2 * Pow2[k]
        BY <1>4, Pow2Is
      <4>2. Pow2[k] * (2 * h) = (2 * Pow2[k]) * h
        BY <1>5, <2>4
      <4> QED
        BY <1>6, <2>4, <4>1, <4>2
    <3>2. f * h <= Pow2[k + 1] * h
      <4>1. f <= Pow2[k + 1] /\ h \in Nat
        BY <1>1, <1>2, <1>5, <2>4
      <4> QED
        BY <1>1, <1>5, <4>1, Product
    <3>3. f * h \in Nat
      BY <1>1, <2>4
    <3> QED
      BY <1>1, <3>1, <3>2, <3>3, TableFacts
  <2>7. x \div h >= f /\ x \div h < 2 * f /\ x \div h \in Nat
    <3>1. 2 * f \in Nat
      BY <1>1
    <3> QED
      BY <1>1, <2>4, <2>5, <2>6, <3>1, QuotientBounds, Division
  <2> QED
    BY <1>1, <2>1, <2>3, <2>7 DEF f, n, h
<1>9. f * Pow2[L - k] \in Nat
  BY <1>1, <1>5
<1> QED
  BY <1>1, <1>7, <1>8, <1>9

(* A state is the number of a slot behind TableSize.                      *)
LEMMA InStates ==
  /\ \A x \in Int : x \in States <=> TableSize <= x /\ x < 2 * TableSize
  /\ \A i \in 0 .. TableSize - 1 : TableSize + i \in States /\ TableSize + i - TableSize = i
  /\ \A x \in States : x \in Nat /\ x - TableSize \in 0 .. TableSize - 1
<1> DEFINE T == TableSize
<1>1. T \in Nat /\ States = T .. 2 * T - 1
  BY TableFacts
<1> HIDE DEF T
<1>2. /\ \A x \in Int : x \in States <=> T <= x /\ x < 2 * T
      /\ \A i \in 0 .. T - 1 : T + i \in States /\ T + i - T = i
      /\ \A x \in States : x \in Nat /\ x - T \in 0 .. T - 1
  BY <1>1
<1> QED
  BY <1>2 DEF T

(* A table that is full: each symbol has as many slots as its frequency.   *)
SlotsOf(sl, s) == {i \in 0 .. TableSize - 1 : sl[i] = s}

(* A table in which every symbol has as many slots as its frequency       *)
(* says.                                                                  *)
Filled(sl, freqs) ==
  /\ sl \in [0 .. TableSize - 1 -> Symbols] /\ freqs \in [Symbols -> 0 .. TableSize]
  /\ \A s \in Symbols : Cardinality(SlotsOf(sl, s)) = freqs[s]

LEMMA SlotsAreFinite ==
  ASSUME NEW sl, NEW s
  PROVE  IsFiniteSet(SlotsOf(sl, s)) /\ Cardinality(SlotsOf(sl, s)) \in Nat
<1>1. IsFiniteSet(0 .. TableSize - 1) /\ SlotsOf(sl, s) \in SUBSET (0 .. TableSize - 1)
  BY TableFacts, IntervalIsFinite DEF SlotsOf
<1> QED
  BY <1>1, FS_Subset, FS_CardinalityType

(* A slot is one of as many as its symbol has.                            *)
LEMMA OccurrenceIs ==
  ASSUME NEW sl, NEW freqs, Filled(sl, freqs), NEW i \in 0 .. TableSize - 1
  PROVE  Occurrence(sl, i) \in 0 .. freqs[sl[i]] - 1
<1> DEFINE W == SlotsOf(sl, sl[i])
           V == {k \in 0 .. i - 1 : sl[k] = sl[i]}
<1>1. sl[i] \in Symbols /\ Cardinality(W) = freqs[sl[i]]
  BY DEF Filled
<1>2. i \in W /\ V \in SUBSET (W \ {i})
  BY TableFacts DEF SlotsOf
<1>3. IsFiniteSet(W) /\ Cardinality(W) \in Nat
  BY SlotsAreFinite
<1> HIDE DEF W
<1>4. IsFiniteSet(W \ {i}) /\ Cardinality(W \ {i}) = Cardinality(W) - 1
  BY <1>2, <1>3, FS_RemoveElement
<1>5. IsFiniteSet(V) /\ Cardinality(V) <= Cardinality(W \ {i}) /\ Cardinality(V) \in Nat
  BY <1>2, <1>4, FS_Subset, FS_CardinalityType
<1>6. Occurrence(sl, i) = Cardinality(V)
  BY DEF Occurrence
<1> HIDE DEF V
<1> QED
  BY <1>1, <1>3, <1>4, <1>5, <1>6

(* From every entry of a filled table the decoder reaches a state,        *)
(* whatever bits it reads.                                                *)
LEMMA DecodeEntryIs ==
  ASSUME NEW sl, NEW freqs, Filled(sl, freqs), NEW x \in States
  PROVE  LET e == DecodeEntry(sl, freqs, x) IN
         /\ e.symbol \in Symbols /\ e.bits \in 0 .. TableLog /\ e.base \in Nat
         /\ \A v \in 0 .. Pow2[e.bits] - 1 : e.base + v \in States
<1> DEFINE i == x - TableSize
           sub == freqs[sl[i]] + Occurrence(sl, i)
           k == FloorLog2(sub)
           n == TableLog - k
           e == DecodeEntry(sl, freqs, x)
<1>1. i \in 0 .. TableSize - 1
  BY TableFacts
<1>2. sl[i] \in Symbols /\ freqs[sl[i]] \in 0 .. TableSize
  BY <1>1 DEF Filled
<1>3. Occurrence(sl, i) \in 0 .. freqs[sl[i]] - 1
  BY <1>1, OccurrenceIs
<1>4. e.symbol = sl[i] /\ e.bits = n /\ e.base = sub * Pow2[n]
  BY DEF DecodeEntry
<1>5. sub \in 1 .. 2 * TableSize - 1 /\ sub \in Nat
  <2>1. \A f \in 0 .. TableSize : \A o \in 0 .. f - 1 :
          f + o \in 1 .. 2 * TableSize - 1 /\ f + o \in Nat
    <3> DEFINE T == TableSize
    <3>1. T \in Nat
      BY TableFacts
    <3> HIDE DEF T
    <3>2. \A f \in 0 .. T : \A o \in 0 .. f - 1 : f + o \in 1 .. 2 * T - 1 /\ f + o \in Nat
      BY <3>1
    <3> QED
      BY <3>2 DEF T
  <2> HIDE DEF i
  <2> QED
    BY <1>2, <1>3, <2>1
<1> HIDE DEF i, sub, e
<1>6. k \in 0 .. TableLog /\ Pow2[k] <= sub /\ sub < Pow2[k + 1]
  BY <1>5, FloorLog2Is
<1> HIDE DEF k
<1>7. n \in 0 .. TableLog /\ n \in Nat /\ k \in Nat
  BY <1>6, TableFacts
<1>8. Pow2[n] \in Nat \ {0} /\ Pow2[n] \in Nat /\ Pow2[k] \in Nat /\ Pow2[k + 1] = 2 * Pow2[k]
  BY <1>7, Pow2Type, Pow2Is
<1>9. TableSize = Pow2[k] * Pow2[n]
  BY <1>6, TableFacts, Pow2Split
<1> HIDE DEF n
<1>10. sub * Pow2[n] >= TableSize /\ sub * Pow2[n] \in Nat
  BY <1>5, <1>6, <1>8, <1>9, Product
<1>11. sub * Pow2[n] + Pow2[n] <= 2 * TableSize
  <2>1. (sub + 1) * Pow2[n] <= (2 * Pow2[k]) * Pow2[n]
    <3>1. sub + 1 <= 2 * Pow2[k] /\ sub + 1 \in Nat /\ 2 * Pow2[k] \in Nat
      BY <1>5, <1>6, <1>8
    <3> QED
      BY <1>8, <3>1, Product
  <2>2. (sub + 1) * Pow2[n] = sub * Pow2[n] + Pow2[n]
        /\ (2 * Pow2[k]) * Pow2[n] = 2 * (Pow2[k] * Pow2[n])
    BY <1>5, <1>8
  <2> QED
    BY <1>9, <2>1, <2>2
<1>12. ASSUME NEW v \in 0 .. Pow2[n] - 1 PROVE sub * Pow2[n] + v \in States
  <2>1. v \in Nat /\ v < Pow2[n]
    BY <1>8
  <2> DEFINE p == sub * Pow2[n]
  <2>2. p \in Nat /\ p >= TableSize /\ p + Pow2[n] <= 2 * TableSize
    BY <1>10, <1>11
  <2> HIDE DEF p
  <2>3. p + v \in States
    <3> DEFINE T == TableSize
               w == Pow2[n]
    <3>1. T \in Nat /\ w \in Nat /\ v \in Nat /\ v < w /\ p \in Nat /\ p >= T /\ p + w <= 2 * T
      BY <1>8, <2>1, <2>2, TableFacts
    <3> HIDE DEF T, w
    <3>2. p + v \in Int /\ T <= p + v /\ p + v < 2 * T
      BY <3>1
    <3> QED
      BY <3>2, InStates DEF T
  <2> QED
    BY <2>3 DEF p
<1>13. /\ e.symbol \in Symbols /\ e.bits \in 0 .. TableLog /\ e.base \in Nat
       /\ \A v \in 0 .. Pow2[e.bits] - 1 : e.base + v \in States
  BY <1>2, <1>4, <1>7, <1>10, <1>12
<1> QED
  BY <1>13 DEF e

(* Each of a symbol's slots is one that the encoder finds.                *)
LEMMA NextStateIs ==
  ASSUME NEW sl, NEW freqs, Filled(sl, freqs), NEW s \in Symbols, NEW j \in 0 .. freqs[s] - 1
  PROVE  LET x == NextState(sl, s, j) IN
         x \in States /\ sl[x - TableSize] = s /\ Occurrence(sl, x - TableSize) = j
<1> DEFINE own == SlotsOf(sl, s)
           less == {p \in own \X own : p[1] < p[2]}
           Is(i) == sl[i] = s /\ Occurrence(sl, i) = j
<1>1. IsFiniteSet(own) /\ Cardinality(own) = freqs[s] /\ freqs[s] \in Nat
  BY SlotsAreFinite, TableFacts DEF Filled
<1>2. own \in SUBSET (0 .. TableSize - 1) /\ \A i \in own : i \in Nat
  BY TableFacts DEF SlotsOf
<1>3. \A i \in own : sl[i] = s
  BY DEF SlotsOf
<1>4. \A t, u \in own : <<t, u>> \in less <=> t < u
  OBVIOUS
<1>5. StrictOrder(less, own)
  <2> HIDE DEF own, less
  <2> QED
    BY <1>2, <1>4 DEF StrictOrder
<1>6. j + 1 \in 1 .. Cardinality(own)
  BY <1>1
<1>7. PICK t \in own : Cardinality({u \in own : <<u, t>> \in less}) + 1 = j + 1
  <2> HIDE DEF own, less
  <2>1. \A r \in 1 .. Cardinality(own) : \E t \in own : Cardinality(Lower(t, less, own)) + 1 = r
    <3>1. IsFiniteSet(own) /\ StrictOrder(less, own)
      BY <1>1, <1>5
    <3> QED
      BY <3>1, RankOnto
  <2> QED
    BY <1>6, <2>1 DEF Lower
<1>8. {u \in own : <<u, t>> \in less} = {k \in 0 .. t - 1 : sl[k] = sl[t]}
  <2>1. ASSUME NEW u PROVE u \in own /\ u < t <=> u \in 0 .. t - 1 /\ sl[u] = sl[t]
    <3>1. t \in 0 .. TableSize - 1 /\ sl[t] = s /\ TableSize \in Nat
      BY <1>2, <1>3, TableFacts
    <3> QED
      BY <3>1 DEF SlotsOf
  <2>2. {u \in own : <<u, t>> \in less} = {u \in own : u < t}
    BY <1>4
  <2> HIDE DEF own, less
  <2> QED
    BY <2>1, <2>2
<1>9. IsFiniteSet({u \in own : <<u, t>> \in less})
  <2> HIDE DEF own, less
  <2> QED
    BY <1>1, FS_Subset
<1>10. Is(t) /\ t \in 0 .. TableSize - 1
  <2>1. Cardinality({k \in 0 .. t - 1 : sl[k] = sl[t]}) \in Nat
    BY <1>8, <1>9, FS_CardinalityType
  <2>2. Cardinality({k \in 0 .. t - 1 : sl[k] = sl[t]}) + 1 = j + 1
    BY <1>7, <1>8
  <2>3. \A a, b \in Nat : a + 1 = b + 1 => a = b
    OBVIOUS
  <2>4. j \in Nat
    BY <1>1
  <2>5. Occurrence(sl, t) = j
    BY <2>1, <2>2, <2>3, <2>4 DEF Occurrence
  <2> QED
    BY <1>2, <1>3, <2>5
<1> DEFINE i == CHOOSE k \in 0 .. TableSize - 1 : Is(k)
<1>11. NextState(sl, s, j) = TableSize + i
  BY DEF NextState
<1> HIDE DEF Is
<1>12. Is(i) /\ i \in 0 .. TableSize - 1
  BY <1>10
<1> HIDE DEF i
<1>13. TableSize + i \in States /\ TableSize + i - TableSize = i
  BY <1>12, InStates
<1>14. sl[i] = s /\ Occurrence(sl, i) = j
  BY <1>12 DEF Is
<1> DEFINE x == NextState(sl, s, j)
<1>15. x = TableSize + i
  BY <1>11
<1> HIDE DEF x
<1>16. x \in States /\ x - TableSize = i
  BY <1>12, <1>13, <1>15, TableFacts
<1>17. x \in States /\ sl[x - TableSize] = s /\ Occurrence(sl, x - TableSize) = j
  BY <1>14, <1>16
<1> QED
  BY <1>17 DEF x

(* What the decoder finds in the state that the encoder enters with s: s,  *)
(* and what the state was without the bits that were left out.             *)
LEMMA StepBack ==
  ASSUME NEW sl, NEW freqs, Filled(sl, freqs), NEW s \in Symbols, freqs[s] # 0, NEW x \in States
  PROVE  LET n == EncodeBits(freqs, s, x)
             y == NextState(sl, s, x \div Pow2[n] - freqs[s])
             e == DecodeEntry(sl, freqs, y)
         IN /\ n \in 0 .. TableLog /\ x \div Pow2[n] - freqs[s] \in 0 .. freqs[s] - 1
            /\ y \in States
            /\ e.symbol = s /\ e.bits = n
            /\ x % Pow2[n] \in 0 .. Pow2[n] - 1 /\ e.base + (x % Pow2[n]) = x
<1> DEFINE f == freqs[s]
           n == EncodeBits(freqs, s, x)
           sub == x \div Pow2[n]
           j == sub - f
           y == NextState(sl, s, j)
           e == DecodeEntry(sl, freqs, y)
<1>1. f \in 1 .. TableSize /\ f \in Nat
  <2>1. freqs[s] \in 0 .. TableSize
    BY DEF Filled
  <2> QED
    BY <2>1, TableFacts
<1>2. n \in 0 .. TableLog /\ sub \in f .. 2 * f - 1
  BY <1>1, EncodeBitsIs
<1>3. x \in Nat /\ x >= TableSize /\ x < 2 * TableSize
  BY TableFacts
<1> HIDE DEF n
<1>4. n \in Nat /\ TableLog - n \in Nat /\ Pow2[n] \in Nat \ {0}
      /\ TableLog - n + 1 + n = TableLog + 1
  BY <1>2, TableFacts, Pow2Type
<1>5. x = sub * Pow2[n] + (x % Pow2[n]) /\ x % Pow2[n] \in 0 .. Pow2[n] - 1 /\ sub \in Nat
  BY <1>3, <1>4, Division
<1> HIDE DEF sub, f
<1>6. j \in 0 .. f - 1
  BY <1>1, <1>2
<1>7. y \in States /\ sl[y - TableSize] = s /\ Occurrence(sl, y - TableSize) = j
  <2> HIDE DEF j
  <2> QED
    BY <1>6, NextStateIs DEF f
<1> DEFINE k == FloorLog2(sub)
<1>8. k = TableLog - n
  <2>1. sub \in 1 .. 2 * TableSize - 1
    BY <1>1, <1>2, TableFacts
  <2>2. k \in 0 .. TableLog /\ Pow2[k] <= sub /\ sub < Pow2[k + 1]
    BY <2>1, FloorLog2Is
  <2>3. Pow2[TableLog - n] <= sub
    <3>1. x >= Pow2[TableLog - n] * Pow2[n] /\ Pow2[TableLog - n] \in Nat
      BY <1>2, <1>3, <1>4, TableFacts, Pow2Split, Pow2Type
    <3> QED
      BY <1>3, <1>4, <3>1, QuotientBounds DEF sub
  <2>4. sub < Pow2[TableLog - n + 1]
    <3>1. TableLog - n + 1 \in Nat
      BY <1>4
    <3>2. x < Pow2[TableLog - n + 1] * Pow2[n] /\ Pow2[TableLog - n + 1] \in Nat
      BY <1>3, <1>4, <3>1, TableFacts, Pow2Add, Pow2Type
    <3> QED
      BY <1>3, <1>4, <3>2, QuotientBounds DEF sub
  <2> HIDE DEF k
  <2>5. k \in Nat /\ sub \in Nat
    BY <1>5, <2>2
  <2> QED
    BY <1>4, <2>2, <2>3, <2>4, <2>5, FloorLog2Once
<1>9. f + j = sub
  BY <1>1, <1>5
<1> HIDE DEF j, y, k
<1>10. e.symbol = s /\ e.bits = TableLog - FloorLog2(f + j)
       /\ e.base = (f + j) * Pow2[TableLog - FloorLog2(f + j)]
  BY <1>7 DEF DecodeEntry, f
<1>11. TableLog - FloorLog2(f + j) = n
  BY <1>4, <1>8, <1>9, TableFacts DEF k
<1>12. e.symbol = s /\ e.bits = n /\ e.base = sub * Pow2[n]
  BY <1>9, <1>10, <1>11
<1> HIDE DEF e
<1>13. e.base + (x % Pow2[n]) = x
  BY <1>5, <1>12
<1> QED
  BY <1>2, <1>5, <1>6, <1>7, <1>12, <1>13 DEF e, y, j, sub, n, f

-----------------------------------------------------------------------------
(***************************************************************************)
(* ANS: normalised frequencies and the order in which slots are given     *)
(* out.                                                                   *)
(***************************************************************************)

(* The alphabets of the two coders are one.                               *)
LEMMA SymbolsAre ==
  /\ IsFiniteSet(AnsSymbols) /\ Cardinality(AnsSymbols) = AlphabetSize
  /\ Symbols = AnsSymbols /\ AnsSymbols \in SUBSET Int
  /\ \A s \in AnsSymbols : s \in Nat /\ s < AlphabetSize
<1>1. AnsSymbols = 0 .. AlphabetSize - 1 /\ AlphabetSize \in Nat \ {0} /\ Symbols = AnsSymbols
  BY TableFacts
<1>2. 0 \in Int /\ AlphabetSize - 1 \in Int /\ ~(0 > AlphabetSize - 1)
      /\ AlphabetSize - 1 - 0 + 1 = AlphabetSize
  BY <1>1
<1>3. IsFiniteSet(0 .. AlphabetSize - 1)
      /\ Cardinality(0 .. AlphabetSize - 1) = AlphabetSize
  BY <1>2, FS_Interval
<1> QED
  BY <1>1, <1>3

(* A share of the table is at least one slot and at most all of them.      *)
LEMMA ShareIs ==
  ASSUME NEW total \in Nat, NEW count \in 1 .. total
  PROVE  Share(count, total) \in 1 .. TableSize
<1> DEFINE T == TableSize
           v == count * T + (total \div 2)
<1>1. T \in Nat /\ T >= 1 /\ total \in Nat \ {0} /\ count \in Nat
  BY TableFacts
<1> HIDE DEF T
<1>2. total \div 2 \in Nat /\ total \div 2 < total
  BY <1>1
<1>3. count * T <= total * T /\ count * T \in Nat /\ total * T \in Nat
      /\ (T + 1) * total = total * T + total
  BY <1>1, Product
<1>4. v \in Nat /\ v < (T + 1) * total
  BY <1>1, <1>2, <1>3
<1> HIDE DEF v
<1>5. v \div total \in Nat /\ v \div total < T + 1
  <2>1. T + 1 \in Nat
    BY <1>1
  <2> QED
    BY <1>1, <1>4, <2>1, Division, QuotientBounds
<1>6. Share(count, total) = IF v \div total = 0 THEN 1 ELSE v \div total
  BY DEF Share, v, T
<1>7. Share(count, total) \in 1 .. T
  BY <1>1, <1>5, <1>6
<1> QED
  BY <1>7 DEF T

(* Normalised frequencies, their total aside.                             *)
Frequencies == [Symbols -> 0 .. TableSize]

(* No symbol occurs more often than all.                                  *)
LEMMA TotalIs ==
  ASSUME NEW counts \in [Symbols -> Nat]
  PROVE  /\ Total(counts) \in Nat
         /\ \A s \in Symbols : counts[s] <= Total(counts)
<1>1. IsFiniteSet(AnsSymbols) /\ \A s \in AnsSymbols : counts[s] \in Nat
  BY SymbolsAre
<1>2. Total(counts) \in Nat
  BY <1>1, SumNat DEF Total
<1>3. \A s \in AnsSymbols : counts[s] <= Total(counts)
  BY <1>1, SumMember DEF Total
<1> QED
  BY <1>2, <1>3, SymbolsAre

LEMMA FrequenciesAreCounts == ASSUME NEW freqs \in Frequencies PROVE freqs \in [Symbols -> Nat]
BY TableFacts DEF Frequencies

(* Rounding gives slots to the symbols that occur and to no other.        *)
LEMMA RoundedIs ==
  ASSUME NEW counts \in [Symbols -> Nat]
  PROVE  Rounded(counts) \in Frequencies /\ Counted(Rounded(counts)) = Counted(counts)
<1>1. ASSUME NEW s \in Symbols
      PROVE  /\ Rounded(counts)[s] \in 0 .. TableSize
             /\ Rounded(counts)[s] > 0 <=> counts[s] > 0
  <2>1. s \in AnsSymbols
    BY SymbolsAre
  <2>2. Rounded(counts)[s] = IF counts[s] = 0 THEN 0
                             ELSE IF Counted(counts) = {s} THEN TableSize
                             ELSE Share(counts[s], Total(counts))
    BY <2>1 DEF Rounded
  <2>3. CASE counts[s] = 0
    BY <2>2, <2>3, TableFacts
  <2>4. CASE counts[s] # 0
    <3>1. counts[s] \in Nat /\ Total(counts) \in Nat /\ counts[s] <= Total(counts)
      BY TotalIs
    <3>2. counts[s] \in 1 .. Total(counts)
      BY <2>4, <3>1
    <3>3. Share(counts[s], Total(counts)) \in 1 .. TableSize
      BY <3>1, <3>2, ShareIs
    <3>4. Rounded(counts)[s] \in 1 .. TableSize
      BY <2>2, <2>4, <3>3, TableFacts
    <3> QED
      BY <2>4, <3>1, <3>4, TableFacts, SMTT(30)
  <2> QED
    BY <2>3, <2>4
<1>2. Rounded(counts) \in Frequencies
  <2>1. DOMAIN Rounded(counts) = Symbols
    BY SymbolsAre DEF Rounded
  <2>2. Rounded(counts) = [s \in Symbols |-> Rounded(counts)[s]]
    BY SymbolsAre DEF Rounded
  <2> QED
    BY <1>1, <2>2 DEF Frequencies
<1> QED
  BY <1>1, <1>2, SymbolsAre DEF Counted

(* The symbol that gives a slot back has another one, as the table has    *)
(* one for each.                                                          *)
LEMMA RichestIs ==
  ASSUME NEW freqs \in Frequencies, Total(freqs) > TableSize
  PROVE  Richest(freqs) \in Symbols /\ freqs[Richest(freqs)] >= 2
<1> DEFINE Is(s) == \A r \in AnsSymbols : freqs[s] > freqs[r] \/ (freqs[s] = freqs[r] /\ s <= r)
<1>1. IsFiniteSet(AnsSymbols) /\ AnsSymbols # {} /\ AnsSymbols \in SUBSET Int
      /\ Symbols = AnsSymbols
  BY SymbolsAre, TableFacts
<1>2. \A s \in AnsSymbols : freqs[s] \in Int /\ freqs[s] \in Nat
  BY <1>1, FrequenciesAreCounts
<1>3. \E s \in AnsSymbols : Is(s)
  BY <1>1, <1>2, MostExists
<1>4. Richest(freqs) = CHOOSE s \in AnsSymbols : Is(s)
  BY DEF Richest
<1>5. Richest(freqs) \in AnsSymbols /\ Is(Richest(freqs))
  <2> HIDE DEF Is
  <2> QED
    BY <1>3, <1>4
<1> DEFINE t == Richest(freqs)
<1>6. t \in AnsSymbols /\ \A r \in AnsSymbols : freqs[r] <= freqs[t]
  BY <1>2, <1>5
<1> HIDE DEF t, Is
<1>7. ASSUME freqs[t] <= 1 PROVE FALSE
  <2>1. \A r \in AnsSymbols : freqs[r] \in Int /\ freqs[r] <= 1
    BY <1>2, <1>6, <1>7
  <2>2. Total(freqs) <= AlphabetSize
    BY <1>1, <2>1, SumAtMost, SymbolsAre DEF Total
  <2>3. Total(freqs) \in Nat
    BY FrequenciesAreCounts, TotalIs
  <2> QED
    BY <2>2, <2>3, TableFacts
<1>8. freqs[t] >= 2
  BY <1>2, <1>6, <1>7
<1> QED
  BY <1>1, <1>6, <1>8 DEF t

(* The symbol that gets one more occurs.                                  *)
LEMMA NeediestIs ==
  ASSUME NEW counts \in [Symbols -> Nat], Counted(counts) # {}, NEW freqs \in Frequencies
  PROVE  Neediest(counts, freqs) \in Counted(counts)
<1> DEFINE short(s) == counts[s] * TableSize - freqs[s] * Total(counts)
           g == [s \in AnsSymbols |-> short(s)]
           Is(s) == \A r \in Counted(counts) : short(s) > short(r)
                 \/ (short(s) = short(r) /\ s <= r)
           C == Counted(counts)
<1>1. C \in SUBSET AnsSymbols /\ C \in SUBSET Int /\ IsFiniteSet(C)
  BY SymbolsAre, FS_Subset DEF Counted
<1>2. \A s \in C : g[s] \in Int
  <2>1. \A s \in C : counts[s] \in Int /\ freqs[s] \in Int /\ TableSize \in Int
        /\ Total(counts) \in Int
    <3>1. freqs \in [Symbols -> Nat] /\ C \in SUBSET Symbols
      BY <1>1, SymbolsAre, FrequenciesAreCounts
    <3>2. Total(counts) \in Int /\ TableSize \in Int
      BY TotalIs, TableFacts, NatInInt
    <3> HIDE DEF C
    <3> QED
      BY <3>1, <3>2
  <2>2. \A a, b, c, d \in Int : a * b - c * d \in Int
    OBVIOUS
  <2>3. \A s \in C : short(s) \in Int
    BY <2>1, <2>2
  <2> HIDE DEF short
  <2> QED
    BY <1>1, <2>3
<1>3. \E s \in C : Is(s)
  <2> HIDE DEF g
  <2>1. \E s \in C : \A r \in C : g[s] > g[r] \/ (g[s] = g[r] /\ s <= r)
    BY <1>1, <1>2, MostExists
  <2> HIDE DEF short, C
  <2>2. \A s \in C : g[s] = short(s)
    BY <1>1 DEF g
  <2> QED
    BY <2>1, <2>2 DEF C
<1>4. Neediest(counts, freqs) = CHOOSE s \in C : Is(s)
  BY DEF Neediest
<1> HIDE DEF Is
<1> QED
  BY <1>3, <1>4

-----------------------------------------------------------------------------
(* The slots of the symbols before s.                                      *)
Before(freqs, s) == SumFunctionOnSet(freqs, 0 .. s - 1)

(* Where a symbol's slots begin when they are given out in order.         *)
LEMMA BeforeIs ==
  ASSUME NEW freqs \in Frequencies
  PROVE  /\ Before(freqs, 0) = 0
         /\ Before(freqs, AlphabetSize) = Total(freqs)
         /\ \A s \in 0 .. AlphabetSize : Before(freqs, s) \in Nat
         /\ \A s \in Symbols : Before(freqs, s + 1) = Before(freqs, s) + freqs[s]
         /\ \A s \in 0 .. AlphabetSize : \A r \in 0 .. s : Before(freqs, r) <= Before(freqs, s)
<1>1. /\ IsFiniteSet(AnsSymbols) /\ Symbols = AnsSymbols /\ AnsSymbols = 0 .. AlphabetSize - 1
      /\ AlphabetSize \in Nat
      /\ \A s \in AnsSymbols : freqs[s] \in Nat
  BY SymbolsAre, TableFacts, FrequenciesAreCounts
<1>2. Before(freqs, 0) = 0
  <2>1. 0 .. 0 - 1 = {}
    OBVIOUS
  <2> QED
    BY <2>1, SumEmpty DEF Before
<1>3. Before(freqs, AlphabetSize) = Total(freqs)
  BY <1>1 DEF Before, Total
<1>4. ASSUME NEW s \in 0 .. AlphabetSize
      PROVE  IsFiniteSet(0 .. s - 1) /\ 0 .. s - 1 \in SUBSET AnsSymbols
  BY <1>1, IntervalIsFinite
<1>5. ASSUME NEW s \in 0 .. AlphabetSize PROVE Before(freqs, s) \in Nat
  <2>1. \A r \in 0 .. s - 1 : freqs[r] \in Nat
    BY <1>1, <1>4
  <2> QED
    BY <1>4, <2>1, SumNat DEF Before
<1>6. ASSUME NEW s \in Symbols PROVE Before(freqs, s + 1) = Before(freqs, s) + freqs[s]
  <2>1. s \in 0 .. AlphabetSize /\ s + 1 \in 0 .. AlphabetSize
    BY <1>1
  <2>2. 0 .. (s + 1) - 1 = (0 .. s - 1) \cup {s} /\ s \notin 0 .. s - 1
    BY <2>1
  <2>3. \A r \in (0 .. s - 1) \cup {s} : freqs[r] \in Int
    BY <1>1, <1>4, <2>1
  <2> QED
    BY <1>4, <2>1, <2>2, <2>3, SumWith DEF Before
<1>7. ASSUME NEW s \in 0 .. AlphabetSize, NEW r \in 0 .. s
      PROVE  Before(freqs, r) <= Before(freqs, s)
  <2>1. 0 .. r - 1 \in SUBSET (0 .. s - 1) /\ \A i \in 0 .. s - 1 : freqs[i] \in Nat
    BY <1>1, <1>4
  <2> QED
    BY <1>4, <2>1, SumPart DEF Before
<1> QED
  BY <1>2, <1>3, <1>5, <1>6, <1>7

(* The symbol whose turn it is when p slots are taken.                     *)
Turn(freqs, p) ==
  CHOOSE s \in Symbols :
    /\ SumFunctionOnSet(freqs, 0 .. s - 1) <= p
    /\ p < SumFunctionOnSet(freqs, 0 .. s)

(* Whose turn it is, after p slots.                                       *)
LEMMA TurnIs ==
  ASSUME NEW freqs \in Frequencies, Total(freqs) = TableSize, NEW p \in 0 .. TableSize - 1
  PROVE  /\ Turn(freqs, p) \in Symbols
         /\ Before(freqs, Turn(freqs, p)) <= p
         /\ p < Before(freqs, Turn(freqs, p)) + freqs[Turn(freqs, p)]
<1> DEFINE Is(s) == Before(freqs, s) <= p /\ p < SumFunctionOnSet(freqs, 0 .. s)
           Above == {s \in Nat : s <= AlphabetSize /\ p < Before(freqs, s)}
<1>1. /\ Symbols = 0 .. AlphabetSize - 1 /\ AlphabetSize \in Nat /\ TableSize \in Nat
           /\ p \in Nat
      /\ p < TableSize
  BY TableFacts
<1>2. AlphabetSize \in Above
  BY <1>1, BeforeIs
<1>3. PICK m \in Above : \A y \in Above : m <= y
  <2>1. Above \in SUBSET Nat /\ Above # {}
    BY <1>2
  <2> HIDE DEF Above
  <2> QED
    BY <2>1, SmallestNat
<1>4. m \in Nat /\ m <= AlphabetSize /\ p < Before(freqs, m)
  BY <1>3
<1>5. m # 0
  BY <1>1, <1>4, BeforeIs
<1> DEFINE s == m - 1
<1>6. s \in Symbols /\ s \in Nat /\ s + 1 = m /\ s <= AlphabetSize /\ ~(m <= s)
      /\ s \in 0 .. AlphabetSize
  BY <1>1, <1>4, <1>5
<1>7. ~(p < Before(freqs, s)) /\ Before(freqs, s) \in Nat
  BY <1>3, <1>6, BeforeIs
<1>8. \A r \in Symbols : SumFunctionOnSet(freqs, 0 .. r) = Before(freqs, r) + freqs[r]
  <2>1. \A r \in Symbols : (r + 1) - 1 = r
    BY <1>1
  <2>2. \A r \in Symbols : SumFunctionOnSet(freqs, 0 .. r) = Before(freqs, r + 1)
    BY <2>1 DEF Before
  <2> QED
    BY <2>2, BeforeIs
<1>9. SumFunctionOnSet(freqs, 0 .. s) = Before(freqs, m)
  BY <1>6, <1>8, BeforeIs
<1> HIDE DEF s
<1>10. Is(s)
  BY <1>1, <1>4, <1>7, <1>9
<1>11. Turn(freqs, p) = CHOOSE r \in Symbols : Is(r)
  BY DEF Turn, Before
<1> HIDE DEF Is
<1>12. Turn(freqs, p) \in Symbols /\ Is(Turn(freqs, p))
  BY <1>6, <1>10, <1>11
<1> QED
  BY <1>8, <1>12 DEF Is

(* How many of p slots, taken in the order of the symbols, are those of s. *)
Taken(freqs, s, p) ==
  IF p <= Before(freqs, s) THEN 0
  ELSE IF p >= Before(freqs, s) + freqs[s] THEN freqs[s]
  ELSE p - Before(freqs, s)

(* After each turn one symbol has one slot more.                          *)
LEMMA TakenNext ==
  ASSUME NEW freqs \in Frequencies, Total(freqs) = TableSize, NEW p \in 0 .. TableSize - 1,
         NEW s \in Symbols
  PROVE  Taken(freqs, s, p + 1) = IF s = Turn(freqs, p) THEN Taken(freqs, s, p) + 1
           ELSE Taken(freqs, s, p)
<1> DEFINE t == Turn(freqs, p)
           a == Before(freqs, s)
           f == freqs[s]
<1>1. t \in Symbols /\ Before(freqs, t) <= p /\ p < Before(freqs, t) + freqs[t]
  BY TurnIs
<1>2. p \in Nat /\ Symbols = 0 .. AlphabetSize - 1 /\ AlphabetSize \in Nat
  BY TableFacts
<1>3. a \in Nat /\ f \in Nat /\ Before(freqs, t) \in Nat /\ freqs[t] \in Nat
  <2>1. s \in 0 .. AlphabetSize /\ t \in 0 .. AlphabetSize
    BY <1>1, <1>2
  <2> QED
    BY <1>1, <2>1, BeforeIs, FrequenciesAreCounts
<1> HIDE DEF t
<1>4. CASE s = t
  BY <1>1, <1>2, <1>3, <1>4 DEF Taken, t
<1>5. CASE s < t
  <2>1. Before(freqs, s + 1) <= Before(freqs, t) /\ Before(freqs, s + 1) = a + f
    <3>1. t \in 0 .. AlphabetSize /\ s + 1 \in 0 .. t
      BY <1>1, <1>2, <1>5
    <3> QED
      BY <3>1, BeforeIs
  <2>2. p >= a + f /\ p + 1 >= a + f
    BY <1>1, <1>2, <1>3, <2>1
  <2>3. s # t
    BY <1>1, <1>2, <1>5
  <2> HIDE DEF a, f
  <2>4. (IF p + 1 <= a THEN 0 ELSE IF p + 1 >= a + f THEN f ELSE (p + 1) - a)
          = (IF p <= a THEN 0 ELSE IF p >= a + f THEN f ELSE p - a)
    BY <1>2, <1>3, <2>2
  <2> QED
    BY <2>3, <2>4 DEF Taken, t, a, f
<1>6. CASE s > t
  <2>1. Before(freqs, t + 1) <= a /\ Before(freqs, t + 1) = Before(freqs, t) + freqs[t]
    <3>1. s \in 0 .. AlphabetSize /\ t + 1 \in 0 .. s
      BY <1>1, <1>2, <1>6
    <3> QED
      BY <1>1, <3>1, BeforeIs
  <2>2. p + 1 <= a /\ p <= a
    BY <1>1, <1>2, <1>3, <2>1
  <2>3. s # t
    BY <1>1, <1>2, <1>6
  <2> QED
    BY <2>2, <2>3 DEF Taken, t
<1> QED
  BY <1>1, <1>2, <1>4, <1>5, <1>6

(* After the last one, each has as many as its frequency says.            *)
LEMMA TakenAtEnd ==
  ASSUME NEW freqs \in Frequencies, Total(freqs) = TableSize, NEW s \in Symbols
  PROVE  Taken(freqs, s, 0) = 0 /\ Taken(freqs, s, TableSize) = freqs[s]
<1>1. Symbols = 0 .. AlphabetSize - 1 /\ AlphabetSize \in Nat /\ TableSize \in Nat
  BY TableFacts
<1>2. s \in 0 .. AlphabetSize /\ s + 1 \in 0 .. AlphabetSize
      /\ AlphabetSize \in 0 .. AlphabetSize
  BY <1>1
<1>3. /\ Before(freqs, s) \in Nat /\ freqs[s] \in Nat
      /\ Before(freqs, s) + freqs[s] <= TableSize
  <2>1. Before(freqs, s + 1) = Before(freqs, s) + freqs[s] /\ Before(freqs, s) \in Nat
        /\ Before(freqs, s + 1) <= Before(freqs, AlphabetSize)
        /\ Before(freqs, AlphabetSize) = TableSize
    BY <1>2, BeforeIs
  <2> QED
    BY <2>1, FrequenciesAreCounts
<1> QED
  BY <1>1, <1>3 DEF Taken

-----------------------------------------------------------------------------
(***************************************************************************)
(* Huffman: canonical codes of lengths that are not oversubscribed. In    *)
(* units of the longest code, each stands for an interval behind those    *)
(* before it.                                                             *)
(***************************************************************************)

(* Lengths within the limit.                                              *)
CodeLengths == [Symbols -> 0 .. MaxBits]

(* The limits on lengths leave room for the alphabet.                     *)
LEMMA HuffmanFacts ==
  /\ MaxBits \in Nat /\ PrimaryBits \in 0 .. MaxBits /\ PrimaryBits \in Nat
  /\ Cardinality(Symbols) <= Pow2[MaxBits] /\ IsFiniteSet(Symbols)
  /\ Pow2[MaxBits] \in Nat \ {0}
<1>1. MaxBits \in Nat /\ PrimaryBits \in 1 .. MaxBits /\ NumSymbols <= Pow2[MaxBits]
      /\ NumSymbols = AlphabetSize
  BY HuffmanAssumption, EntropyAssumption
<1> QED
  BY <1>1, SymbolsAre, Pow2Type

LEMMA UsedIsFinite ==
  ASSUME NEW ls, NEW U \in SUBSET UsedIn(ls)
  PROVE  IsFiniteSet(U) /\ Cardinality(U) \in Nat
           /\ Cardinality(U) <= Cardinality(Symbols) /\ U \in SUBSET Symbols
<1>1. U \in SUBSET Symbols
  BY DEF UsedIn
<1> QED
  BY <1>1, HuffmanFacts, FS_Subset, FS_CardinalityType

LEMMA OfLengthIs ==
  ASSUME NEW ls, NEW l
  PROVE  OfLength(ls, l) \in SUBSET UsedIn(ls) /\ IsFiniteSet(OfLength(ls, l))
           /\ Cardinality(OfLength(ls, l)) \in Nat
<1>1. OfLength(ls, l) \in SUBSET UsedIn(ls)
  BY DEF OfLength
<1> QED
  BY <1>1, UsedIsFinite

(* The recursion of next_code is a function.                              *)
LEMMA FirstCodeIs ==
  ASSUME NEW ls
  PROVE  /\ FirstCode(ls) \in [0 .. MaxBits -> Nat]
         /\ FirstCode(ls)[0] = 0
         /\ \A l \in 1 .. MaxBits :
              FirstCode(ls)[l] = 2 * (FirstCode(ls)[l - 1] + Cardinality(OfLength(ls, l - 1)))
<1> DEFINE M == MaxBits
           c(l) == Cardinality(OfLength(ls, l))
           next(l) == [x \in Nat |-> 2 * (x + c(l - 1))]
           step == [l \in 1 .. M |-> next(l)]
           Is(f) == f = [l \in 0 .. M |-> IF l = 0 THEN 0 ELSE 2 * (f[l - 1] + c(l - 1))]
<1>1. M \in Nat
  BY HuffmanFacts
<1>2. \A l : c(l) \in Nat
  BY OfLengthIs
<1> HIDE DEF M, c
<1>3. PICK f \in [0 .. M -> Nat] : Climbs(f, M, 0, step)
  <2>1. step \in [1 .. M -> [Nat -> Nat]] /\ 0 \in Nat
    BY <1>2
  <2> HIDE DEF step
  <2> QED
    BY <1>1, <2>1, ForwardRecursion
<1>4. f[0] = 0 /\ \A l \in 1 .. M : f[l] = 2 * (f[l - 1] + c(l - 1))
  <2>1. f[0] = 0 /\ \A l \in 1 .. M : f[l] = step[l][f[l - 1]]
    BY <1>3 DEF Climbs
  <2>2. \A l \in 1 .. M : l - 1 \in 0 .. M /\ f[l - 1] \in Nat
    BY <1>1
  <2> QED
    BY <2>1, <2>2
<1>5. Is(f)
  <2>1. \A l \in 0 .. M : l # 0 => l \in 1 .. M
    BY <1>1
  <2> QED
    BY <1>3, <1>4, <2>1
<1> DEFINE F == FirstCode(ls)
<1>6. F = CHOOSE first : Is(first)
  BY DEF FirstCode, M, c
<1> HIDE DEF F
<1>7. Is(F)
  <2> HIDE DEF Is
  <2> QED
    BY <1>5, <1>6
<1>8. DOMAIN F = 0 .. M
      /\ \A l \in 0 .. M : F[l] = IF l = 0 THEN 0 ELSE 2 * (F[l - 1] + c(l - 1))
  BY <1>7
<1>9. F = [l \in 0 .. M |-> F[l]]
  BY <1>7
<1>10. F[0] = 0 /\ \A l \in 1 .. M : F[l] = 2 * (F[l - 1] + c(l - 1))
  BY <1>1, <1>8
<1> DEFINE Good == {l \in Nat : l <= M => F[l] \in Nat}
<1>11. 0 \in Good
  BY <1>10
<1>12. ASSUME NEW l \in Nat, l \in Good PROVE l + 1 \in Good
  <2>1. l + 1 <= M => l + 1 \in 1 .. M /\ (l + 1) - 1 = l /\ l <= M
    BY <1>1
  <2> QED
    BY <1>2, <1>10, <1>12, <2>1
<1> HIDE DEF Good
<1>13. \A l \in Nat : l \in Good
  BY <1>11, <1>12, UpwardInduction
<1>14. F \in [0 .. M -> Nat]
  <2>1. \A l \in 0 .. M : F[l] \in Nat
    BY <1>1, <1>13 DEF Good
  <2> QED
    BY <1>9, <2>1
<1> QED
  BY <1>10, <1>14 DEF F, M, c

-----------------------------------------------------------------------------
(* The Kraft sum of the codes of at most l bits.                           *)
Weight(ls) == [s \in UsedIn(ls) |-> Pow2[MaxBits - ls[s]]]
UpToLength(ls, l) == {s \in UsedIn(ls) : ls[s] <= l}
KraftUpto(ls, l) == SumFunctionOnSet(Weight(ls), UpToLength(ls, l))

(* The Kraft sum, length by length.                                       *)
LEMMA KraftUptoIs ==
  ASSUME NEW ls \in CodeLengths
  PROVE  /\ KraftUpto(ls, 0) = 0
         /\ KraftUpto(ls, MaxBits) = Kraft(ls)
         /\ \A l \in 0 .. MaxBits : KraftUpto(ls, l) \in Nat
         /\ \A l \in 1 .. MaxBits :
              KraftUpto(ls, l) = KraftUpto(ls, l - 1)
                    + Cardinality(OfLength(ls, l)) * Pow2[MaxBits - l]
         /\ \A l \in 0 .. MaxBits : \A k \in 0 .. l : KraftUpto(ls, k) <= KraftUpto(ls, l)
<1> DEFINE g == Weight(ls)
           U == UsedIn(ls)
<1>1. MaxBits \in Nat
  BY HuffmanFacts
<1>2. \A s \in U : s \in Symbols /\ ls[s] \in 1 .. MaxBits
  BY <1>1 DEF UsedIn, CodeLengths
<1>3. \A s \in U : g[s] = Pow2[MaxBits - ls[s]] /\ g[s] \in Nat /\ g[s] \in Int
  <2>1. \A s \in U : MaxBits - ls[s] \in Nat
    BY <1>1, <1>2
  <2>2. \A s \in U : Pow2[MaxBits - ls[s]] \in Nat /\ Pow2[MaxBits - ls[s]] \in Int
    BY <2>1, Pow2Type
  <2> QED
    BY <2>2 DEF Weight
<1>4. \A l : UpToLength(ls, l) \in SUBSET U /\ IsFiniteSet(UpToLength(ls, l))
  <2>1. \A l : UpToLength(ls, l) \in SUBSET U
    BY DEF UpToLength
  <2> QED
    BY <2>1, UsedIsFinite
<1>5. Kraft(ls) = SumFunctionOnSet(g, U)
  <2>1. DOMAIN g = U
    BY DEF Weight
  <2>2. Kraft(ls) = SumFunction(g)
    BY DEF Kraft, Weight
  <2> HIDE DEF g, U
  <2> QED
    BY <2>1, <2>2 DEF SumFunction
<1>6. UpToLength(ls, 0) = {} /\ UpToLength(ls, MaxBits) = U
  BY <1>1, <1>2 DEF UpToLength
<1> HIDE DEF g, U
<1>7. KraftUpto(ls, 0) = 0 /\ KraftUpto(ls, MaxBits) = Kraft(ls)
  BY <1>5, <1>6, SumEmpty DEF KraftUpto, g
<1>8. ASSUME NEW l \in 0 .. MaxBits PROVE KraftUpto(ls, l) \in Nat
  <2>1. \A s \in UpToLength(ls, l) : g[s] \in Nat
    BY <1>3, <1>4
  <2> QED
    BY <1>4, <2>1, SumNat DEF KraftUpto, g
<1>9. ASSUME NEW l \in 0 .. MaxBits, NEW k \in 0 .. l PROVE KraftUpto(ls, k) <= KraftUpto(ls, l)
  <2>1. \A s \in U : ls[s] <= k => ls[s] <= l
    BY <1>1, <1>2
  <2>2. UpToLength(ls, k) \in SUBSET UpToLength(ls, l)
    BY <2>1 DEF UpToLength, U
  <2>3. \A s \in UpToLength(ls, l) : g[s] \in Nat
    BY <1>3, <1>4
  <2> QED
    BY <1>4, <2>2, <2>3, SumPart DEF KraftUpto, g
<1>10. ASSUME NEW l \in 1 .. MaxBits
       PROVE  KraftUpto(ls, l) = KraftUpto(ls, l - 1)
                + Cardinality(OfLength(ls, l)) * Pow2[MaxBits - l]
  <2>1. \A s \in U : ls[s] <= l <=> ls[s] <= l - 1 \/ ls[s] = l
    BY <1>1, <1>2
  <2>2. \A s \in U : ~(ls[s] <= l - 1 /\ ls[s] = l)
    BY <1>1, <1>2
  <2>3. UpToLength(ls, l) = UpToLength(ls, l - 1) \cup OfLength(ls, l)
        /\ UpToLength(ls, l - 1) \cap OfLength(ls, l) = {}
    BY <2>1, <2>2 DEF UpToLength, OfLength, U
  <2>4. IsFiniteSet(UpToLength(ls, l - 1)) /\ IsFiniteSet(OfLength(ls, l))
        /\ OfLength(ls, l) \in SUBSET U
    BY <1>4, OfLengthIs DEF U
  <2>5. \A s \in UpToLength(ls, l - 1) \cup OfLength(ls, l) : g[s] \in Int
    BY <1>3, <1>4, <2>4
  <2>6. SumFunctionOnSet(g, UpToLength(ls, l))
        = SumFunctionOnSet(g, UpToLength(ls, l - 1)) + SumFunctionOnSet(g, OfLength(ls, l))
    BY <2>3, <2>4, <2>5, SumUnion
  <2>7. \A s \in OfLength(ls, l) : g[s] = Pow2[MaxBits - l]
    BY <1>3, <2>4 DEF OfLength
  <2>8. Pow2[MaxBits - l] \in Int
    BY <1>1, Pow2Type
  <2>9. SumFunctionOnSet(g, OfLength(ls, l)) = Cardinality(OfLength(ls, l)) * Pow2[MaxBits - l]
    BY <2>4, <2>7, <2>8, SumConstant
  <2> QED
    BY <2>6, <2>9 DEF KraftUpto, g
<1> QED
  BY <1>7, <1>8, <1>9, <1>10

(* The canonical codes of l bits begin where the shorter ones end.         *)
LEMMA FirstCodeKraft ==
  ASSUME NEW ls \in CodeLengths
  PROVE  /\ \A l \in 0 .. MaxBits :
              (FirstCode(ls)[l] + Cardinality(OfLength(ls, l))) * Pow2[MaxBits - l]
                    = KraftUpto(ls, l)
         /\ \A l \in 1 .. MaxBits : FirstCode(ls)[l] * Pow2[MaxBits - l] = KraftUpto(ls, l - 1)
<1> DEFINE M == MaxBits
           F == FirstCode(ls)
           c(l) == Cardinality(OfLength(ls, l))
           Ends(l) == (F[l] + c(l)) * Pow2[M - l] = KraftUpto(ls, l)
           Begins(l) == F[l] * Pow2[M - l] = KraftUpto(ls, l - 1)
           Good == {l \in Nat : l <= M => Ends(l)}
<1>1. M \in Nat
  BY HuffmanFacts
<1>2. /\ F \in [0 .. M -> Nat] /\ F[0] = 0
      /\ \A l \in 1 .. M : F[l] = 2 * (F[l - 1] + c(l - 1))
      /\ \A l : c(l) \in Nat
  BY FirstCodeIs, OfLengthIs
<1>3. /\ KraftUpto(ls, 0) = 0
      /\ \A l \in 0 .. M : KraftUpto(ls, l) \in Nat
      /\ \A l \in 1 .. M : KraftUpto(ls, l) = KraftUpto(ls, l - 1) + c(l) * Pow2[M - l]
  BY KraftUptoIs
<1>4. c(0) = 0
  <2>1. OfLength(ls, 0) = {}
    BY DEF OfLength, UsedIn
  <2> QED
    BY <2>1, FS_EmptySet
<1>5. Ends(0)
  <2>1. Pow2[M - 0] \in Nat
    BY <1>1, Pow2Type
  <2>2. \A x \in Nat : (0 + 0) * x = 0
    OBVIOUS
  <2> QED
    BY <1>2, <1>3, <1>4, <2>1, <2>2
<1> HIDE DEF M, F, c
<1>6. ASSUME NEW l \in Nat, l + 1 <= M, Ends(l) PROVE Begins(l + 1) /\ Ends(l + 1)
  <2> DEFINE p == Pow2[M - (l + 1)]
             n == F[l] + c(l)
  <2>1. l \in 0 .. M /\ l + 1 \in 1 .. M /\ (l + 1) - 1 = l /\ M - (l + 1) \in Nat
        /\ (M - (l + 1)) + 1 = M - l
        /\ l + 1 \in 0 .. M
    BY <1>1, <1>6
  <2>2. p \in Nat /\ Pow2[M - l] = 2 * p
    BY <2>1, Pow2Type, Pow2Is
  <2>3. F[l + 1] = 2 * n /\ n \in Nat /\ F[l + 1] \in Nat /\ c(l + 1) \in Nat
    BY <1>2, <2>1
  <2>4. n * (2 * p) = KraftUpto(ls, l)
    BY <1>6, <2>2
  <2>5. KraftUpto(ls, l + 1) = KraftUpto(ls, l) + c(l + 1) * p /\ KraftUpto(ls, l) \in Nat
    BY <1>3, <2>1
  <2> HIDE DEF p, n
  <2>6. (2 * n) * p = n * (2 * p)
    BY <2>2, <2>3
  <2>7. F[l + 1] * p = KraftUpto(ls, l)
    BY <2>3, <2>4, <2>6
  <2>8. (F[l + 1] + c(l + 1)) * p = F[l + 1] * p + c(l + 1) * p
    BY <2>2, <2>3
  <2> QED
    BY <2>1, <2>5, <2>7, <2>8 DEF p
<1>7. 0 \in Good
  BY <1>5
<1>8. ASSUME NEW l \in Nat, l \in Good PROVE l + 1 \in Good
  <2>1. l + 1 <= M => l <= M
    BY <1>1
  <2> HIDE DEF Begins, Ends
  <2> QED
    BY <1>6, <1>8, <2>1
<1> HIDE DEF Good
<1>9. \A l \in Nat : l \in Good
  BY <1>7, <1>8, UpwardInduction
<1>10. ASSUME NEW l \in 0 .. M PROVE Ends(l)
  <2>1. l \in Nat /\ l <= M
    BY <1>1
  <2> HIDE DEF Ends
  <2> QED
    BY <1>9, <2>1 DEF Good
<1>11. ASSUME NEW l \in 1 .. M PROVE Begins(l)
  <2>1. l - 1 \in Nat /\ l - 1 \in 0 .. M /\ (l - 1) + 1 = l /\ l <= M
    BY <1>1
  <2> HIDE DEF Begins, Ends
  <2> QED
    BY <1>6, <1>10, <2>1
<1> QED
  BY <1>10, <1>11 DEF M, F, c

(* A canonical code as a part of the codes of the longest length: it ends  *)
(* before the codes of its own length do.                                  *)
Start(ls, s) == Canonical(ls, s) * Pow2[MaxBits - ls[s]]
End(ls, s) == (Canonical(ls, s) + 1) * Pow2[MaxBits - ls[s]]
Among(ls, s) == {r \in OfLength(ls, ls[s]) : r < s}

(* In units of the longest code each code stands for an interval.         *)
LEMMA CanonicalIs ==
  ASSUME NEW ls \in CodeLengths, NEW s \in UsedIn(ls)
  PROVE  /\ s \in Symbols /\ ls[s] \in 1 .. MaxBits /\ s \in OfLength(ls, ls[s])
         /\ Canonical(ls, s) \in Nat
         /\ Start(ls, s) = KraftUpto(ls, ls[s] - 1)
              + Cardinality(Among(ls, s)) * Pow2[MaxBits - ls[s]]
         /\ End(ls, s) = Start(ls, s) + Pow2[MaxBits - ls[s]]
         /\ End(ls, s) <= KraftUpto(ls, ls[s])
         /\ Start(ls, s) \in Nat /\ End(ls, s) \in Nat
         /\ Cardinality(Among(ls, s)) \in Nat /\ IsFiniteSet(Among(ls, s))
<1> DEFINE l == ls[s]
           f == FirstCode(ls)[l]
           k == Cardinality(Among(ls, s))
           n == Cardinality(OfLength(ls, l))
           p == Pow2[MaxBits - l]
           c == Canonical(ls, s)
<1>1. s \in Symbols /\ l \in 1 .. MaxBits /\ s \in OfLength(ls, l) /\ MaxBits \in Nat
  BY HuffmanFacts DEF UsedIn, CodeLengths, OfLength
<1>2. f \in Nat /\ n \in Nat /\ IsFiniteSet(OfLength(ls, l)) /\ f * p = KraftUpto(ls, l - 1)
      /\ (f + n) * p = KraftUpto(ls, l) /\ p \in Nat
  <2>1. l \in 0 .. MaxBits /\ MaxBits - l \in Nat
    BY <1>1
  <2> QED
    BY <1>1, <2>1, FirstCodeIs, FirstCodeKraft, OfLengthIs, Pow2Type
<1>3. k \in Nat /\ k < n /\ IsFiniteSet(Among(ls, s))
  <2>1. s \in Int /\ ~(s < s)
    BY <1>1, SymbolsAre
  <2>2. Among(ls, s) \in SUBSET (OfLength(ls, l) \ {s})
    BY <2>1 DEF Among
  <2>3. IsFiniteSet(OfLength(ls, l) \ {s}) /\ Cardinality(OfLength(ls, l) \ {s}) = n - 1
    BY <1>1, <1>2, FS_RemoveElement
  <2>4. IsFiniteSet(Among(ls, s)) /\ k <= n - 1 /\ k \in Nat
    BY <2>2, <2>3, FS_Subset, FS_CardinalityType
  <2> QED
    BY <1>2, <2>4
<1>4. c = f + k
  BY DEF Canonical, Among
<1>5. Start(ls, s) = c * p /\ End(ls, s) = (c + 1) * p
  BY DEF Start, End
<1> HIDE DEF l, f, k, n, p, c
<1>6. c \in Nat /\ c + 1 <= f + n
  BY <1>2, <1>3, <1>4
<1>7. c * p = f * p + k * p /\ (c + 1) * p = c * p + p /\ (c + 1) * p <= (f + n) * p
      /\ c * p \in Nat /\ (c + 1) * p \in Nat
  <2>1. (f + k) * p = f * p + k * p
    BY <1>2, <1>3
  <2>2. (c + 1) * p <= (f + n) * p
    BY <1>2, <1>6, Product
  <2> QED
    BY <1>2, <1>4, <1>6, <2>1, <2>2
<1> QED
  BY <1>1, <1>2, <1>3, <1>5, <1>6, <1>7 DEF l, k, p, c

(* The order of the codes is that of the lengths and then of the symbols.  *)
LEMMA CanonicalOrder ==
  ASSUME NEW ls \in CodeLengths, NEW s \in UsedIn(ls), NEW r \in UsedIn(ls),
         ls[s] < ls[r] \/ (ls[s] = ls[r] /\ s < r)
  PROVE  End(ls, s) <= Start(ls, r)
<1>1. ls[s] \in 1 .. MaxBits /\ ls[r] \in 1 .. MaxBits /\ MaxBits \in Nat
      /\ s \in Int /\ r \in Int
  BY CanonicalIs, HuffmanFacts, SymbolsAre
<1> DEFINE a == Start(ls, s)
           b == Start(ls, r)
           p == Pow2[MaxBits - ls[r]]
           j == Cardinality(Among(ls, s))
           k == Cardinality(Among(ls, r))
<1>2. p \in Nat
  BY <1>1, Pow2Type
<1>3. /\ End(ls, s) <= KraftUpto(ls, ls[s])
      /\ b = KraftUpto(ls, ls[r] - 1) + k * p
      /\ k \in Nat /\ j \in Nat /\ End(ls, s) \in Nat
  BY CanonicalIs
<1>4. \A i \in 0 .. MaxBits : KraftUpto(ls, i) \in Nat
  BY KraftUptoIs
<1>5. CASE ls[s] < ls[r]
  <2>1. ls[r] - 1 \in 0 .. MaxBits /\ ls[s] \in 0 .. ls[r] - 1 /\ ls[s] \in 0 .. MaxBits
    BY <1>1, <1>5
  <2>2. KraftUpto(ls, ls[s]) <= KraftUpto(ls, ls[r] - 1)
    BY <2>1, KraftUptoIs
  <2>3. k * p \in Nat
    BY <1>2, <1>3
  <2> HIDE DEF p, k, b
  <2> QED
    BY <1>3, <1>4, <2>1, <2>2, <2>3 DEF b
<1>6. CASE ls[s] = ls[r] /\ s < r
  <2>1. /\ a = KraftUpto(ls, ls[r] - 1) + j * p
        /\ End(ls, s) = a + p
    BY <1>6, CanonicalIs
  <2>2. j + 1 <= k
    <3>1. s \in Among(ls, r)
      BY <1>6, CanonicalIs DEF Among
    <3>2. \A t \in Symbols : t < s => t < r
      BY <1>1, <1>6, SymbolsAre
    <3>3. \A t \in OfLength(ls, ls[r]) : t \in Symbols
      BY OfLengthIs, UsedIsFinite
    <3>4. Among(ls, s) \in SUBSET (Among(ls, r) \ {s})
      BY <1>1, <1>6, <3>2, <3>3 DEF Among
    <3>5. IsFiniteSet(Among(ls, r) \ {s}) /\ Cardinality(Among(ls, r) \ {s}) = k - 1
      BY <3>1, CanonicalIs, FS_RemoveElement
    <3>6. j <= k - 1
      BY <3>4, <3>5, FS_Subset
    <3> QED
      BY <1>3, <3>6
  <2>3. ls[r] - 1 \in 0 .. MaxBits
    BY <1>1
  <2> HIDE DEF p, k, j, a, b
  <2>4. j * p + p <= k * p /\ k * p \in Nat /\ j * p \in Nat
    <3>1. (j + 1) * p <= k * p
      BY <1>2, <1>3, <2>2, Product
    <3>2. (j + 1) * p = j * p + p
      BY <1>2, <1>3
    <3> QED
      BY <1>2, <1>3, <3>1, <3>2
  <2>5. KraftUpto(ls, ls[r] - 1) \in Nat
    BY <1>4, <2>3
  <2>6. a + p <= b
    BY <1>2, <1>3, <2>1, <2>4, <2>5
  <2> QED
    BY <2>1, <2>6 DEF b
<1> QED
  BY <1>5, <1>6

(* Canonical codes fit their lengths, if the tree is not oversubscribed.  *)
LEMMA CanonicalRange ==
  ASSUME NEW ls \in CodeLengths, ~Oversubscribed(ls), NEW s \in UsedIn(ls)
  PROVE  Canonical(ls, s) \in 0 .. Pow2[ls[s]] - 1
<1> DEFINE l == ls[s]
           c == Canonical(ls, s)
           p == Pow2[MaxBits - l]
           q == Pow2[l]
<1>1. l \in 1 .. MaxBits /\ c \in Nat /\ MaxBits \in Nat /\ End(ls, s) <= KraftUpto(ls, l)
      /\ End(ls, s) = (c + 1) * p
  BY CanonicalIs, HuffmanFacts DEF End
<1>2. p \in Nat \ {0} /\ q \in Nat \ {0} /\ Pow2[MaxBits] = q * p /\ Pow2[MaxBits] \in Nat
  <2>1. l \in 0 .. MaxBits /\ MaxBits - l \in Nat /\ l \in Nat
    BY <1>1
  <2> QED
    BY <1>1, <2>1, Pow2Type, Pow2Split
<1>3. KraftUpto(ls, l) <= Pow2[MaxBits] /\ KraftUpto(ls, l) \in Nat
  <2>1. l \in 0 .. MaxBits /\ MaxBits \in 0 .. MaxBits
    BY <1>1
  <2>2. KraftUpto(ls, l) <= KraftUpto(ls, MaxBits) /\ KraftUpto(ls, MaxBits) = Kraft(ls)
        /\ KraftUpto(ls, l) \in Nat /\ KraftUpto(ls, MaxBits) \in Nat
    BY <2>1, KraftUptoIs
  <2>3. ~(Kraft(ls) > Pow2[MaxBits])
    BY DEF Oversubscribed
  <2> QED
    BY <1>2, <2>2, <2>3
<1> HIDE DEF l, c, p, q
<1>4. (c + 1) * p <= q * p
  <2>1. (c + 1) * p \in Nat
    BY <1>1, <1>2
  <2> QED
    BY <1>1, <1>2, <1>3, <2>1
<1>5. CASE c >= q
  <2>1. q * p <= c * p
    BY <1>1, <1>2, <1>5, Product
  <2>2. (c + 1) * p = c * p + p /\ c * p \in Nat
    BY <1>1, <1>2
  <2> QED
    BY <1>2, <1>4, <2>1, <2>2
<1>6. CASE c < q
  BY <1>1, <1>2, <1>6 DEF c, q, l
<1> QED
  BY <1>1, <1>2, <1>5, <1>6

(* What is written for a symbol are the bits of its canonical code from    *)
(* the most significant one.                                               *)
LEMMA CodeIs ==
  ASSUME NEW ls \in CodeLengths, ~Oversubscribed(ls), NEW s \in UsedIn(ls)
  PROVE  /\ Code(ls, s) \in 0 .. Pow2[ls[s]] - 1 /\ Code(ls, s) \in Nat
         /\ \A i \in 1 .. ls[s] : Bits(Code(ls, s), ls[s])[i]
              = Bits(Canonical(ls, s), ls[s])[ls[s] + 1 - i]
<1> DEFINE l == ls[s]
           c == Canonical(ls, s)
           b == [i \in 1 .. l |-> Bits(c, l)[l + 1 - i]]
<1>1. l \in Nat /\ c \in Nat
  <2>1. \A m, n \in Nat : n \in 1 .. m => n \in Nat
    OBVIOUS
  <2> QED
    BY <2>1, CanonicalIs, HuffmanFacts
<1>2. Code(ls, s) = Value(b)
  BY DEF Code, ReverseBits
<1> HIDE DEF l, c
<1>3. b \in [1 .. l -> Bit]
  <2>1. Bits(c, l) \in [1 .. l -> Bit]
    BY <1>1, BitsType
  <2>2. \A i \in 1 .. l : l + 1 - i \in 1 .. l
    BY <1>1
  <2> QED
    BY <2>1, <2>2
<1>4. \A i \in 1 .. l : b[i] = Bits(c, l)[l + 1 - i]
  OBVIOUS
<1> HIDE DEF b
<1>5. Value(b) \in 0 .. Pow2[l] - 1 /\ Value(b) \in Nat /\ Bits(Value(b), l) = b
  BY <1>1, <1>3, ValueRange, BitsOfValue
<1> QED
  BY <1>2, <1>4, <1>5 DEF l, c

(* No code is the beginning of another.                                    *)
LEMMA NoCodeBegins ==
  ASSUME NEW ls \in CodeLengths, ~Oversubscribed(ls),
         NEW s \in UsedIn(ls), NEW r \in UsedIn(ls), ls[s] <= ls[r],
         \A i \in 1 .. ls[s] : Bits(Code(ls, s), ls[s])[i] = Bits(Code(ls, r), ls[r])[i]
  PROVE  s = r
<1> DEFINE l == ls[s]
           m == ls[r]
           d == m - l
           c == Canonical(ls, s)
           e == Canonical(ls, r)
<1>1. /\ l \in 1 .. MaxBits /\ m \in 1 .. MaxBits /\ MaxBits \in Nat /\ l <= m
      /\ c \in 0 .. Pow2[l] - 1 /\ e \in 0 .. Pow2[m] - 1 /\ c \in Nat /\ e \in Nat
      /\ s \in Int /\ r \in Int
  BY CanonicalIs, CanonicalRange, HuffmanFacts, SymbolsAre
<1>2. l \in Nat /\ m \in Nat /\ d \in Nat /\ l + d = m
  BY <1>1
<1>3. /\ \A i \in 1 .. l : Bits(Code(ls, s), l)[i] = Bits(c, l)[l + 1 - i]
      /\ \A i \in 1 .. m : Bits(Code(ls, r), m)[i] = Bits(e, m)[m + 1 - i]
      /\ \A i \in 1 .. l : Bits(Code(ls, s), l)[i] = Bits(Code(ls, r), m)[i]
  BY CodeIs
<1>4. Pow2[d] \in Nat \ {0} /\ Pow2[l] \in Nat \ {0} /\ Pow2[m] = Pow2[l] * Pow2[d]
  <2>1. Pow2[l + d] = Pow2[l] * Pow2[d]
    BY <1>2, Pow2Add
  <2> QED
    BY <1>2, <2>1, Pow2Type
<1> HIDE DEF l, m, d, c, e
<1> DEFINE h == e \div Pow2[d]
<1>5. h \in 0 .. Pow2[l] - 1
  <2>1. e < Pow2[l] * Pow2[d] /\ Pow2[l] \in Nat
    BY <1>1, <1>4
  <2>2. h \in Nat /\ h < Pow2[l]
    BY <1>1, <1>4, <2>1, QuotientBounds, Division
  <2> QED
    BY <1>4, <2>2
<1>6. ASSUME NEW j \in 1 .. l PROVE Bits(c, l)[j] = Bits(h, l)[j]
  <2> DEFINE i == l + 1 - j
  <2>1. i \in 1 .. l /\ i \in 1 .. m /\ l + 1 - i = j /\ m + 1 - i = d + j
    BY <1>1, <1>2
  <2> HIDE DEF i
  <2>2. Bits(c, l)[j] = Bits(e, m)[d + j]
    BY <1>3, <2>1
  <2>3. Bits(h, l)[j] = Bits(e, l + d)[d + j]
    BY <1>1, <1>2, HighBits
  <2> QED
    BY <1>2, <2>2, <2>3
<1>7. c = h
  <2> HIDE DEF h
  <2> QED
    BY <1>1, <1>2, <1>5, <1>6, SameBits
<1>8. e = c * Pow2[d] + (e % Pow2[d]) /\ e % Pow2[d] \in 0 .. Pow2[d] - 1
  BY <1>1, <1>4, <1>7, Division
<1> DEFINE p == Pow2[MaxBits - m]
<1>9. p \in Nat \ {0} /\ Pow2[MaxBits - l] = Pow2[d] * p
  <2>1. MaxBits - m \in Nat /\ d + (MaxBits - m) = MaxBits - l
    BY <1>1, <1>2
  <2>2. Pow2[d + (MaxBits - m)] = Pow2[d] * Pow2[MaxBits - m]
    BY <1>2, <2>1, Pow2Add
  <2> QED
    BY <2>1, <2>2, Pow2Type
<1>10. /\ Start(ls, s) = c * (Pow2[d] * p) /\ End(ls, s) = (c + 1) * (Pow2[d] * p)
       /\ Start(ls, r) = e * p /\ End(ls, r) = (e + 1) * p
  BY <1>9 DEF Start, End, c, e, l, m
<1> DEFINE a == Pow2[d]
           t == e % Pow2[d]
<1>11. a \in Nat \ {0} /\ t \in 0 .. a - 1 /\ e = c * a + t
  BY <1>4, <1>8
<1> HIDE DEF h, p, a, t
<1>12. e * p < (c + 1) * (a * p)
  <2>1. e < (c + 1) * a
    <3>1. (c + 1) * a = c * a + a /\ c * a \in Nat
      BY <1>1, <1>11
    <3> QED
      BY <1>1, <1>11, <3>1
  <2>2. (e + 1) * p <= ((c + 1) * a) * p /\ (e + 1) * p = e * p + p
    <3>1. e + 1 \in Nat /\ (c + 1) * a \in Nat /\ e + 1 <= (c + 1) * a
      BY <1>1, <1>11, <2>1
    <3> QED
      BY <1>1, <1>9, <3>1, Product
  <2>3. ((c + 1) * a) * p = (c + 1) * (a * p) /\ e * p \in Nat /\ (c + 1) * (a * p) \in Nat
    BY <1>1, <1>9, <1>11
  <2> QED
    BY <1>9, <2>2, <2>3
<1>13. (e + 1) * p > c * (a * p)
  <2>1. e >= c * a /\ c * a \in Nat
    BY <1>1, <1>11
  <2>2. (c * a) * p <= e * p /\ (c * a) * p = c * (a * p) /\ (e + 1) * p = e * p + p
        /\ e * p \in Nat /\ c * (a * p) \in Nat
    BY <1>1, <1>9, <1>11, <2>1, Product
  <2> QED
    BY <1>9, <2>2
<1>14. c * (a * p) \in Nat /\ (c + 1) * (a * p) \in Nat /\ e * p \in Nat /\ (e + 1) * p \in Nat
  BY <1>1, <1>9, <1>11
<1>15. CASE l < m \/ (l = m /\ s < r)
  <2>1. End(ls, s) <= Start(ls, r)
    BY <1>15, CanonicalOrder DEF l, m
  <2>2. (c + 1) * (a * p) <= e * p
    BY <1>10, <2>1 DEF a
  <2> QED
    BY <1>12, <1>14, <2>2
<1>16. CASE l = m /\ r < s
  <2>1. End(ls, r) <= Start(ls, s)
    BY <1>16, CanonicalOrder DEF l, m
  <2>2. (e + 1) * p <= c * (a * p)
    BY <1>10, <2>1 DEF a
  <2> QED
    BY <1>13, <1>14, <2>2
<1> QED
  BY <1>1, <1>2, <1>15, <1>16

(* The two levels of the table compare as many bits as the code has.       *)
LEMMA FoundIs ==
  ASSUME NEW ls \in CodeLengths, ~Oversubscribed(ls), NEW s \in UsedIn(ls), NEW window \in Nat
  PROVE  s \in Lookup(ls, window) <=> window % Pow2[ls[s]] = Code(ls, s)
<1> DEFINE l == ls[s]
           P == PrimaryBits
           a == Pow2[P]
           idx == window % a
           extra == window \div a
           code == Code(ls, s)
<1>1. l \in 1 .. MaxBits /\ l \in Nat /\ P \in Nat /\ code \in Nat
  <2>1. \A m, n \in Nat : n \in 1 .. m => n \in Nat
    OBVIOUS
  <2> QED
    BY <2>1, CanonicalIs, HuffmanFacts, CodeIs
<1>2. s \in Lookup(ls, window) <=> \/ l <= P /\ idx % Pow2[l] = code
                                   \/ l > P /\ code % a = idx
                                        /\ extra % Pow2[l - P] = code \div a
  BY DEF Lookup, Primary, Secondary
<1>3. a \in Nat \ {0} /\ Pow2[l] \in Nat \ {0}
  BY <1>1, Pow2Type
<1>4. idx \in 0 .. a - 1 /\ idx \in Nat /\ extra \in Nat
  BY <1>3, Division
<1> HIDE DEF l, P, a, idx, extra, code
<1>5. CASE l <= P
  <2> DEFINE x == Pow2[l]
             y == Pow2[P - l]
             q == (window \div x) % y
  <2>1. P - l \in Nat /\ l \in 0 .. P
    BY <1>1, <1>5
  <2>2. x \in Nat \ {0} /\ y \in Nat \ {0} /\ a = x * y
    BY <1>1, <1>3, <2>1, Pow2Type, Pow2Split DEF a
  <2> HIDE DEF x, y
  <2>3. window \div x \in Nat /\ window % x \in 0 .. x - 1
    BY <2>2, Division
  <2>4. q \in Nat
    BY <2>2, <2>3, Division
  <2>5. idx = q * x + (window % x)
    BY <2>2, DivisionTwice DEF idx
  <2> HIDE DEF q
  <2>6. idx % x = window % x
    BY <1>4, <2>2, <2>3, <2>4, <2>5, DivisionIs
  <2>7. ~(l > P)
    BY <1>1, <1>5
  <2>8. idx % Pow2[l] = window % Pow2[l]
    BY <2>6 DEF x
  <2>9. s \in Lookup(ls, window) <=> window % Pow2[l] = code
    BY <1>2, <1>5, <2>7, <2>8, Zenon
  <2> QED
    BY <2>9 DEF l, code
<1>6. CASE l > P
  <2> DEFINE y == Pow2[l - P]
             q == extra % y
  <2>1. l - P \in Nat /\ P \in 0 .. l
    BY <1>1, <1>6
  <2>2. y \in Nat \ {0} /\ Pow2[l] = a * y
    BY <1>1, <2>1, Pow2Type, Pow2Split DEF a
  <2> HIDE DEF y
  <2>3. q \in Nat
    BY <1>4, <2>2, Division
  <2>4. window % Pow2[l] = q * a + idx
    BY <1>3, <2>2, DivisionTwice DEF idx, extra
  <2>5. ~(l <= P)
    BY <1>1, <1>6
  <2> HIDE DEF q
  <2>6. code = (code \div a) * a + (code % a)
    BY <1>1, <1>3, Division
  <2>7. code = q * a + idx => code % a = idx /\ code \div a = q
    BY <1>1, <1>3, <1>4, <2>3, DivisionIs
  <2>8. s \in Lookup(ls, window) <=> code % a = idx /\ q = code \div a
    BY <1>2, <1>6, <2>5, Zenon DEF q, y
  <2>9. s \in Lookup(ls, window) <=> window % Pow2[l] = code
    BY <2>4, <2>6, <2>7, <2>8, Zenon
  <2> QED
    BY <2>9 DEF l, code
<1> QED
  BY <1>1, <1>5, <1>6

(* The window begins with the code of s.                                  *)
Matches(ls, s, window) ==
  \A i \in 1 .. ls[s] : Bits(window, MaxBits)[i] = Bits(Code(ls, s), ls[s])[i]

(* decode_symbol finds the symbols whose codes the window begins with.    *)
LEMMA LookupIs ==
  ASSUME NEW ls \in CodeLengths, ~Oversubscribed(ls), NEW window \in Nat
  PROVE  \A s : s \in Lookup(ls, window) <=> s \in UsedIn(ls) /\ Matches(ls, s, window)
<1>1. ASSUME NEW s \in UsedIn(ls)
      PROVE  window % Pow2[ls[s]] = Code(ls, s) <=> Matches(ls, s, window)
  <2> DEFINE l == ls[s]
             v == window % Pow2[l]
             w == Code(ls, s)
  <2>1. l \in 0 .. MaxBits /\ l \in Nat /\ MaxBits \in Nat
    <3>1. \A m, n \in Nat : n \in 1 .. m => n \in Nat /\ n \in 0 .. m
      OBVIOUS
    <3> QED
      BY <3>1, CanonicalIs, HuffmanFacts
  <2>2. Pow2[l] \in Nat \ {0}
    BY <2>1, Pow2Type
  <2>3. v \in 0 .. Pow2[l] - 1 /\ w \in 0 .. Pow2[l] - 1
    BY <2>2, Division, CodeIs
  <2>4. \A i \in 1 .. l : Bits(v, l)[i] = Bits(window, MaxBits)[i]
    BY <2>1, LowBits
  <2>5. Matches(ls, s, window) <=> \A i \in 1 .. l : Bits(window, MaxBits)[i] = Bits(w, l)[i]
    BY DEF Matches
  <2> HIDE DEF l, v, w
  <2>6. Matches(ls, s, window) => v = w
    <3>1. ASSUME Matches(ls, s, window) PROVE v = w
      <4>1. \A i \in 1 .. l : Bits(v, l)[i] = Bits(w, l)[i]
        BY <2>4, <2>5, <3>1
      <4> QED
        BY <2>1, <2>3, <4>1, SameBits
    <3> QED
      BY <3>1
  <2>7. v = w => Matches(ls, s, window)
    BY <2>4, <2>5
  <2> QED
    BY <2>6, <2>7 DEF v, w, l
<1>2. \A s : s \in Lookup(ls, window) => s \in UsedIn(ls)
  BY DEF Lookup, Primary, Secondary
<1> QED
  BY <1>1, <1>2, FoundIs

(* There is at most one.                                                  *)
LEMMA LookupOnce ==
  ASSUME NEW ls \in CodeLengths, ~Oversubscribed(ls), NEW window \in Nat,
         NEW s \in Lookup(ls, window), NEW r \in Lookup(ls, window)
  PROVE  s = r
<1>1. s \in UsedIn(ls) /\ Matches(ls, s, window) /\ r \in UsedIn(ls) /\ Matches(ls, r, window)
  BY LookupIs
<1>2. ls[s] \in Int /\ ls[r] \in Int
  <2>1. \A m, n \in Nat : n \in 1 .. m => n \in Int
    OBVIOUS
  <2> QED
    BY <1>1, <2>1, CanonicalIs, HuffmanFacts
<1>3. ASSUME NEW x \in Lookup(ls, window), NEW y \in Lookup(ls, window), ls[x] <= ls[y]
      PROVE  x = y
  <2>1. x \in UsedIn(ls) /\ Matches(ls, x, window) /\ y \in UsedIn(ls) /\ Matches(ls, y, window)
    BY LookupIs
  <2>2. \A i \in 1 .. ls[x] : i \in 1 .. ls[y]
    <3>1. ls[x] \in 1 .. MaxBits /\ ls[y] \in 1 .. MaxBits /\ MaxBits \in Nat
      BY <2>1, CanonicalIs, HuffmanFacts
    <3> QED
      BY <1>3, <3>1
  <2>3. \A i \in 1 .. ls[x] : Bits(Code(ls, x), ls[x])[i] = Bits(Code(ls, y), ls[y])[i]
    BY <2>1, <2>2 DEF Matches
  <2> QED
    BY <1>3, <2>1, <2>3, NoCodeBegins
<1> QED
  BY <1>2, <1>3

(* The length that is raised is the longest of those below the limit.      *)
LEMMA LengthenedIs ==
  ASSUME NEW ls \in CodeLengths, Oversubscribed(ls)
  PROVE  Lengthened(ls) \in UsedIn(ls) /\ ls[Lengthened(ls)] < MaxBits
<1> DEFINE U == UsedIn(ls)
           short == {s \in U : ls[s] < MaxBits}
           Is(s) == \A r \in short : ls[s] > ls[r] \/ (ls[s] = ls[r] /\ s <= r)
<1>1. /\ \A s \in U : s \in Symbols /\ ls[s] \in 1 .. MaxBits
      /\ IsFiniteSet(U) /\ Cardinality(U) \in Nat
           /\ Cardinality(U) <= Cardinality(Symbols) /\ MaxBits \in Nat
      /\ Cardinality(Symbols) \in Nat
  BY CanonicalIs, UsedIsFinite, HuffmanFacts, FS_CardinalityType
<1>2. short # {}
  <2>1. ASSUME short = {} PROVE FALSE
    <3>1. \A s \in U : ls[s] = MaxBits
      BY <1>1, <2>1
    <3> DEFINE g == Weight(ls)
    <3>2. DOMAIN g = U /\ Kraft(ls) = SumFunction(g)
      BY DEF Weight, Kraft
    <3>3. \A s \in U : g[s] = 1
      <4>1. MaxBits - MaxBits = 0 /\ Pow2[0] = 1
        BY <1>1, Pow2Is
      <4> QED
        BY <3>1, <4>1 DEF Weight
    <3> HIDE DEF g, U
    <3>4. SumFunctionOnSet(g, U) = Cardinality(U) * 1
      <4>1. 1 \in Int
        OBVIOUS
      <4> QED
        BY <1>1, <3>3, <4>1, SumConstant
    <3>5. Kraft(ls) = Cardinality(U)
      BY <1>1, <3>2, <3>4 DEF SumFunction
    <3>6. Kraft(ls) > Pow2[MaxBits] /\ Pow2[MaxBits] \in Nat
      BY HuffmanFacts DEF Oversubscribed
    <3> QED
      BY <1>1, <3>5, <3>6, HuffmanFacts
  <2> QED
    BY <2>1
<1>3. short \in SUBSET U /\ short \in SUBSET Int /\ IsFiniteSet(short)
      /\ \A s \in short : ls[s] \in Int
  <2>1. short \in SUBSET U
    OBVIOUS
  <2>2. short \in SUBSET Int /\ \A s \in short : ls[s] \in Int
    <3>1. U \in SUBSET Symbols /\ Symbols \in SUBSET Int
      BY SymbolsAre DEF UsedIn
    <3>2. \A s \in U : ls[s] \in Int
      <4>1. \A n \in 0 .. MaxBits : n \in Int
        BY HuffmanFacts
      <4> QED
        BY <3>1, <4>1 DEF CodeLengths
    <3> HIDE DEF U
    <3> QED
      BY <3>1, <3>2
  <2> HIDE DEF short, U
  <2> QED
    BY <1>1, <2>1, <2>2, FS_Subset
<1>4. \E s \in short : Is(s)
  <2> HIDE DEF short
  <2> QED
    BY <1>2, <1>3, MostExists
<1>5. Lengthened(ls) = CHOOSE s \in short : Is(s)
  BY DEF Lengthened
<1>6. Lengthened(ls) \in short
  <2> HIDE DEF short, Is
  <2> QED
    BY <1>4, <1>5
<1> QED
  BY <1>6

-----------------------------------------------------------------------------
(***************************************************************************)
(* The entropy coders step by step: types, tables and codes.              *)
(***************************************************************************)

(* A symbol is counted if it occurs.                                      *)
LEMMA CountsAre ==
  ASSUME NEW m \in Seq(Symbols)
  PROVE  /\ Counts(m) \in [Symbols -> Nat]
         /\ \A s \in Symbols : s \in Counted(Counts(m)) <=> \E i \in 1 .. Len(m) : m[i] = s
<1> DEFINE at(s) == {i \in 1 .. Len(m) : m[i] = s}
<1>1. \A s : IsFiniteSet(at(s)) /\ Cardinality(at(s)) \in Nat
  <2>1. IsFiniteSet(1 .. Len(m))
    BY FS_Interval
  <2>2. \A s : at(s) \in SUBSET (1 .. Len(m))
    OBVIOUS
  <2> HIDE DEF at
  <2> QED
    BY <2>1, <2>2, FS_Subset, FS_CardinalityType
<1>2. \A s \in Symbols : Counts(m)[s] = Cardinality(at(s))
  BY DEF Counts
<1>3. Counts(m) = [s \in Symbols |-> Cardinality(at(s))]
  BY DEF Counts
<1>4. \A s : Cardinality(at(s)) > 0 <=> at(s) # {}
  <2> HIDE DEF at
  <2>1. \A s : Cardinality(at(s)) = 0 <=> at(s) = {}
    BY <1>1, FS_EmptySet
  <2> QED
    BY <1>1, <2>1
<1>5. \A s \in Symbols : s \in Counted(Counts(m)) <=> at(s) # {}
  <2> HIDE DEF at
  <2> QED
    BY <1>2, <1>4, SymbolsAre DEF Counted
<1>6. Counts(m) \in [Symbols -> Nat]
  <2> HIDE DEF at
  <2> QED
    BY <1>1, <1>3
<1> QED
  BY <1>5, <1>6

-----------------------------------------------------------------------------
(* A message is what an encoder may be given, with its end.                *)
MessageEnds ==
  message # <<>> =>
    /\ message[Len(message)] = Eob
    /\ \A i \in 1 .. Len(message) - 1 : message[i] # Eob
    /\ expectedLen = Len(message) - 1

(* Which loops belong to which coder, and what is untouched before the    *)
(* decoder starts.                                                        *)
CallsInOrder ==
  /\ phase \in {"merge", "limit"} => coder = "huffman"
  /\ phase \in {"normalize", "spread", "readState"} => coder = "ans"
  /\ phase \in {"merge", "limit", "normalize", "write"} => message # <<>>
  /\ phase \notin {"read", "done"} => read = 0 /\ delivered = <<>>
  /\ phase # "done" => outcome = "none" /\ state \in States

(* The ANS table: only symbols of the message have a share, the shares    *)
(* add up to the table, and while it is filled each symbol has got the    *)
(* slots of its turns.                                                    *)
TableGrows ==
  coder = "ans" =>
    /\ message # <<>> => Counted(norm) = Counted(Counts(message))
    /\ phase \in {"normalize", "descriptors"} => \A i \in 0 .. TableSize - 1 : slots[i] = Free
    /\ phase \in {"spread", "write", "readState", "read"} => Total(norm) = TableSize
    /\ phase = "spread" => \A s \in Symbols :
         Cardinality(SlotsOf(slots, s)) = Taken(norm, s, Cardinality(Placed))
    /\ phase \in {"write", "readState", "read"} => Filled(slots, norm)

(* The lengths of the Huffman codes: within the limit once limited, and   *)
(* never oversubscribed where codes are written or read.                  *)
LengthsAre ==
  /\ coder = "ans" => lengths = None
  /\ coder = "huffman" =>
       /\ phase \in {"limit", "write", "descriptors", "read"} => lengths \in CodeLengths
       /\ phase \in {"write", "read"} => ~Oversubscribed(lengths)
       /\ phase = "descriptors" /\ message # <<>> => ~Oversubscribed(lengths)

(* With these the types, the tables and the codes are inductive.          *)
EntropyInvariant ==
  EntropyTypeOK /\ MessageEnds /\ CallsInOrder /\ TableGrows /\ LengthsAre

LEMMA NoLengths == None \in CodeLengths /\ None \in [Symbols -> Nat]
  BY HuffmanFacts DEF None, CodeLengths

LEMMA LengthsAreNat == ASSUME NEW ls \in CodeLengths PROVE ls \in [Symbols -> Nat]
<1>1. \A l \in 0 .. MaxBits : l \in Nat
  BY HuffmanFacts
<1> QED
  BY <1>1 DEF CodeLengths

LEMMA EmptyTable ==
  ASSUME NEW sl, \A i \in 0 .. TableSize - 1 : sl[i] = Free
  PROVE  \A s \in Symbols : SlotsOf(sl, s) = {}
  BY TableFacts DEF SlotsOf

(* It holds when a call begins, of an encoder or of a decoder.            *)
LEMMA EntropyStarts == EntropyInit => EntropyInvariant
<1> SUFFICES ASSUME EntropyInit PROVE EntropyInvariant
  OBVIOUS
<1>1. /\ written = 0 /\ slots = [i \in 0 .. TableSize - 1 |-> Free] /\ pos = 0
           /\ state = TableSize
      /\ whole = TRUE /\ read = 0 /\ delivered = <<>> /\ outcome = "none"
  BY DEF EntropyInit
<1>2. state \in States /\ state \in Nat /\ pos \in 0 .. TableSize - 1
  BY <1>1, TableFacts
<1>3. slots \in [0 .. TableSize - 1 -> Symbols \cup {Free}]
      /\ \A i \in 0 .. TableSize - 1 : slots[i] = Free
  BY <1>1
<1>4. delivered \in Seq(Symbols) /\ whole \in BOOLEAN
  BY <1>1
<1>5. CASE InitEncoder
  <2>1. PICK m \in Messages : message = Append(m, Eob)
    BY <1>5 DEF InitEncoder
  <2>2. m \in Seq(Symbols \ {Eob}) /\ Eob \in Symbols
    BY <2>1, EntropyAssumption
  <2>3. message \in Seq(Symbols) /\ Len(message) = Len(m) + 1 /\ Len(m) \in Nat
        /\ message # <<>>
    BY <2>1, <2>2
  <2>4. message[Len(message)] = Eob /\ \A i \in 1 .. Len(message) - 1 : message[i] # Eob
    BY <2>1, <2>2, <2>3
  <2>5. expectedLen = Len(message) - 1 /\ expectedLen \in Nat /\ lengths = None /\ bits = <<>>
    BY <1>5, <2>3 DEF InitEncoder
  <2>6. written \in 0 .. Len(message) /\ bits \in Seq({0, 1}) /\ read \in 0 .. Len(bits)
    BY <1>1, <2>3, <2>5
  <2>7. MessageEnds
    BY <2>4, <2>5 DEF MessageEnds
  <2>8. \/ coder = "huffman" /\ phase = "merge" /\ norm = None
        \/ coder = "ans" /\ phase = "normalize" /\ norm = Rounded(Counts(message))
    BY <1>5 DEF InitEncoder
  <2>9. norm \in Frequencies /\ (coder = "ans" => Counted(norm) = Counted(Counts(message)))
    <3>1. None \in Frequencies
      BY TableFacts DEF None, Frequencies
    <3>2. Rounded(Counts(message)) \in Frequencies
          /\ Counted(Rounded(Counts(message))) = Counted(Counts(message))
      BY <2>3, CountsAre, RoundedIs
    <3> QED
      BY <2>8, <3>1, <3>2
  <2>10. EntropyTypeOK
    BY <1>1, <1>2, <1>3, <1>4, <2>3, <2>5, <2>6, <2>8, <2>9, NoLengths
      DEF EntropyTypeOK, Frequencies
  <2>11. CallsInOrder
    BY <1>1, <1>2, <2>3, <2>8 DEF CallsInOrder
  <2>12. TableGrows
    BY <1>3, <2>8, <2>9 DEF TableGrows
  <2>13. LengthsAre
    BY <2>5, <2>8 DEF LengthsAre
  <2> QED
    BY <2>7, <2>10, <2>11, <2>12, <2>13 DEF EntropyInvariant
<1>6. CASE InitDecoder
  <2>1. /\ message = <<>> /\ expectedLen \in ExpectedLens /\ bits \in LonePayloads
             /\ phase = "descriptors"
        /\ \/ coder = "huffman" /\ lengths \in Lengths /\ norm = None
           \/ coder = "ans" /\ lengths = None /\ norm \in Norms
    BY <1>6 DEF InitDecoder
  <2>2. expectedLen \in Nat /\ bits \in Seq({0, 1}) /\ Lengths \subseteq CodeLengths
        /\ Norms \subseteq Frequencies
    BY <2>1, EntropyAssumption DEF CodeLengths, Frequencies
  <2>3. norm \in Frequencies /\ lengths \in CodeLengths
    <3>1. None \in Frequencies
      BY TableFacts DEF None, Frequencies
    <3> QED
      BY <2>1, <2>2, <3>1, NoLengths
  <2>4. message \in Seq(Symbols) /\ written \in 0 .. Len(message) /\ read \in 0 .. Len(bits)
    BY <1>1, <2>1, <2>2
  <2>5. EntropyTypeOK
    BY <1>1, <1>2, <1>3, <1>4, <2>1, <2>2, <2>3, <2>4, LengthsAreNat
      DEF EntropyTypeOK, Frequencies
  <2>6. CallsInOrder
    BY <1>1, <1>2, <2>1 DEF CallsInOrder
  <2>7. TableGrows
    BY <1>3, <2>1, <2>3 DEF TableGrows
  <2>8. LengthsAre
    BY <2>1, <2>3 DEF LengthsAre
  <2>9. MessageEnds
    BY <2>1 DEF MessageEnds
  <2> QED
    BY <2>5, <2>6, <2>7, <2>8, <2>9 DEF EntropyInvariant
<1> QED
  BY <1>5, <1>6 DEF EntropyInit

-----------------------------------------------------------------------------
(* No step changes what the call was given.                               *)
LEMMA InputsStay ==
  ASSUME [EntropyNext]_entropyVars
  PROVE  coder' = coder /\ message' = message /\ expectedLen' = expectedLen
<1> USE DEF entropyVars, treeVars, tableVars, writeVars, readVars
<1>1. CASE Build
  BY <1>1 DEF Build, Merge, Merged, Limit, Limited, Decrement, Increment, Normalized,
      Spread, SpreadDone
<1>2. CASE Write
  BY <1>2 DEF Write, WriteHuffman, WriteAns, Flush
<1>3. CASE DecodeStep
  BY <1>3 DEF DecodeStep, CheckDescriptors, ReadState, ReadHuffman, ReadNoCode, ReadAns,
      ReadAnsEof
<1>4. CASE Finished \/ UNCHANGED entropyVars
  BY <1>4 DEF Finished
<1> QED
  BY <1>1, <1>2, <1>3, <1>4 DEF EntropyNext

LEMMA MessageStays ==
  ASSUME MessageEnds, [EntropyNext]_entropyVars
  PROVE  MessageEnds'
BY InputsStay DEF MessageEnds

(* Each action keeps it: joining subtrees leaves the lengths numbers,     *)
(* ...                                                                    *)
LEMMA MergeKeeps ==
  ASSUME EntropyInvariant, Merge
  PROVE  EntropyTypeOK' /\ CallsInOrder' /\ TableGrows' /\ LengthsAre'
<1> USE DEF treeVars, tableVars, writeVars, readVars
<1>1. /\ phase = "merge" /\ coder = "huffman" /\ lengths \in [Symbols -> Nat]
      /\ UNCHANGED <<phase, coder, tableVars, state, writeVars, whole, expectedLen, readVars>>
  BY DEF Merge, EntropyInvariant, CallsInOrder, EntropyTypeOK
<1>2. lengths' \in [Symbols -> Nat]
  BY <1>1 DEF Merge
<1>3. EntropyTypeOK'
  BY <1>1, <1>2 DEF EntropyInvariant, EntropyTypeOK
<1>4. CallsInOrder' /\ TableGrows' /\ LengthsAre'
  BY <1>1 DEF EntropyInvariant, CallsInOrder, TableGrows, LengthsAre
<1> QED
  BY <1>3, <1>4

(* Clamped lengths are within the limit.                                  *)
LEMMA ClampedType == ASSUME NEW ls \in [Symbols -> Nat] PROVE Clamped(ls) \in CodeLengths
<1>1. \A s \in Symbols : Clamped(ls)[s] \in 0 .. MaxBits
  BY HuffmanFacts DEF Clamped
<1>2. Clamped(ls) = [s \in Symbols |-> Clamped(ls)[s]]
  BY DEF Clamped
<1> HIDE DEF Clamped
<1> QED
  BY <1>1, <1>2 DEF CodeLengths

LEMMA MergedKeeps ==
  ASSUME EntropyInvariant, Merged
  PROVE  EntropyTypeOK' /\ CallsInOrder' /\ TableGrows' /\ LengthsAre'
<1> USE DEF treeVars, tableVars, writeVars, readVars
<1>1. /\ phase = "merge" /\ phase' = "limit" /\ coder = "huffman"
           /\ lengths \in [Symbols -> Nat]
      /\ UNCHANGED <<coder, heap, tableVars, state, writeVars, whole, expectedLen, readVars>>
      /\ message # <<>>
  BY DEF Merged, EntropyInvariant, CallsInOrder, EntropyTypeOK
<1>2. lengths' \in CodeLengths
  <2> DEFINE depths == [s \in Symbols |->
                         IF heap = Leaves(Counts(message)) /\ Counts(message)[s] > 0
                           THEN 1 ELSE lengths[s]]
  <2>1. depths \in [Symbols -> Nat]
    BY <1>1
  <2>2. lengths' = Clamped(depths)
    BY DEF Merged
  <2> HIDE DEF depths
  <2> QED
    BY <2>1, <2>2, ClampedType
<1>3. EntropyTypeOK'
  BY <1>1, <1>2, LengthsAreNat DEF EntropyInvariant, EntropyTypeOK
<1>4. CallsInOrder' /\ TableGrows' /\ LengthsAre'
  BY <1>1, <1>2 DEF EntropyInvariant, CallsInOrder, TableGrows, LengthsAre
<1> QED
  BY <1>3, <1>4

(* Lengthening a code keeps it within the limit.                          *)
LEMMA LimitKeeps ==
  ASSUME EntropyInvariant, Limit
  PROVE  EntropyTypeOK' /\ CallsInOrder' /\ TableGrows' /\ LengthsAre'
<1> USE DEF treeVars, tableVars, writeVars, readVars
<1>1. /\ phase = "limit" /\ coder = "huffman" /\ lengths \in CodeLengths
           /\ Oversubscribed(lengths)
      /\ lengths' = [lengths EXCEPT ![Lengthened(lengths)] = @ + 1]
      /\ UNCHANGED <<phase, coder, heap, tableVars, state, writeVars, whole, expectedLen,
                     readVars>>
  BY DEF Limit, EntropyInvariant, CallsInOrder, LengthsAre
<1>2. lengths' \in CodeLengths
  <2> DEFINE s == Lengthened(lengths)
  <2>1. s \in Symbols /\ lengths[s] \in 0 .. MaxBits /\ lengths[s] < MaxBits
    BY <1>1, LengthenedIs DEF UsedIn, CodeLengths
  <2> HIDE DEF s
  <2>2. lengths[s] + 1 \in 0 .. MaxBits
    BY <2>1, HuffmanFacts
  <2> QED
    BY <1>1, <2>1, <2>2 DEF CodeLengths, s
<1>3. EntropyTypeOK'
  BY <1>1, <1>2, LengthsAreNat DEF EntropyInvariant, EntropyTypeOK
<1>4. CallsInOrder' /\ TableGrows' /\ LengthsAre'
  BY <1>1, <1>2 DEF EntropyInvariant, CallsInOrder, TableGrows, LengthsAre
<1> QED
  BY <1>3, <1>4

LEMMA LimitedKeeps ==
  ASSUME EntropyInvariant, Limited
  PROVE  EntropyTypeOK' /\ CallsInOrder' /\ TableGrows' /\ LengthsAre'
<1> USE DEF treeVars, tableVars, writeVars, readVars
<1>1. /\ phase = "limit" /\ phase' = "write" /\ coder = "huffman" /\ lengths \in CodeLengths
      /\ ~Oversubscribed(lengths) /\ message # <<>>
      /\ UNCHANGED <<coder, heap, lengths, tableVars, state, writeVars, whole,
                     expectedLen, readVars>>
  BY DEF Limited, EntropyInvariant, CallsInOrder, LengthsAre
<1>2. EntropyTypeOK'
  BY <1>1, LengthsAreNat DEF EntropyInvariant, EntropyTypeOK, CodeLengths
<1>3. CallsInOrder' /\ TableGrows' /\ LengthsAre'
  <2>1. ~Oversubscribed(lengths')
    BY <1>1
  <2> QED
    BY <1>1, <2>1 DEF EntropyInvariant, CallsInOrder, TableGrows, LengthsAre
<1> QED
  BY <1>2, <1>3

-----------------------------------------------------------------------------
(* The counts of the message that is being encoded.                       *)
LEMMA CountsNow ==
  ASSUME EntropyInvariant, message # <<>>
  PROVE  /\ Counts(message) \in [Symbols -> Nat] /\ Counted(Counts(message)) # {}
         /\ \A i \in 1 .. Len(message) : message[i] \in Counted(Counts(message))
         /\ Len(message) \in Nat \ {0} /\ message \in Seq(Symbols)
<1>1. message \in Seq(Symbols) /\ message[Len(message)] = Eob /\ Len(message) \in Nat \ {0}
  BY DEF EntropyInvariant, EntropyTypeOK, MessageEnds
<1>2. \A i \in 1 .. Len(message) : message[i] \in Counted(Counts(message))
  <2>1. \A i \in 1 .. Len(message) : message[i] \in Symbols
    BY <1>1
  <2> QED
    BY <1>1, <2>1, CountsAre
<1>3. message[Len(message)] \in Counted(Counts(message))
  BY <1>1, <1>2
<1> QED
  BY <1>1, <1>2, <1>3, CountsAre

(* A slot that is taken back was not a symbol's last.                     *)
LEMMA DecrementKeeps ==
  ASSUME EntropyInvariant, Decrement
  PROVE  EntropyTypeOK' /\ CallsInOrder' /\ TableGrows' /\ LengthsAre'
<1> USE DEF treeVars, tableVars, writeVars, readVars
<1>1. /\ phase = "normalize" /\ coder = "ans" /\ norm \in Frequencies /\ Total(norm) > TableSize
      /\ norm' = [norm EXCEPT ![Richest(norm)] = @ - 1]
      /\ UNCHANGED <<phase, coder, heap, lengths, slots, pos, state, writeVars, whole,
                     expectedLen, readVars>>
  BY DEF Decrement, EntropyInvariant, CallsInOrder, EntropyTypeOK, Frequencies
<1> DEFINE s == Richest(norm)
<1>2. s \in Symbols /\ norm[s] \in 0 .. TableSize /\ norm[s] >= 2
  BY <1>1, RichestIs DEF Frequencies
<1> HIDE DEF s
<1>3. norm[s] - 1 \in 0 .. TableSize /\ norm[s] - 1 > 0 /\ norm[s] > 0
  BY <1>2, TableFacts
<1>4. norm' \in Frequencies
  BY <1>1, <1>2, <1>3 DEF Frequencies, s
<1>5. Counted(norm') = Counted(norm)
  <2>1. \A r \in Symbols : norm'[r] > 0 <=> norm[r] > 0
    BY <1>1, <1>2, <1>3 DEF Frequencies, s
  <2> QED
    BY <2>1, SymbolsAre DEF Counted
<1>6. EntropyTypeOK'
  BY <1>1, <1>4 DEF EntropyInvariant, EntropyTypeOK, Frequencies
<1>7. CallsInOrder' /\ TableGrows' /\ LengthsAre'
  BY <1>1, <1>5 DEF EntropyInvariant, CallsInOrder, TableGrows, LengthsAre
<1> QED
  BY <1>6, <1>7

LEMMA IncrementKeeps ==
  ASSUME EntropyInvariant, Increment
  PROVE  EntropyTypeOK' /\ CallsInOrder' /\ TableGrows' /\ LengthsAre'
<1> USE DEF treeVars, tableVars, writeVars, readVars
<1>1. /\ phase = "normalize" /\ coder = "ans" /\ norm \in Frequencies /\ Total(norm) < TableSize
      /\ norm' = [norm EXCEPT ![Neediest(Counts(message), norm)] = @ + 1]
      /\ UNCHANGED <<phase, coder, heap, lengths, slots, pos, state, writeVars, whole,
                     expectedLen, readVars>>
      /\ message # <<>> /\ Counted(norm) = Counted(Counts(message))
  BY DEF Increment, EntropyInvariant, CallsInOrder, EntropyTypeOK, Frequencies, TableGrows
<1> DEFINE s == Neediest(Counts(message), norm)
<1>2. s \in Counted(norm)
  BY <1>1, CountsNow, NeediestIs
<1> HIDE DEF s
<1>3. s \in Symbols /\ norm[s] > 0 /\ norm[s] \in 0 .. TableSize
  BY <1>1, <1>2, SymbolsAre DEF Counted, Frequencies
<1>4. norm[s] <= Total(norm) /\ Total(norm) \in Nat
  BY <1>1, <1>3, FrequenciesAreCounts, TotalIs
<1>5. norm[s] + 1 \in 0 .. TableSize /\ norm[s] + 1 > 0
  BY <1>1, <1>3, <1>4, TableFacts
<1>6. norm' \in Frequencies
  BY <1>1, <1>3, <1>5 DEF Frequencies, s
<1>7. Counted(norm') = Counted(norm)
  <2>1. \A r \in Symbols : norm'[r] > 0 <=> norm[r] > 0
    BY <1>1, <1>3, <1>5 DEF Frequencies, s
  <2> QED
    BY <2>1, SymbolsAre DEF Counted
<1>8. EntropyTypeOK'
  BY <1>1, <1>6 DEF EntropyInvariant, EntropyTypeOK, Frequencies
<1>9. CallsInOrder' /\ TableGrows' /\ LengthsAre'
  BY <1>1, <1>7 DEF EntropyInvariant, CallsInOrder, TableGrows, LengthsAre
<1> QED
  BY <1>8, <1>9

(* An empty table is filled as far as nobody's turn has come.             *)
LEMMA NothingPlaced ==
  ASSUME slots \in [0 .. TableSize - 1 -> Symbols \cup {Free}],
         \A i \in 0 .. TableSize - 1 : slots[i] = Free,
         norm \in Frequencies, Total(norm) = TableSize
  PROVE  \A s \in Symbols : Cardinality(SlotsOf(slots, s)) = Taken(norm, s, Cardinality(Placed))
<1>1. Placed = {}
  BY DEF Placed
<1>2. Cardinality(Placed) = 0
  BY <1>1, FS_EmptySet
<1>3. ASSUME NEW s \in Symbols PROVE Cardinality(SlotsOf(slots, s)) = Taken(norm, s, 0)
  BY EmptyTable, FS_EmptySet, TakenAtEnd
<1> QED
  BY <1>2, <1>3

LEMMA NormalizedKeeps ==
  ASSUME EntropyInvariant, Normalized
  PROVE  EntropyTypeOK' /\ CallsInOrder' /\ TableGrows' /\ LengthsAre'
<1> USE DEF treeVars, tableVars, writeVars, readVars
<1>1. /\ phase = "normalize" /\ phase' = "spread" /\ coder = "ans"
           /\ norm \in Frequencies /\ Total(norm) = TableSize
      /\ slots \in [0 .. TableSize - 1 -> Symbols \cup {Free}]
      /\ UNCHANGED <<coder, heap, lengths, norm, slots, pos, state, writeVars, whole,
                     expectedLen, readVars>>
      /\ \A i \in 0 .. TableSize - 1 : slots[i] = Free
  BY DEF Normalized, EntropyInvariant, CallsInOrder, EntropyTypeOK, Frequencies, TableGrows
<1>2. \A s \in Symbols : Cardinality(SlotsOf(slots, s)) = Taken(norm, s, Cardinality(Placed))
  BY <1>1, NothingPlaced
<1>3. Placed' = Placed
  BY <1>1 DEF Placed
<1>4. EntropyTypeOK'
  BY <1>1 DEF EntropyInvariant, EntropyTypeOK
<1>5. CallsInOrder' /\ LengthsAre'
  BY <1>1 DEF EntropyInvariant, CallsInOrder, LengthsAre
<1>6. TableGrows'
  BY <1>1, <1>2, <1>3 DEF EntropyInvariant, TableGrows
<1> QED
  BY <1>4, <1>5, <1>6

(* The slots that have been given out.                                    *)
LEMMA PlacedIs ==
  ASSUME EntropyTypeOK
  PROVE  /\ Placed \in SUBSET (0 .. TableSize - 1) /\ IsFiniteSet(Placed)
         /\ Cardinality(Placed) \in Nat /\ Cardinality(Placed) <= TableSize
         /\ Cardinality(Placed) = TableSize => Placed = 0 .. TableSize - 1
         /\ Placed = {i \in 0 .. TableSize - 1 : slots[i] # Free}
<1>1. Placed = {i \in 0 .. TableSize - 1 : slots[i] # Free}
  BY DEF Placed, EntropyTypeOK
<1> DEFINE all == 0 .. TableSize - 1
<1>2. IsFiniteSet(all) /\ Cardinality(all) = TableSize
  <2>1. 0 \in Int /\ TableSize - 1 \in Int /\ TableSize >= 1 /\ TableSize \in Int
    BY TableFacts
  <2>2. IsFiniteSet(all)
        /\ Cardinality(all) = IF 0 > TableSize - 1 THEN 0 ELSE (TableSize - 1) - 0 + 1
    BY <2>1, FS_Interval
  <2> HIDE DEF all
  <2> QED
    BY <2>1, <2>2
<1>3. Placed \in SUBSET all
  BY <1>1
<1>4. IsFiniteSet(Placed) /\ Cardinality(Placed) <= TableSize /\ Cardinality(Placed) \in Nat
      /\ (Cardinality(Placed) = TableSize => Placed = all)
  <2> HIDE DEF all
  <2>1. IsFiniteSet(Placed) /\ Cardinality(Placed) <= Cardinality(all)
        /\ (Cardinality(all) = Cardinality(Placed) => all = Placed)
    BY <1>2, <1>3, FS_Subset
  <2> QED
    BY <1>2, <2>1, FS_CardinalityType
<1> QED
  BY <1>1, <1>3, <1>4

(* The step is a number.                                                  *)
LEMMA StepType == Step \in Nat
<1>1. TableSize \div 2 \in Nat /\ TableSize \div 8 \in Nat
  <2>1. TableSize \in Nat /\ 2 \in Nat \ {0} /\ 8 \in Nat \ {0}
    BY TableFacts
  <2> QED
    BY <2>1, Division
<1> QED
  BY <1>1 DEF Step

(* A free slot is given to the symbol whose turn it is.                   *)
LEMMA SpreadKeeps ==
  ASSUME EntropyInvariant, Spread
  PROVE  EntropyTypeOK' /\ CallsInOrder' /\ TableGrows' /\ LengthsAre'
<1> USE DEF treeVars, tableVars, writeVars, readVars
<1>1. /\ phase = "spread" /\ coder = "ans" /\ norm \in Frequencies /\ Total(norm) = TableSize
      /\ slots \in [0 .. TableSize - 1 -> Symbols \cup {Free}] /\ pos \in 0 .. TableSize - 1
      /\ UNCHANGED <<phase, coder, heap, lengths, norm, state, writeVars, whole,
                     expectedLen, readVars>>
      /\ \A s \in Symbols : Cardinality(SlotsOf(slots, s)) = Taken(norm, s, Cardinality(Placed))
      /\ pos' = (pos + Step) % TableSize /\ Cardinality(Placed) < TableSize
      /\ slots' = IF pos \in Placed THEN slots
           ELSE [slots EXCEPT ![pos] = Turn(norm, Cardinality(Placed))]
  BY DEF Spread, EntropyInvariant, CallsInOrder, EntropyTypeOK, Frequencies, TableGrows, Turn
<1> DEFINE p == Cardinality(Placed)
           t == Turn(norm, p)
<1>2. pos' \in 0 .. TableSize - 1
  <2>1. pos + Step \in Nat /\ TableSize \in Nat \ {0}
    BY <1>1, StepType, TableFacts
  <2>2. (pos + Step) % TableSize \in 0 .. TableSize - 1
    BY <2>1, Division
  <2> QED
    BY <1>1, <2>2
<1>3. p \in 0 .. TableSize - 1 /\ Placed \in SUBSET (0 .. TableSize - 1) /\ IsFiniteSet(Placed)
  BY <1>1, PlacedIs, TableFacts DEF EntropyInvariant
<1>4. Placed = {i \in 0 .. TableSize - 1 : slots[i] # Free}
  BY PlacedIs DEF EntropyInvariant
<1> HIDE DEF p
<1>5. t \in Symbols /\ t # Free
  BY <1>1, <1>3, TurnIs, TableFacts
<1> HIDE DEF t
<1>6. slots' \in [0 .. TableSize - 1 -> Symbols \cup {Free}]
  BY <1>1, <1>5 DEF t, p
<1>7. \A s \in Symbols : Cardinality(SlotsOf(slots', s)) = Taken(norm, s, Cardinality(Placed'))
  <2>1. CASE pos \in Placed
    <3>1. slots' = slots /\ Placed' = Placed
      BY <1>1, <2>1 DEF Placed
    <3> QED
      BY <1>1, <3>1
  <2>2. CASE pos \notin Placed
    <3>1. slots' = [slots EXCEPT ![pos] = t] /\ slots[pos] = Free
      BY <1>1, <1>4, <2>2 DEF t, p
    <3>2. Placed' = Placed \cup {pos}
      <4>1. Placed' = {i \in 0 .. TableSize - 1 : slots'[i] # Free}
        BY <1>6 DEF Placed
      <4> QED
        BY <1>1, <1>4, <1>5, <3>1, <4>1
    <3>3. Cardinality(Placed') = p + 1
      BY <1>3, <2>2, <3>2, FS_AddElement DEF p
    <3>4. ASSUME NEW s \in Symbols PROVE Cardinality(SlotsOf(slots', s)) = Taken(norm, s, p + 1)
      <4>1. IsFiniteSet(SlotsOf(slots, s)) /\ Cardinality(SlotsOf(slots, s)) = Taken(norm, s, p)
        BY <1>1, SlotsAreFinite DEF p
      <4>2. CASE s = t
        <5>1. SlotsOf(slots', s) = SlotsOf(slots, s) \cup {pos} /\ pos \notin SlotsOf(slots, s)
          BY <1>1, <1>5, <3>1, <4>2 DEF SlotsOf
        <5>2. Cardinality(SlotsOf(slots', s)) = Cardinality(SlotsOf(slots, s)) + 1
          BY <4>1, <5>1, FS_AddElement
        <5>3. Taken(norm, s, p + 1) = Taken(norm, s, p) + 1
          BY <1>1, <1>3, <4>2, TakenNext DEF t
        <5> QED
          BY <4>1, <5>2, <5>3
      <4>3. CASE s # t
        <5>1. SlotsOf(slots', s) = SlotsOf(slots, s)
          <6>1. s # Free
            BY TableFacts
          <6> QED
            BY <1>1, <3>1, <4>3, <6>1 DEF SlotsOf
        <5>2. Taken(norm, s, p + 1) = Taken(norm, s, p)
          BY <1>1, <1>3, <4>3, TakenNext DEF t
        <5> QED
          BY <4>1, <5>1, <5>2
      <4> QED
        BY <4>2, <4>3
    <3> QED
      BY <3>3, <3>4
  <2> QED
    BY <2>1, <2>2
<1>8. EntropyTypeOK'
  BY <1>1, <1>2, <1>6 DEF EntropyInvariant, EntropyTypeOK
<1>9. CallsInOrder' /\ LengthsAre'
  BY <1>1 DEF EntropyInvariant, CallsInOrder, LengthsAre
<1>10. TableGrows'
  BY <1>1, <1>7 DEF EntropyInvariant, TableGrows
<1> QED
  BY <1>8, <1>9, <1>10

(* Once all slots are given out, the table is filled.                     *)
LEMMA SpreadDoneKeeps ==
  ASSUME EntropyInvariant, SpreadDone
  PROVE  EntropyTypeOK' /\ CallsInOrder' /\ TableGrows' /\ LengthsAre'
<1> USE DEF treeVars, tableVars, writeVars, readVars
<1>1. /\ phase = "spread" /\ coder = "ans" /\ norm \in Frequencies /\ Total(norm) = TableSize
      /\ slots \in [0 .. TableSize - 1 -> Symbols \cup {Free}]
      /\ UNCHANGED <<coder, heap, lengths, norm, slots, pos, state, writeVars, whole,
                     expectedLen, readVars>>
      /\ \A s \in Symbols : Cardinality(SlotsOf(slots, s)) = Taken(norm, s, Cardinality(Placed))
      /\ Cardinality(Placed) = TableSize
      /\ phase' = IF message = <<>> THEN "readState" ELSE "write"
  BY DEF SpreadDone, EntropyInvariant, CallsInOrder, EntropyTypeOK, Frequencies, TableGrows
<1>2. \A i \in 0 .. TableSize - 1 : slots[i] # Free
  BY <1>1, PlacedIs DEF EntropyInvariant
<1>3. Filled(slots, norm)
  <2>1. slots \in [0 .. TableSize - 1 -> Symbols]
    BY <1>1, <1>2
  <2>2. \A s \in Symbols : Cardinality(SlotsOf(slots, s)) = norm[s]
    BY <1>1, TakenAtEnd
  <2> QED
    BY <1>1, <2>1, <2>2 DEF Filled, Frequencies
<1>4. EntropyTypeOK'
  <2>1. lengths \in [Symbols -> 0 .. MaxBits]
    BY <1>1, NoLengths DEF EntropyInvariant, LengthsAre, CodeLengths
  <2> QED
    BY <1>1, <2>1 DEF EntropyInvariant, EntropyTypeOK
<1>5. CallsInOrder' /\ LengthsAre'
  BY <1>1 DEF EntropyInvariant, CallsInOrder, LengthsAre
<1>6. TableGrows'
  BY <1>1, <1>3 DEF EntropyInvariant, TableGrows
<1> QED
  BY <1>4, <1>5, <1>6

-----------------------------------------------------------------------------
(* Every symbol of the message has a slot.                                *)
LEMMA MessageSymbol ==
  ASSUME EntropyInvariant, message # <<>>, NEW i \in 1 .. Len(message)
  PROVE  /\ message[i] \in Symbols
         /\ coder = "ans" => norm[message[i]] \in 1 .. TableSize /\ norm[message[i]] # 0
<1>1. message[i] \in Symbols /\ message[i] \in Counted(Counts(message))
  BY CountsNow
<1>2. coder = "ans" => message[i] \in Counted(norm)
  BY <1>1 DEF EntropyInvariant, TableGrows
<1>3. norm[message[i]] \in 0 .. TableSize
  BY <1>1 DEF EntropyInvariant, EntropyTypeOK
<1> QED
  BY <1>1, <1>2, <1>3, TableFacts DEF Counted

LEMMA ConcatBits ==
  ASSUME NEW a \in Seq(Bit), NEW b \in Seq(Bit)
  PROVE  a \o b \in Seq({0, 1}) /\ Len(a \o b) = Len(a) + Len(b)
  BY ConcatLength DEF Bit

LEMMA WriteHuffmanKeeps ==
  ASSUME EntropyInvariant, WriteHuffman
  PROVE  EntropyTypeOK' /\ CallsInOrder' /\ TableGrows' /\ LengthsAre'
<1> USE DEF treeVars, tableVars, writeVars, readVars
<1> DEFINE s == message[written + 1]
           b == Bits(Code(lengths, s), lengths[s])
<1>1. /\ phase = "write" /\ coder = "huffman" /\ lengths \in CodeLengths
           /\ ~Oversubscribed(lengths)
      /\ written < Len(message) /\ bits' = bits \o b /\ written' = written + 1
      /\ UNCHANGED <<phase, coder, treeVars, tableVars, state, message, whole,
                     expectedLen, readVars>>
      /\ message # <<>> /\ read = 0 /\ bits \in Seq(Bit) /\ written \in 0 .. Len(message)
      /\ message \in Seq(Symbols)
  BY DEF WriteHuffman, EntropyInvariant, CallsInOrder, LengthsAre, EntropyTypeOK, Bit
<1>2. s \in Symbols
  BY <1>1
<1>3. b \in Seq(Bit)
  <2>1. lengths[s] \in Nat
    BY <1>1, <1>2, LengthsAreNat
  <2>2. CASE lengths[s] > 0
    <3>1. s \in UsedIn(lengths)
      BY <1>2, <2>2 DEF UsedIn
    <3>2. Code(lengths, s) \in Nat
      BY <1>1, <3>1, CodeIs
    <3> HIDE DEF s
    <3> QED
      BY <2>1, <3>2, BitsType
  <2>3. CASE lengths[s] = 0
    <3>1. b = <<>>
      BY <2>3 DEF Bits
    <3> QED
      BY <3>1
  <2> QED
    BY <2>1, <2>2, <2>3
<1> HIDE DEF b, s
<1>4. bits' \in Seq({0, 1}) /\ read' \in 0 .. Len(bits') /\ written' \in 0 .. Len(message')
  BY <1>1, <1>3, ConcatBits
<1>5. EntropyTypeOK'
  BY <1>1, <1>4 DEF EntropyInvariant, EntropyTypeOK
<1>6. CallsInOrder' /\ TableGrows' /\ LengthsAre'
  BY <1>1 DEF EntropyInvariant, CallsInOrder, TableGrows, LengthsAre
<1> QED
  BY <1>5, <1>6

LEMMA WriteAnsKeeps ==
  ASSUME EntropyInvariant, WriteAns
  PROVE  EntropyTypeOK' /\ CallsInOrder' /\ TableGrows' /\ LengthsAre'
<1> USE DEF treeVars, tableVars, writeVars, readVars
<1> DEFINE s == message[Len(message) - written]
           n == EncodeBits(norm, s, state)
           b == Bits(state % Pow2[n], n)
<1>1. /\ phase = "write" /\ coder = "ans" /\ Filled(slots, norm) /\ state \in States
      /\ written < Len(message) /\ bits' = b \o bits /\ written' = written + 1
      /\ state' = NextState(slots, s, state \div Pow2[n] - norm[s])
      /\ UNCHANGED <<phase, coder, treeVars, tableVars, message, whole, expectedLen, readVars>>
      /\ message # <<>> /\ read = 0 /\ bits \in Seq(Bit) /\ written \in 0 .. Len(message)
      /\ message \in Seq(Symbols)
  BY DEF WriteAns, EntropyInvariant, CallsInOrder, TableGrows, EntropyTypeOK, Bit
<1>2. Len(message) - written \in 1 .. Len(message)
  BY <1>1
<1>3. s \in Symbols /\ norm[s] # 0
  BY <1>1, <1>2, MessageSymbol
<1>4. n \in 0 .. TableLog /\ state' \in States /\ (state % Pow2[n]) \in 0 .. Pow2[n] - 1
  <2> HIDE DEF s
  <2> QED
    BY <1>1, <1>3, StepBack
<1>5. n \in Nat /\ Pow2[n] \in Nat /\ (state % Pow2[n]) \in Nat
  <2> HIDE DEF n
  <2>1. n \in Nat
    BY <1>4, TableFacts
  <2> QED
    BY <1>4, <2>1, Pow2Type
<1>6. b \in Seq(Bit)
  <2> HIDE DEF n
  <2> QED
    BY <1>5, BitsType
<1> HIDE DEF b, s, n
<1>7. bits' \in Seq({0, 1}) /\ read' \in 0 .. Len(bits')
      /\ written' \in 0 .. Len(message') /\ state' \in Nat
  <2>1. bits' \in Seq({0, 1}) /\ Len(bits') \in Nat
    BY <1>1, <1>6, ConcatBits
  <2>2. read' = 0 /\ written' \in 0 .. Len(message')
    BY <1>1
  <2>3. state' \in Nat
    BY <1>4, InStates
  <2> QED
    BY <2>1, <2>2, <2>3
<1>8. EntropyTypeOK'
  BY <1>1, <1>7 DEF EntropyInvariant, EntropyTypeOK
<1>9. CallsInOrder' /\ TableGrows' /\ LengthsAre'
  BY <1>1, <1>4 DEF EntropyInvariant, CallsInOrder, TableGrows, LengthsAre
<1> QED
  BY <1>8, <1>9

-----------------------------------------------------------------------------
(* What the encoder has to hand over, the state of ANS first.              *)
AllBits == (IF coder = "ans" THEN Bits(state, StateBits) ELSE <<>>) \o bits

(* The number of bytes that bits fill.                                    *)
LEMMA RoundUp ==
  ASSUME NEW l \in Nat, NEW d \in Nat \ {0}, NEW n \in 0 .. (l + d - 1) \div d
  PROVE  /\ (l + d - 1) \div d \in Nat /\ n * d \in Nat /\ ((l + d - 1) \div d) * d \in Nat
         /\ n * d <= ((l + d - 1) \div d) * d
         /\ n = (l + d - 1) \div d <=> n * d >= l
<1> DEFINE q == (l + d - 1) \div d
           r == (l + d - 1) % d
<1>1. q \in Nat /\ r \in 0 .. d - 1 /\ l + d - 1 = (q * d) + r
  <2>1. l + d - 1 \in Nat
    OBVIOUS
  <2> QED
    BY <2>1, Division
<1> HIDE DEF q, r
<1>2. n \in Nat /\ n <= q
  BY <1>1 DEF q
<1>3. n * d \in Nat /\ q * d \in Nat /\ n * d <= q * d /\ d \in Nat
  BY <1>1, <1>2, Product
<1>4. q * d >= l
  <2> DEFINE p == q * d
  <2>1. p \in Nat /\ l + d - 1 = p + r
    BY <1>1, <1>3
  <2> HIDE DEF p
  <2>2. p >= l
    BY <1>1, <2>1
  <2> QED
    BY <2>2 DEF p
<1>5. n # q => n * d < l
  <2> SUFFICES ASSUME n # q PROVE n * d < l
    OBVIOUS
  <2>1. (n + 1) * d <= q * d /\ (n + 1) * d = n * d + d
    <3>1. n + 1 <= q /\ n + 1 \in Nat /\ d \in Nat
      BY <1>1, <1>2, <1>3
    <3>2. (n + 1) * d <= q * d
      BY <1>1, <3>1, Product
    <3>3. (n + 1) * d = n * d + d
      BY <1>2, Multiples
    <3> QED
      BY <3>2, <3>3
  <2> DEFINE p == q * d
             m == n * d
  <2>2. p \in Nat /\ m \in Nat /\ l + d - 1 = p + r /\ m + d <= p
    BY <1>1, <1>3, <2>1
  <2> HIDE DEF p, m
  <2>3. m < l
    BY <1>1, <2>2
  <2> QED
    BY <2>3 DEF m
<1> QED
  BY <1>1, <1>3, <1>4, <1>5 DEF q

(* What is flushed are the bits, then zeros, as far as the bytes reach    *)
(* the decoder; nothing is lost if all the bits do.                       *)
LEMMA FlushIs ==
  ASSUME EntropyInvariant, Flush
  PROVE  /\ AllBits \in Seq(Bit) /\ bits' \in Seq(Bit)
         /\ Len(AllBits) = (IF coder = "ans" THEN StateBits ELSE 0) + Len(bits)
         /\ \A i \in 1 .. Len(bits') : bits'[i] = IF i <= Len(AllBits) THEN AllBits[i] ELSE 0
         /\ whole' \in BOOLEAN /\ (whole' <=> Len(bits') >= Len(AllBits))
<1> DEFINE head == IF coder = "ans" THEN Bits(state, StateBits) ELSE <<>>
           L == Len(AllBits)
           bytes == (L + ByteBits - 1) \div ByteBits
           padded == [i \in 1 .. bytes * ByteBits |-> IF i <= L THEN AllBits[i] ELSE 0]
<1>1. head \in Seq(Bit) /\ Len(head) = IF coder = "ans" THEN StateBits ELSE 0
  <2>1. state \in Nat /\ StateBits \in Nat
    BY TableFacts DEF EntropyInvariant, EntropyTypeOK
  <2>2. Bits(state, StateBits) \in Seq(Bit) /\ Len(Bits(state, StateBits)) = StateBits
    BY <2>1, BitsType
  <2>3. <<>> \in Seq(Bit) /\ Len(<<>>) = 0
    OBVIOUS
  <2> QED
    BY <2>2, <2>3
<1>2. bits \in Seq(Bit) /\ AllBits = head \o bits
  BY DEF EntropyInvariant, EntropyTypeOK, Bit, AllBits
<1> HIDE DEF head
<1>3. AllBits \in Seq(Bit) /\ L = (IF coder = "ans" THEN StateBits ELSE 0) + Len(bits)
      /\ L \in Nat
  BY <1>1, <1>2, ConcatLength
<1>4. PICK n \in 0 .. bytes : bits' = SubSeq(padded, 1, n * ByteBits) /\ whole' = (n = bytes)
  BY DEF Flush, AllBits
<1> HIDE DEF L
<1>5. /\ bytes \in Nat /\ n * ByteBits \in Nat /\ bytes * ByteBits \in Nat
      /\ n * ByteBits <= bytes * ByteBits
      /\ (n = bytes) <=> n * ByteBits >= L
  <2>1. ByteBits \in Nat \ {0}
    BY TableFacts
  <2> QED
    BY <1>3, <1>4, <2>1, RoundUp
<1> DEFINE size == bytes * ByteBits
           part == n * ByteBits
<1>6. size \in Nat /\ part \in Nat /\ part <= size
      /\ padded = [i \in 1 .. size |-> IF i <= L THEN AllBits[i] ELSE 0]
      /\ bits' = SubSeq(padded, 1, part) /\ (whole' <=> part >= L) /\ whole' \in BOOLEAN
  BY <1>4, <1>5
<1> HIDE DEF bytes, size, part, padded
<1>7. padded \in Seq(Bit) /\ Len(padded) = size
  <2>1. \A i \in 1 .. size : padded[i] \in Bit
    BY <1>3, <1>6 DEF Bit, L
  <2>2. padded \in [1 .. size -> Bit]
    BY <1>6, <2>1
  <2> QED
    BY <1>6, <2>2
<1>8. bits' \in Seq(Bit) /\ Len(bits') = part
  BY <1>6, <1>7, PrefixOfPrefix
<1>9. \A i \in 1 .. part : bits'[i] = padded[i]
  BY <1>6, <1>7, PrefixElements
<1>10. \A i \in 1 .. part : padded[i] = IF i <= L THEN AllBits[i] ELSE 0
  BY <1>6
<1> QED
  BY <1>3, <1>6, <1>8, <1>9, <1>10 DEF L

LEMMA FlushKeeps ==
  ASSUME EntropyInvariant, Flush
  PROVE  EntropyTypeOK' /\ CallsInOrder' /\ TableGrows' /\ LengthsAre'
<1> USE DEF treeVars, tableVars, writeVars, readVars
<1>1. /\ phase = "write" /\ message # <<>> /\ read = 0 /\ delivered = <<>>
      /\ phase' = IF coder = "ans" THEN "readState" ELSE "descriptors"
      /\ UNCHANGED <<coder, treeVars, tableVars, state, message, written, expectedLen,
                     readVars>>
      /\ coder \in {"huffman", "ans"}
  BY DEF Flush, EntropyInvariant, CallsInOrder, EntropyTypeOK
<1>2. bits' \in Seq({0, 1}) /\ Len(bits') \in Nat /\ whole' \in BOOLEAN
  BY FlushIs DEF Bit
<1>3. EntropyTypeOK'
  <2>1. read' \in 0 .. Len(bits')
    BY <1>1, <1>2
  <2> QED
    BY <1>1, <1>2, <2>1 DEF EntropyInvariant, EntropyTypeOK
<1>4. CallsInOrder' /\ TableGrows' /\ LengthsAre'
  BY <1>1 DEF EntropyInvariant, CallsInOrder, TableGrows, LengthsAre
<1> QED
  BY <1>3, <1>4

-----------------------------------------------------------------------------
LEMMA CheckDescriptorsKeeps ==
  ASSUME EntropyInvariant, CheckDescriptors
  PROVE  EntropyTypeOK' /\ CallsInOrder' /\ TableGrows' /\ LengthsAre'
<1> USE DEF treeVars, tableVars, writeVars, readVars
<1>1. /\ phase = "descriptors" /\ read = 0 /\ delivered = <<>> /\ coder \in {"huffman", "ans"}
      /\ UNCHANGED <<coder, treeVars, tableVars, state, writeVars, whole, expectedLen,
                     read, delivered>>
  BY DEF CheckDescriptors, EntropyInvariant, CallsInOrder, EntropyTypeOK
<1>2. /\ coder = "huffman" => lengths \in CodeLengths
      /\ coder = "ans" => norm \in Frequencies /\ \A i \in 0 .. TableSize - 1 : slots[i] = Free
      /\ coder = "ans" => lengths = None
  BY <1>1 DEF EntropyInvariant, LengthsAre, TableGrows, EntropyTypeOK, Frequencies
<1>3. \/ phase' = "done" /\ outcome' = "CorruptedEntropyStream"
      \/ coder = "huffman" /\ ~Oversubscribed(lengths) /\ phase' = "read" /\ UNCHANGED outcome
      \/ coder = "ans" /\ Total(norm) = TableSize /\ phase' = "spread" /\ UNCHANGED outcome
  BY DEF CheckDescriptors, Finish
<1>4. CASE phase' = "done" /\ outcome' = "CorruptedEntropyStream"
  <2>1. EntropyTypeOK'
    BY <1>1, <1>4 DEF EntropyInvariant, EntropyTypeOK
  <2>2. CallsInOrder' /\ TableGrows' /\ LengthsAre'
    BY <1>1, <1>4 DEF EntropyInvariant, CallsInOrder, TableGrows, LengthsAre
  <2> QED
    BY <2>1, <2>2
<1>5. CASE coder = "huffman" /\ ~Oversubscribed(lengths) /\ phase' = "read" /\ UNCHANGED outcome
  <2>1. EntropyTypeOK'
    BY <1>1, <1>2, <1>5 DEF EntropyInvariant, EntropyTypeOK, CodeLengths
  <2>2. CallsInOrder' /\ TableGrows' /\ LengthsAre'
    BY <1>1, <1>2, <1>5 DEF EntropyInvariant, CallsInOrder, TableGrows, LengthsAre
  <2> QED
    BY <2>1, <2>2
<1>6. CASE coder = "ans" /\ Total(norm) = TableSize /\ phase' = "spread" /\ UNCHANGED outcome
  <2>1. EntropyTypeOK'
    BY <1>1, <1>2, <1>6 DEF EntropyInvariant, EntropyTypeOK
  <2>2. CallsInOrder' /\ LengthsAre'
    BY <1>1, <1>2, <1>6 DEF EntropyInvariant, CallsInOrder, LengthsAre
  <2>3. \A s \in Symbols : Cardinality(SlotsOf(slots, s)) = Taken(norm, s, Cardinality(Placed))
    BY <1>2, <1>6, NothingPlaced DEF EntropyInvariant, EntropyTypeOK
  <2>4. Placed' = Placed
    BY <1>1 DEF Placed
  <2>5. TableGrows'
    BY <1>1, <1>2, <1>6, <2>3, <2>4 DEF EntropyInvariant, TableGrows
  <2> QED
    BY <2>1, <2>2, <2>5
<1> QED
  BY <1>3, <1>4, <1>5, <1>6

(* The window that a peek sees: what is left, then zeros.                  *)
Window(count) == [i \in 1 .. count |-> IF read + i <= Len(bits) THEN bits[read + i] ELSE 0]

(* peek_bits makes a number of the next bits.                             *)
LEMMA PeekIs ==
  ASSUME EntropyTypeOK, NEW count \in Nat
  PROVE  /\ Window(count) \in [1 .. count -> Bit]
         /\ Peek(count) = Value(Window(count))
         /\ Peek(count) \in 0 .. Pow2[count] - 1 /\ Peek(count) \in Nat
<1>1. bits \in Seq(Bit) /\ read \in Nat
  BY DEF EntropyTypeOK, Bit
<1>2. \A i \in 1 .. count : Window(count)[i] \in Bit
  <2> SUFFICES ASSUME NEW i \in 1 .. count PROVE Window(count)[i] \in Bit
    OBVIOUS
  <2>1. Window(count)[i] = IF read + i <= Len(bits) THEN bits[read + i] ELSE 0
    BY DEF Window
  <2>2. read + i <= Len(bits) => bits[read + i] \in Bit
    BY <1>1
  <2> QED
    BY <2>1, <2>2 DEF Bit
<1>3. Window(count) \in [1 .. count -> Bit]
  <2>1. Window(count) = [i \in 1 .. count |-> Window(count)[i]]
    BY DEF Window
  <2> HIDE DEF Window
  <2> QED
    BY <1>2, <2>1
<1>4. Peek(count) = Value(Window(count))
  BY DEF Peek, Window
<1> QED
  BY <1>3, <1>4, ValueRange

(* drop_bits stops at the end.                                            *)
LEMMA DroppedIs ==
  ASSUME EntropyTypeOK, NEW count \in Nat
  PROVE  /\ Dropped(count) \in 0 .. Len(bits)
         /\ Dropped(count) = IF read + count <= Len(bits) THEN read + count ELSE Len(bits)
<1>1. Len(bits) \in Nat /\ read \in 0 .. Len(bits)
  BY DEF EntropyTypeOK
<1> QED
  BY <1>1 DEF Dropped, Available

Outcomes == {"ok", "UnexpectedEof", "InvalidMatchLength", "CorruptedEntropyStream"}

(* What each step of the decoding loop has to preserve.                   *)
LEMMA ReadingKeeps ==
  ASSUME EntropyInvariant, phase \in {"readState", "read"},
         UNCHANGED <<coder, treeVars, tableVars, writeVars, whole, expectedLen>>,
         read' \in 0 .. Len(bits), state' \in Nat, delivered' \in Seq(Symbols),
         \/ phase' = "done" /\ outcome' \in Outcomes
         \/ phase' = "read" /\ outcome' = outcome /\ state' \in States
  PROVE  EntropyTypeOK' /\ CallsInOrder' /\ TableGrows' /\ LengthsAre'
<1> USE DEF treeVars, tableVars, writeVars
<1>1. UNCHANGED <<coder, heap, lengths, norm, slots, pos, message, written, bits, whole,
                  expectedLen>>
  OBVIOUS
<1>2. phase = "readState" => coder = "ans"
  BY DEF EntropyInvariant, CallsInOrder
<1>3. coder = "ans" => lengths \in CodeLengths
  BY NoLengths DEF EntropyInvariant, LengthsAre
<1>4. coder = "huffman" => lengths \in CodeLengths
  BY <1>2 DEF EntropyInvariant, LengthsAre
<1>5. lengths \in [Symbols -> 0 .. MaxBits]
  BY <1>3, <1>4 DEF CodeLengths, EntropyInvariant, EntropyTypeOK
<1>6. EntropyTypeOK'
  <2>1. /\ message' \in Seq(Symbols) /\ written' \in 0 .. Len(message')
        /\ lengths' \in [Symbols -> Nat] /\ lengths' \in [Symbols -> 0 .. MaxBits]
        /\ norm' \in [Symbols -> 0 .. TableSize]
        /\ slots' \in [0 .. TableSize - 1 -> Symbols \cup {Free}] /\ pos' \in 0 .. TableSize - 1
        /\ state' \in Nat /\ bits' \in Seq({0, 1}) /\ read' \in 0 .. Len(bits')
        /\ whole' \in BOOLEAN /\ expectedLen' \in Nat /\ delivered' \in Seq(Symbols)
        /\ coder' \in {"huffman", "ans"}
    BY <1>1, <1>5 DEF EntropyInvariant, EntropyTypeOK
  <2>2. outcome' \in {"none", "ok", "UnexpectedEof", "InvalidMatchLength",
                      "CorruptedEntropyStream"}
        /\ phase' \in {"read", "done"}
    BY DEF EntropyInvariant, EntropyTypeOK, Outcomes
  <2> QED
    BY <2>1, <2>2 DEF EntropyTypeOK
<1>7. CallsInOrder'
  <2>1. outcome = "none"
    BY DEF EntropyInvariant, CallsInOrder
  <2> QED
    BY <2>1 DEF CallsInOrder
<1>8. TableGrows'
  BY <1>1, <1>2 DEF EntropyInvariant, TableGrows
<1>9. LengthsAre'
  BY <1>1, <1>2 DEF EntropyInvariant, LengthsAre
<1> QED
  BY <1>6, <1>7, <1>8, <1>9

LEMMA ReadStateKeeps ==
  ASSUME EntropyInvariant, ReadState
  PROVE  EntropyTypeOK' /\ CallsInOrder' /\ TableGrows' /\ LengthsAre'
<1>1. /\ phase = "readState" /\ EntropyTypeOK /\ read \in 0 .. Len(bits)
           /\ state \in Nat /\ delivered \in Seq(Symbols)
      /\ UNCHANGED <<coder, treeVars, tableVars, writeVars, whole, expectedLen, delivered>>
  BY DEF ReadState, EntropyInvariant, EntropyTypeOK
<1>2. \/ phase' = "done" /\ outcome' = "UnexpectedEof" /\ state' = state /\ read' = read
      \/ /\ ~(Available < StateBits) /\ state' = Peek(StateBits) /\ read' = read + StateBits
         /\ \/ Peek(StateBits) \in States /\ phase' = "read" /\ outcome' = outcome
            \/ phase' = "done" /\ outcome' = "CorruptedEntropyStream"
  BY DEF ReadState, Finish
<1>3. StateBits \in Nat /\ Peek(StateBits) \in Nat
  BY <1>1, TableFacts, PeekIs
<1>4. read' \in 0 .. Len(bits) /\ state' \in Nat
  <2>1. ~(Available < StateBits) => read + StateBits \in 0 .. Len(bits)
    <3>1. Len(bits) \in Nat
      BY <1>1 DEF EntropyTypeOK
    <3> QED
      BY <1>1, <1>3, <3>1 DEF Available
  <2> QED
    BY <1>1, <1>2, <1>3, <2>1
<1>5. \/ phase' = "done" /\ outcome' \in Outcomes
      \/ phase' = "read" /\ outcome' = outcome /\ state' \in States
  BY <1>2 DEF Outcomes
<1> QED
  BY <1>1, <1>4, <1>5, ReadingKeeps

(* A symbol is delivered or ends the call.                                *)
LEMMA DeliverIs ==
  ASSUME EntropyInvariant, phase = "read", NEW s \in Symbols, Deliver(s)
  PROVE  /\ delivered' \in Seq(Symbols)
         /\ \/ phase' = "done" /\ outcome' \in Outcomes
            \/ phase' = "read" /\ outcome' = outcome
<1>1. delivered \in Seq(Symbols)
  BY DEF EntropyInvariant, EntropyTypeOK
<1>2. Append(delivered, s) \in Seq(Symbols)
  BY <1>1
<1> QED
  BY <1>1, <1>2 DEF Deliver, Finish, Outcomes

LEMMA ReadHuffmanKeeps ==
  ASSUME EntropyInvariant, ReadHuffman
  PROVE  EntropyTypeOK' /\ CallsInOrder' /\ TableGrows' /\ LengthsAre'
<1>1. /\ phase = "read" /\ coder = "huffman" /\ EntropyTypeOK /\ state \in States
      /\ UNCHANGED <<coder, treeVars, tableVars, state, writeVars, whole, expectedLen>>
      /\ lengths \in CodeLengths /\ ~Oversubscribed(lengths)
  BY DEF ReadHuffman, EntropyInvariant, CallsInOrder, LengthsAre
<1>2. PICK s \in Lookup(lengths, Peek(MaxBits)) : Deliver(s) /\ read' = Dropped(lengths[s])
  BY DEF ReadHuffman
<1>3. s \in Symbols /\ lengths[s] \in Nat
  <2>1. Peek(MaxBits) \in Nat
    BY <1>1, HuffmanFacts, PeekIs
  <2>2. s \in UsedIn(lengths)
    BY <1>1, <1>2, <2>1, LookupIs
  <2> QED
    BY <1>1, <2>2, LengthsAreNat DEF UsedIn
<1>4. read' \in 0 .. Len(bits) /\ state' \in Nat /\ state' \in States
  BY <1>1, <1>2, <1>3, DroppedIs, InStates
<1> QED
  BY <1>1, <1>2, <1>3, <1>4, DeliverIs, ReadingKeeps

LEMMA ReadNoCodeKeeps ==
  ASSUME EntropyInvariant, ReadNoCode
  PROVE  EntropyTypeOK' /\ CallsInOrder' /\ TableGrows' /\ LengthsAre'
<1>1. /\ phase = "read" /\ phase' = "done" /\ outcome' \in Outcomes
      /\ UNCHANGED <<coder, treeVars, tableVars, state, writeVars, whole, expectedLen,
                     read, delivered>>
      /\ read \in 0 .. Len(bits) /\ state \in Nat /\ delivered \in Seq(Symbols)
  BY DEF ReadNoCode, Finish, Outcomes, EntropyInvariant, EntropyTypeOK
<1> QED
  BY <1>1, ReadingKeeps

LEMMA ReadAnsKeeps ==
  ASSUME EntropyInvariant, ReadAns
  PROVE  EntropyTypeOK' /\ CallsInOrder' /\ TableGrows' /\ LengthsAre'
<1> DEFINE entry == DecodeEntry(slots, norm, state)
<1>1. /\ phase = "read" /\ coder = "ans" /\ EntropyTypeOK /\ state \in States
           /\ Filled(slots, norm)
      /\ UNCHANGED <<coder, treeVars, tableVars, writeVars, whole, expectedLen>>
      /\ state' = entry.base + Peek(entry.bits) /\ read' = Dropped(entry.bits)
           /\ Deliver(entry.symbol)
  BY DEF ReadAns, EntropyInvariant, CallsInOrder, TableGrows
<1>2. /\ entry.symbol \in Symbols /\ entry.bits \in 0 .. TableLog /\ entry.base \in Nat
      /\ \A v \in 0 .. Pow2[entry.bits] - 1 : entry.base + v \in States
  BY <1>1, DecodeEntryIs
<1> HIDE DEF entry
<1>3. entry.bits \in Nat
  BY <1>2, TableFacts
<1>4. state' \in States /\ state' \in Nat /\ read' \in 0 .. Len(bits)
  BY <1>1, <1>2, <1>3, PeekIs, DroppedIs, InStates
<1> QED
  BY <1>1, <1>2, <1>4, DeliverIs, ReadingKeeps

LEMMA ReadAnsEofKeeps ==
  ASSUME EntropyInvariant, ReadAnsEof
  PROVE  EntropyTypeOK' /\ CallsInOrder' /\ TableGrows' /\ LengthsAre'
<1>1. /\ phase = "read" /\ phase' = "done" /\ outcome' \in Outcomes
      /\ UNCHANGED <<coder, treeVars, tableVars, state, writeVars, whole, expectedLen,
                     read, delivered>>
      /\ read \in 0 .. Len(bits) /\ state \in Nat /\ delivered \in Seq(Symbols)
  BY DEF ReadAnsEof, Finish, Outcomes, EntropyInvariant, EntropyTypeOK
<1> QED
  BY <1>1, ReadingKeeps

LEMMA NothingKeeps ==
  ASSUME EntropyInvariant, UNCHANGED entropyVars
  PROVE  EntropyTypeOK' /\ CallsInOrder' /\ TableGrows' /\ LengthsAre'
<1>1. UNCHANGED <<phase, coder, heap, lengths, norm, slots, pos, state, message, written, bits,
                  whole, expectedLen, read, delivered, outcome>>
  BY DEF entropyVars, treeVars, tableVars, writeVars, readVars
<1>2. Placed' = Placed
  BY <1>1 DEF Placed
<1> QED
  BY <1>1, <1>2 DEF EntropyInvariant, EntropyTypeOK, CallsInOrder, TableGrows, LengthsAre

(* Every step keeps the invariant.                                        *)
LEMMA EntropySteps ==
  ASSUME EntropyInvariant, [EntropyNext]_entropyVars
  PROVE  EntropyInvariant'
<1>1. MessageEnds'
  BY MessageStays DEF EntropyInvariant
<1>2. EntropyTypeOK' /\ CallsInOrder' /\ TableGrows' /\ LengthsAre'
  <2>1. CASE Build
    BY <2>1, MergeKeeps, MergedKeeps, LimitKeeps, LimitedKeeps, DecrementKeeps, IncrementKeeps,
       NormalizedKeeps, SpreadKeeps, SpreadDoneKeeps DEF Build
  <2>2. CASE Write
    BY <2>2, WriteHuffmanKeeps, WriteAnsKeeps, FlushKeeps DEF Write
  <2>3. CASE DecodeStep
    BY <2>3, CheckDescriptorsKeeps, ReadStateKeeps, ReadHuffmanKeeps, ReadNoCodeKeeps,
        ReadAnsKeeps,
       ReadAnsEofKeeps DEF DecodeStep
  <2>4. CASE Finished \/ UNCHANGED entropyVars
    BY <2>4, NothingKeeps DEF Finished
  <2> QED
    BY <2>1, <2>2, <2>3, <2>4 DEF EntropyNext
<1> QED
  BY <1>1, <1>2 DEF EntropyInvariant

(* The inductive invariant of both coders and their decoders holds in     *)
(* every behaviour, for every message, every alphabet, table and limit,   *)
(* and for decoders on any descriptors and bits.                          *)
THEOREM EntropyInvariantHolds == EntropySpec => []EntropyInvariant
<1>1. EntropyInvariant /\ [EntropyNext]_entropyVars => EntropyInvariant'
  BY EntropySteps
<1> QED
  BY EntropyStarts, <1>1, PTL DEF EntropySpec

(* The three properties follow from the invariant.                        *)
LEMMA TableFits == EntropyInvariant => TableFitsMessage
<1> SUFFICES ASSUME EntropyInvariant, coder = "ans", phase = "write"
             PROVE  /\ Counted(norm) = Counted(Counts(message))
                    /\ \A s \in Symbols : Cardinality({i \in DOMAIN slots : slots[i] = s}) = norm[s]
  BY DEF TableFitsMessage
<1>1. message # <<>> /\ Filled(slots, norm) /\ Counted(norm) = Counted(Counts(message))
  BY DEF EntropyInvariant, CallsInOrder, TableGrows
<1>2. \A s : {i \in DOMAIN slots : slots[i] = s} = SlotsOf(slots, s)
  BY <1>1 DEF Filled, SlotsOf
<1> QED
  BY <1>1, <1>2 DEF Filled

LEMMA StatesStay == EntropyInvariant => StatesStayInTable
<1> SUFFICES ASSUME EntropyInvariant PROVE StatesStayInTable
  OBVIOUS
<1>1. phase # "done" => state \in States
  BY DEF EntropyInvariant, CallsInOrder
<1>2. ASSUME coder = "ans", phase = "write", NEW s \in Counted(norm)
      PROVE  LET n == EncodeBits(norm, s, state) IN
             n >= 0 /\ state \div Pow2[n] - norm[s] \in 0 .. norm[s] - 1
  <2>1. Filled(slots, norm) /\ state \in States /\ s \in Symbols /\ norm[s] # 0
    BY <1>1, <1>2, SymbolsAre DEF EntropyInvariant, TableGrows, Counted
  <2>2. EncodeBits(norm, s, state) \in 0 .. TableLog
        /\ state \div Pow2[EncodeBits(norm, s, state)] - norm[s] \in 0 .. norm[s] - 1
    BY <2>1, StepBack
  <2> QED
    BY <2>2, TableFacts
<1> QED
  BY <1>1, <1>2 DEF StatesStayInTable

LEMMA PrefixFree == EntropyInvariant => CodesArePrefixFree
<1> SUFFICES ASSUME EntropyInvariant, coder = "huffman", phase \in {"write", "read"},
                    NEW window \in 0 .. Pow2[MaxBits] - 1
             PROVE  Cardinality(Lookup(lengths, window)) <= 1
  BY DEF CodesArePrefixFree
<1> DEFINE found == Lookup(lengths, window)
<1>1. lengths \in CodeLengths /\ ~Oversubscribed(lengths) /\ window \in Nat
  BY HuffmanFacts DEF EntropyInvariant, LengthsAre
<1>2. \A s, r \in found : s = r
  BY <1>1, LookupOnce
<1> HIDE DEF found
<1>3. CASE found = {}
  BY <1>3, FS_EmptySet DEF found
<1>4. CASE found # {}
  <2>1. PICK s : found = {s}
    BY <1>2, <1>4
  <2>2. Cardinality({s}) = 1
    BY FS_Singleton
  <2> QED
    BY <2>1, <2>2 DEF found
<1> QED
  BY <1>3, <1>4

(* Every variable of the coders keeps its type: positions stay in the     *)
(* table and in the payload, lengths within MAX_HUFFMAN_BITS where codes  *)
(* are written or read.                                                   *)
THEOREM EntropyTypesHold == EntropySpec => []EntropyTypeOK
<1>1. EntropyInvariant => EntropyTypeOK
  BY DEF EntropyInvariant
<1> QED
  BY <1>1, EntropyInvariantHolds, PTL

(* normalize_frequencies and spread_symbols give every symbol of any      *)
(* message a slot, no other symbol one, and each as many as its           *)
(* normalised frequency.                                                  *)
THEOREM TablesFit == EntropySpec => []TableFitsMessage
  BY TableFits, EntropyInvariantHolds, PTL

(* The states of the ANS encoder and decoder never leave the table, and   *)
(* the encoder's index into a symbol's slots never underflows nor         *)
(* exceeds them, for every message and for decoders of any frequencies.   *)
THEOREM StatesStayHere == EntropySpec => []StatesStayInTable
  BY StatesStay, EntropyInvariantHolds, PTL

(* build_canonical_codes gives no symbol a code that begins with          *)
(* another's: the two-level table answers each window with one symbol at  *)
(* most, for lengths of a limited tree and for any that the decoder       *)
(* accepts.                                                               *)
THEOREM CodesDiffer == EntropySpec => []CodesArePrefixFree
  BY PrefixFree, EntropyInvariantHolds, PTL

-----------------------------------------------------------------------------
(***************************************************************************)
(* The round trip of ANS.                                                 *)
(***************************************************************************)

(***************************************************************************)
(* The states an ANS encoder goes through, the last symbol first: x[j] is  *)
(* the one from which a decoder reads the last j symbols, c[j] the number  *)
(* of bits it reads for them.                                              *)
(***************************************************************************)
AnsPath(sl, fr, m, x, c, w) ==
  /\ x \in [0 .. w -> States] /\ x[0] = TableSize
  /\ c \in [0 .. w -> Nat] /\ c[0] = 0 /\ \A j \in 0 .. w : c[j] <= c[w]
  /\ \A j \in 1 .. w :
       LET e == DecodeEntry(sl, fr, x[j]) IN
       /\ e.symbol = m[Len(m) + 1 - j]
       /\ e.bits \in Nat /\ c[j] = c[j - 1] + e.bits
       /\ x[j - 1] % Pow2[e.bits] \in 0 .. Pow2[e.bits] - 1
       /\ e.base + (x[j - 1] % Pow2[e.bits]) = x[j - 1]

(* The bits that the encoder leaves out on its way to state x[j].         *)
Chunk(x, c, j) == Bits(x[j - 1] % Pow2[c[j] - c[j - 1]], c[j] - c[j - 1])

(* The bits of these symbols stand in the order of the decoder.            *)
Wrote(b, x, c, w) ==
  /\ b \in Seq(Bit) /\ Len(b) = c[w]
  /\ \A j \in 1 .. w : \A i \in 1 .. c[j] - c[j - 1] : b[c[w] - c[j] + i] = Chunk(x, c, j)[i]

(* One state more.                                                        *)
Extended(f, w, v) == [j \in 0 .. w + 1 |-> IF j = w + 1 THEN v ELSE f[j]]

(* StepBack, for the values that a step of the encoder has at hand.       *)
LEMMA EncodeStep ==
  ASSUME NEW sl, NEW fr, Filled(sl, fr), NEW s \in Symbols, fr[s] # 0, NEW q \in States,
         NEW n, n = EncodeBits(fr, s, q), NEW y, y = NextState(sl, s, q \div Pow2[n] - fr[s])
  PROVE  /\ n \in 0 .. TableLog /\ y \in States
         /\ DecodeEntry(sl, fr, y).symbol = s /\ DecodeEntry(sl, fr, y).bits = n
         /\ q % Pow2[n] \in 0 .. Pow2[n] - 1
         /\ DecodeEntry(sl, fr, y).base + (q % Pow2[n]) = q
<1>1. n \in 0 .. TableLog /\ y \in States
  BY StepBack
<1>2. DecodeEntry(sl, fr, y).symbol = s /\ DecodeEntry(sl, fr, y).bits = n
  BY StepBack
<1>3. q % Pow2[n] \in 0 .. Pow2[n] - 1 /\ DecodeEntry(sl, fr, y).base + (q % Pow2[n]) = q
  BY StepBack
<1> QED
  BY <1>1, <1>2, <1>3

(* The elements of two sequences put together.                            *)
LEMMA ConcatElements ==
  ASSUME NEW S, NEW s \in Seq(S), NEW t \in Seq(S)
  PROVE  /\ \A i \in 1 .. Len(s) : (s \o t)[i] = s[i]
         /\ \A i \in 1 .. Len(t) : (s \o t)[Len(s) + i] = t[i]
<1>1. \A i \in 1 .. Len(s) : (s \o t)[i] = s[i]
  OBVIOUS
<1>2. ASSUME NEW i \in 1 .. Len(t) PROVE (s \o t)[Len(s) + i] = t[i]
  <2>1. Len(s) + i \in 1 .. Len(s) + Len(t) /\ ~(Len(s) + i <= Len(s))
        /\ (Len(s) + i) - Len(s) = i
    OBVIOUS
  <2> QED
    BY <2>1
<1> QED
  BY <1>1, <1>2

(* A step of the encoder extends the path.                                *)
LEMMA PathGrows ==
  ASSUME NEW sl, NEW fr, Filled(sl, fr), NEW m \in Seq(Symbols), NEW w \in 0 .. Len(m) - 1,
         NEW x, NEW c, AnsPath(sl, fr, m, x, c, w), NEW b, Wrote(b, x, c, w),
         fr[m[Len(m) - w]] # 0
  PROVE  LET s == m[Len(m) - w]
             n == EncodeBits(fr, s, x[w])
             y == NextState(sl, s, x[w] \div Pow2[n] - fr[s])
             x2 == Extended(x, w, y)
             c2 == Extended(c, w, c[w] + n)
         IN  /\ AnsPath(sl, fr, m, x2, c2, w + 1)
             /\ Wrote(Bits(x[w] % Pow2[n], n) \o b, x2, c2, w + 1)
             /\ x2[w + 1] = y
<1> DEFINE s == m[Len(m) - w]
           n == EncodeBits(fr, s, x[w])
           y == NextState(sl, s, x[w] \div Pow2[n] - fr[s])
           e == DecodeEntry(sl, fr, y)
           x2 == Extended(x, w, y)
           c2 == Extended(c, w, c[w] + n)
           v == x[w] % Pow2[n]
           b2 == Bits(v, n) \o b
<1>1. /\ Len(m) \in Nat /\ w \in Nat /\ s \in Symbols /\ x[w] \in States
           /\ c[w] \in Nat /\ fr[s] # 0
      /\ x \in [0 .. w -> States] /\ c \in [0 .. w -> Nat]
  BY DEF AnsPath
<1>2. /\ n \in 0 .. TableLog /\ y \in States /\ e.symbol = s /\ e.bits = n
      /\ v \in 0 .. Pow2[n] - 1 /\ e.base + v = x[w]
  <2>1. s \in Symbols /\ fr[s] # 0 /\ x[w] \in States
    BY <1>1
  <2>2. n = EncodeBits(fr, s, x[w]) /\ y = NextState(sl, s, x[w] \div Pow2[n] - fr[s])
    OBVIOUS
  <2>3. e = DecodeEntry(sl, fr, y) /\ v = x[w] % Pow2[n]
    OBVIOUS
  <2> HIDE DEF n, y, e, v, s
  <2>4. /\ n \in 0 .. TableLog /\ y \in States
        /\ DecodeEntry(sl, fr, y).symbol = s /\ DecodeEntry(sl, fr, y).bits = n
        /\ x[w] % Pow2[n] \in 0 .. Pow2[n] - 1
        /\ DecodeEntry(sl, fr, y).base + (x[w] % Pow2[n]) = x[w]
    <3> DEFINE q == x[w]
    <3>1. /\ Filled(sl, fr) /\ s \in Symbols /\ fr[s] # 0 /\ q \in States
          /\ n = EncodeBits(fr, s, q) /\ y = NextState(sl, s, q \div Pow2[n] - fr[s])
      BY <2>1, <2>2
    <3> HIDE DEF q
    <3>2. /\ n \in 0 .. TableLog /\ y \in States
          /\ DecodeEntry(sl, fr, y).symbol = s /\ DecodeEntry(sl, fr, y).bits = n
          /\ q % Pow2[n] \in 0 .. Pow2[n] - 1
          /\ DecodeEntry(sl, fr, y).base + (q % Pow2[n]) = q
      BY ONLY <3>1, EncodeStep
    <3> QED
      BY <3>2 DEF q
  <2> QED
    BY <2>3, <2>4
<1> HIDE DEF n, y, e
<1>3. n \in Nat /\ v \in Nat
  <2>1. n \in Nat
    BY <1>2, TableFacts
  <2> QED
    BY <1>2, <2>1, Pow2Type
<1> HIDE DEF v
<1>4. Bits(v, n) \in Seq(Bit) /\ Len(Bits(v, n)) = n /\ Bits(v, n) \in [1 .. n -> Bit]
  BY <1>3, BitsType
<1>5. x2 \in [0 .. w + 1 -> States] /\ x2[w + 1] = y /\ \A j \in 0 .. w : x2[j] = x[j]
  <2> DEFINE T == States
  <2>1. w \in Nat /\ x \in [0 .. w -> T] /\ y \in T /\ x2 = Extended(x, w, y)
    BY <1>1, <1>2
  <2> HIDE DEF T, x2
  <2>2. x2 \in [0 .. w + 1 -> T] /\ x2[w + 1] = y /\ \A j \in 0 .. w : x2[j] = x[j]
    BY <2>1 DEF Extended
  <2> QED
    BY <2>2 DEF T
<1>6. c2 \in [0 .. w + 1 -> Nat] /\ c2[w + 1] = c[w] + n /\ \A j \in 0 .. w : c2[j] = c[j]
  <2> DEFINE T == Nat
             z == c[w] + n
  <2>1. w \in Nat /\ c \in [0 .. w -> T] /\ z \in T /\ c2 = Extended(c, w, z)
    BY <1>1, <1>3
  <2> HIDE DEF T, z, c2
  <2>2. c2 \in [0 .. w + 1 -> T] /\ c2[w + 1] = z /\ \A j \in 0 .. w : c2[j] = c[j]
    BY <2>1 DEF Extended
  <2> QED
    BY <2>2 DEF T, z
<1> HIDE DEF x2, c2
<1>7. 0 \in 0 .. w /\ w \in 0 .. w /\ (\A j \in 1 .. w + 1 : j # w + 1 => j \in 1 .. w)
      /\ (\A j \in 1 .. w : j \in 0 .. w /\ j - 1 \in 0 .. w) /\ (w + 1) - 1 = w
      /\ \A j \in 0 .. w + 1 : j # w + 1 => j \in 0 .. w
  BY <1>1
<1>8. AnsPath(sl, fr, m, x2, c2, w + 1)
  <2>1. x2[0] = TableSize /\ c2[0] = 0
    BY <1>5, <1>6, <1>7 DEF AnsPath
  <2>2. \A j \in 0 .. w + 1 : c2[j] <= c2[w + 1]
    <3>1. \A j \in 0 .. w : c[j] \in Nat /\ c[j] <= c[w]
      BY <1>1 DEF AnsPath
    <3> QED
      <4> SUFFICES ASSUME NEW j \in 0 .. w + 1 PROVE c2[j] <= c2[w + 1]
        OBVIOUS
      <4>1. CASE j = w + 1
        BY <1>1, <1>3, <1>6, <4>1
      <4>2. CASE j # w + 1
        <5>1. j \in 0 .. w
          BY <1>7, <4>2
        <5>2. c2[j] = c[j] /\ c[j] \in Nat /\ c[j] <= c[w] /\ c2[w + 1] = c[w] + n
          BY <1>6, <3>1, <5>1
        <5> QED
          BY <1>1, <1>3, <5>2
      <4> QED
        BY <4>1, <4>2
  <2>3. ASSUME NEW j \in 1 .. w + 1
        PROVE  LET d == DecodeEntry(sl, fr, x2[j]) IN
               /\ d.symbol = m[Len(m) + 1 - j]
               /\ d.bits \in Nat /\ c2[j] = c2[j - 1] + d.bits
               /\ x2[j - 1] % Pow2[d.bits] \in 0 .. Pow2[d.bits] - 1
               /\ d.base + (x2[j - 1] % Pow2[d.bits]) = x2[j - 1]
    <3>1. CASE j = w + 1
      <4>1. x2[j] = y /\ x2[j - 1] = x[w] /\ c2[j] = c[w] + n /\ c2[j - 1] = c[w]
        BY <1>5, <1>6, <1>7, <3>1
      <4>2. DecodeEntry(sl, fr, x2[j]) = e /\ Len(m) + 1 - j = Len(m) - w
        BY <1>1, <3>1, <4>1 DEF e
      <4> QED
        BY <1>2, <1>3, <4>1, <4>2 DEF v
    <3>2. CASE j # w + 1
      <4>1. j \in 1 .. w /\ x2[j] = x[j] /\ x2[j - 1] = x[j - 1] /\ c2[j] = c[j]
            /\ c2[j - 1] = c[j - 1]
        BY <1>5, <1>6, <1>7, <3>2
      <4> QED
        BY <4>1 DEF AnsPath
    <3> QED
      BY <3>1, <3>2
  <2> QED
    BY <1>5, <1>6, <2>1, <2>2, <2>3 DEF AnsPath
<1>9. Wrote(b2, x2, c2, w + 1)
  <2>1. b \in Seq(Bit) /\ Len(b) = c[w]
    BY DEF Wrote
  <2>2. b2 \in Seq(Bit) /\ Len(b2) = c2[w + 1]
    <3> DEFINE h == Bits(v, n)
    <3>1. h \in Seq(Bit) /\ Len(h) = n /\ b2 = h \o b
      BY <1>4
    <3> HIDE DEF h, b2
    <3>2. b2 \in Seq(Bit) /\ Len(b2) = n + Len(b)
      BY <2>1, <3>1, ConcatLength
    <3> QED
      BY <1>1, <1>3, <1>6, <2>1, <3>2
  <2>3. ASSUME NEW j \in 1 .. w + 1, NEW i \in 1 .. c2[j] - c2[j - 1]
        PROVE  b2[c2[w + 1] - c2[j] + i] = Chunk(x2, c2, j)[i]
    <3>1. CASE j = w + 1
      <4>1. c2[j] - c2[j - 1] = n /\ x2[j - 1] = x[w] /\ c2[w + 1] - c2[j] + i = i
        BY <1>1, <1>3, <1>5, <1>6, <1>7, <3>1
      <4>2. Chunk(x2, c2, j) = Bits(v, n)
        BY <4>1 DEF Chunk, v
      <4>3. i \in 1 .. Len(Bits(v, n))
        BY <1>4, <4>1
      <4>4. b2[i] = Bits(v, n)[i]
        <5> DEFINE h == Bits(v, n)
        <5>1. h \in Seq(Bit) /\ i \in 1 .. Len(h) /\ b2 = h \o b
          BY <1>4, <4>3
        <5> HIDE DEF h, b2
        <5> QED
          BY <2>1, <5>1 DEF h
      <4> QED
        BY <4>1, <4>2, <4>4
    <3>2. CASE j # w + 1
      <4>1. /\ j \in 1 .. w /\ x2[j - 1] = x[j - 1] /\ c2[j] = c[j] /\ c2[j - 1] = c[j - 1]
            /\ c[j] \in Nat /\ c[j - 1] \in Nat /\ c[j] <= c[w]
        BY <1>5, <1>6, <1>7, <3>2 DEF AnsPath
      <4>2. Chunk(x2, c2, j) = Chunk(x, c, j) /\ i \in 1 .. c[j] - c[j - 1]
        BY <4>1 DEF Chunk
      <4>3. b[c[w] - c[j] + i] = Chunk(x, c, j)[i]
        BY <4>1, <4>2 DEF Wrote
      <4> DEFINE k == c[w] - c[j] + i
      <4>4. k \in 1 .. Len(b) /\ c2[w + 1] - c2[j] + i = n + k
        <5>1. i \in Nat /\ i >= 1 /\ i <= c[j] - c[j - 1]
          BY <4>1, <4>2
        <5> QED
          <6> DEFINE cw == c[w]
                     cj == c[j]
                     cp == c[j - 1]
          <6>1. cw \in Nat /\ cj \in Nat /\ cp \in Nat /\ cj <= cw /\ Len(b) = cw
                /\ c2[w + 1] = cw + n /\ c2[j] = cj /\ i <= cj - cp /\ k = (cw - cj) + i
            BY <1>1, <1>6, <2>1, <4>1, <5>1
          <6> HIDE DEF cw, cj, cp, k
          <6>2. k \in Nat /\ k >= 1 /\ k <= cw
            BY <5>1, <6>1
          <6>3. (cw + n) - cj + i = n + k
            BY <1>3, <5>1, <6>1
          <6> QED
            BY <6>1, <6>2, <6>3
      <4> HIDE DEF k
      <4>5. b2[n + k] = b[k]
        <5> DEFINE h == Bits(v, n)
        <5>1. h \in Seq(Bit) /\ Len(h) = n /\ b2 = h \o b
          BY <1>4
        <5> HIDE DEF h, b2
        <5> QED
          <6>1. \A l \in 1 .. Len(b) : (h \o b)[Len(h) + l] = b[l]
            BY <2>1, <5>1, ConcatElements, SMTT(40)
          <6> QED
            BY <4>4, <5>1, <6>1
      <4> QED
        BY <4>2, <4>3, <4>4, <4>5 DEF k
    <3> QED
      BY <3>1, <3>2
  <2> QED
    BY <2>2, <2>3 DEF Wrote
<1> QED
  BY <1>5, <1>8, <1>9 DEF s, n, y, x2, c2, v

(* What reaches the decoder agrees with the state and the chunks as far as *)
(* it goes.                                                                *)
Carried(b, x, c, w) ==
  /\ \A i \in 1 .. StateBits : i <= Len(b) => b[i] = Bits(x[w], StateBits)[i]
  /\ \A j \in 1 .. w : \A i \in 1 .. c[j] - c[j - 1] :
       StateBits + (c[w] - c[j]) + i <= Len(b) =>
         b[StateBits + (c[w] - c[j]) + i] = Chunk(x, c, j)[i]

(* A payload carries what was written, as far as it reaches.              *)
LEMMA FlushCarries ==
  ASSUME EntropyInvariant, Flush, coder = "ans", NEW x, NEW c, NEW w \in Nat,
         x[w] = state, c \in [0 .. w -> Nat], \A j \in 0 .. w : c[j] <= c[w],
         Wrote(bits, x, c, w)
  PROVE  Carried(bits', x, c, w) /\ whole' \in BOOLEAN
           /\ (whole' <=> Len(bits') >= StateBits + c[w])
<1> DEFINE h == Bits(x[w], StateBits)
<1>1. AllBits = h \o bits
  BY DEF AllBits
<1>2. h \in Seq(Bit) /\ Len(h) = StateBits /\ StateBits \in Nat
  <2>1. state \in Nat /\ StateBits \in Nat
    BY TableFacts DEF EntropyInvariant, EntropyTypeOK
  <2> QED
    BY <2>1, BitsType
<1> HIDE DEF h
<1>3. bits \in Seq(Bit) /\ Len(bits) = c[w] /\ c[w] \in Nat
  BY DEF Wrote
<1>4. /\ bits' \in Seq(Bit) /\ Len(AllBits) = StateBits + c[w]
      /\ \A i \in 1 .. Len(bits') : bits'[i] = IF i <= Len(AllBits) THEN AllBits[i] ELSE 0
      /\ whole' \in BOOLEAN /\ (whole' <=> Len(bits') >= Len(AllBits))
  BY <1>3, FlushIs
<1>5. \A i \in 1 .. StateBits : AllBits[i] = h[i]
  BY <1>1, <1>2, <1>3, ConcatElements, SMTT(40)
<1>6. \A i \in 1 .. c[w] : AllBits[StateBits + i] = bits[i]
  BY <1>1, <1>2, <1>3, ConcatElements, SMTT(40)
<1>7. ASSUME NEW i \in 1 .. StateBits, i <= Len(bits') PROVE bits'[i] = h[i]
  <2>1. i \in 1 .. Len(bits') /\ i <= Len(AllBits)
    BY <1>2, <1>3, <1>4, <1>7
  <2> QED
    BY <1>4, <1>5, <2>1
<1>8. ASSUME NEW j \in 1 .. w, NEW i \in 1 .. c[j] - c[j - 1],
             StateBits + (c[w] - c[j]) + i <= Len(bits')
      PROVE  bits'[StateBits + (c[w] - c[j]) + i] = Chunk(x, c, j)[i]
  <2> DEFINE k == c[w] - c[j] + i
  <2>1. c[j] \in Nat /\ c[j - 1] \in Nat /\ c[j] <= c[w]
    BY <1>3
  <2>2. bits[k] = Chunk(x, c, j)[i]
    BY DEF Wrote
  <2>3. k \in 1 .. c[w] /\ StateBits + (c[w] - c[j]) + i = StateBits + k
    BY <1>2, <1>3, <2>1
  <2> HIDE DEF k
  <2>4. StateBits + k \in 1 .. Len(bits') /\ StateBits + k <= Len(AllBits)
    BY <1>2, <1>3, <1>4, <1>8, <2>3
  <2> QED
    BY <1>4, <1>6, <2>2, <2>3, <2>4
<1> QED
  BY <1>4, <1>7, <1>8 DEF Carried, h

(* A window of the decoder is the number its bits stand for.               *)
LEMMA PeekFinds ==
  ASSUME EntropyTypeOK, NEW count \in Nat, read + count <= Len(bits),
                        NEW v \in 0 .. Pow2[count] - 1,
         \A i \in 1 .. count : bits[read + i] = Bits(v, count)[i]
  PROVE  Peek(count) = v
<1>1. /\ Window(count) \in [1 .. count -> Bit] /\ Peek(count) = Value(Window(count))
      /\ read \in Nat /\ Len(bits) \in Nat
  <2>1. Window(count) \in [1 .. count -> Bit] /\ Peek(count) = Value(Window(count))
    BY PeekIs
  <2>2. read \in Nat /\ Len(bits) \in Nat
    BY DEF EntropyTypeOK
  <2> QED
    BY <2>1, <2>2
<1>2. v \in Nat /\ Value(Bits(v, count)) = v
  BY BitsOfNumber
<1>3. Bits(v, count) \in [1 .. count -> Bit]
  BY <1>2, BitsType
<1>4. \A i \in 1 .. count : Window(count)[i] = Bits(v, count)[i]
  <2>1. \A i \in 1 .. count : read + i <= Len(bits)
    BY <1>1
  <2>2. \A i \in 1 .. count : Window(count)[i] = IF read + i <= Len(bits)
        THEN bits[read + i] ELSE 0
    BY DEF Window
  <2> QED
    BY <2>1, <2>2
<1> DEFINE f == Window(count)
           g == Bits(v, count)
<1>5. f = g
  <2> HIDE DEF f, g
  <2>1. f \in [1 .. count -> Bit] /\ g \in [1 .. count -> Bit]
        /\ \A i \in 1 .. count : f[i] = g[i]
    BY <1>1, <1>3, <1>4 DEF f, g
  <2> QED
    BY <2>1
<1> QED
  BY <1>1, <1>2, <1>5

-----------------------------------------------------------------------------
(* The decoder is where the encoder was.                                   *)
AnsReader(x, c) ==
  LET d == Len(delivered)
      w == Len(message)
  IN
  /\ d < w /\ delivered = SubSeq(message, 1, d)
  /\ whole <=> Len(bits) >= StateBits + c[w]
  /\ phase = "read" => read = StateBits + (c[w] - c[w - d]) /\ state = x[w - d]
  /\ phase = "done" => (outcome = "ok" => d = w - 1) /\ (whole =>
       outcome = "ok" /\ state = TableSize)

(* The encoder follows a path, and its decoder goes the same path back.   *)
AnsTrip ==
  coder = "ans" /\ message # <<>> =>
    /\ phase # "descriptors"
    /\ phase \in {"normalize",
                  "spread"} => written = 0 /\ bits = <<>> /\ state = TableSize /\ whole
    /\ phase = "write" => whole /\ \E x, c :
         /\ AnsPath(slots, norm, message, x, c, written) /\ Wrote(bits, x, c, written)
         /\ state = x[written]
    /\ phase \in {"readState", "read", "done"} => \E x, c :
         /\ AnsPath(slots, norm, message, x, c, Len(message))
              /\ Carried(bits, x, c, Len(message))
         /\ AnsReader(x, c)

LEMMA AnsStarts == EntropyInit => AnsTrip
  BY DEF EntropyInit, InitEncoder, InitDecoder, AnsTrip

(* The path of nothing.                                                   *)
LEMMA PathStarts ==
  ASSUME NEW sl, NEW fr, NEW m
  PROVE  \E x, c : AnsPath(sl, fr, m, x, c, 0) /\ Wrote(<<>>, x, c, 0) /\ x[0] = TableSize
<1> DEFINE x == [j \in 0 .. 0 |-> TableSize]
           c == [j \in 0 .. 0 |-> 0]
<1>1. TableSize \in States
  BY TableFacts
<1>2. x \in [0 .. 0 -> States] /\ x[0] = TableSize /\ c \in [0 .. 0 -> Nat] /\ c[0] = 0
      /\ \A j \in 0 .. 0 : c[j] <= c[0]
  BY <1>1
<1> HIDE DEF x, c
<1>3. AnsPath(sl, fr, m, x, c, 0)
  BY <1>2 DEF AnsPath
<1>4. Wrote(<<>>, x, c, 0)
  BY <1>2 DEF Wrote
<1> QED
  BY <1>2, <1>3, <1>4

(* The table is built before anything is written, ...                     *)
LEMMA AnsBuilds ==
  ASSUME EntropyInvariant, AnsTrip, Build
  PROVE  AnsTrip'
<1> USE DEF treeVars, tableVars, writeVars, readVars
<1> SUFFICES ASSUME coder' = "ans", message' # <<>> PROVE AnsTrip'
  BY DEF AnsTrip
<1>1. coder = "ans" /\ message # <<>> /\ coder' = coder /\ message' = message
  BY InputsStay DEF EntropyNext
<1>2. CASE Merge \/ Merged \/ Limit \/ Limited
  BY <1>1, <1>2 DEF Merge, Merged, Limit, Limited, EntropyInvariant, CallsInOrder
<1>3. CASE Decrement \/ Increment \/ Normalized \/ Spread
  <2>1. phase \in {"normalize", "spread"} /\ phase' \in {"normalize", "spread"}
        /\ UNCHANGED <<coder, message, written, bits, state, whole>>
    BY <1>3 DEF Decrement, Increment, Normalized, Spread
  <2> QED
    BY <2>1 DEF AnsTrip
<1>4. CASE SpreadDone
  <2>1. phase = "spread" /\ phase' = "write" /\ UNCHANGED <<message, written, bits,
                                                            state, whole>>
    BY <1>1, <1>4 DEF SpreadDone
  <2>2. written' = 0 /\ bits' = <<>> /\ state' = TableSize /\ whole'
    BY <1>1, <2>1 DEF AnsTrip
  <2>3. \E x, c : /\ AnsPath(slots', norm', message', x, c, 0) /\ Wrote(<<>>, x, c, 0)
                       /\ x[0] = TableSize
    BY PathStarts
  <2> QED
    BY <2>1, <2>2, <2>3 DEF AnsTrip
<1> QED
  BY <1>2, <1>3, <1>4 DEF Build

(* ... the encoder extends the path, ...                                  *)
LEMMA AnsWrites ==
  ASSUME EntropyInvariant, AnsTrip, Write
  PROVE  AnsTrip'
<1> USE DEF treeVars, tableVars, writeVars, readVars
<1> SUFFICES ASSUME coder' = "ans", message' # <<>> PROVE AnsTrip'
  BY DEF AnsTrip
<1>1. coder = "ans" /\ message # <<>> /\ coder' = coder /\ message' = message
  BY InputsStay DEF EntropyNext
<1>2. CASE WriteHuffman
  BY <1>1, <1>2 DEF WriteHuffman
<1>3. CASE WriteAns
  <2> DEFINE s == message[Len(message) - written]
             n == EncodeBits(norm, s, state)
  <2>1. /\ phase = "write" /\ Filled(slots, norm) /\ written < Len(message)
        /\ bits' = Bits(state % Pow2[n], n) \o bits /\ written' = written + 1
        /\ state' = NextState(slots, s, state \div Pow2[n] - norm[s])
        /\ UNCHANGED <<phase, slots, norm, message, whole>>
        /\ written \in 0 .. Len(message) /\ message \in Seq(Symbols)
    BY <1>3 DEF WriteAns, EntropyInvariant, TableGrows, EntropyTypeOK
  <2>2. PICK x, c : /\ AnsPath(slots, norm, message, x, c, written)
                         /\ Wrote(bits, x, c, written)
                    /\ state = x[written]
    BY <1>1, <2>1 DEF AnsTrip
  <2>3. whole
    BY <1>1, <2>1 DEF AnsTrip
  <2>4. written \in 0 .. Len(message) - 1 /\ Len(message) - written \in 1 .. Len(message)
    BY <2>1
  <2>5. norm[s] # 0
    BY <1>1, <2>4, MessageSymbol
  <2> DEFINE x2 == Extended(x, written, state')
             c2 == Extended(c, written, c[written] + n)
  <2>6. /\ AnsPath(slots, norm, message, x2, c2, written + 1)
             /\ Wrote(bits', x2, c2, written + 1)
        /\ x2[written + 1] = state'
    BY <2>1, <2>2, <2>4, <2>5, PathGrows
  <2> HIDE DEF x2, c2
  <2>7. \E y, d : /\ AnsPath(slots', norm', message', y, d, written')
                       /\ Wrote(bits', y, d, written')
                  /\ state' = y[written']
    BY <2>1, <2>6
  <2> QED
    BY <2>1, <2>3, <2>7 DEF AnsTrip
<1>4. CASE Flush
  <2> DEFINE w == Len(message)
  <2>1. /\ phase = "write" /\ phase' = "readState" /\ written = w
        /\ UNCHANGED <<slots, norm, message, state, delivered>>
        /\ delivered = <<>> /\ message \in Seq(Symbols)
    BY <1>1, <1>4 DEF Flush, EntropyInvariant, CallsInOrder, EntropyTypeOK
  <2>2. PICK x, c : AnsPath(slots, norm, message, x, c, w) /\ Wrote(bits, x, c, w)
        /\ state = x[w]
    BY <1>1, <2>1 DEF AnsTrip
  <2>3. w \in Nat /\ w > 0
    BY <1>1, <2>1
  <2>4. c \in [0 .. w -> Nat] /\ \A j \in 0 .. w : c[j] <= c[w]
    BY <2>2 DEF AnsPath
  <2>5. Carried(bits', x, c, w) /\ (whole' <=> Len(bits') >= StateBits + c[w])
    <3> HIDE DEF w
    <3> QED
      BY <1>1, <1>4, <2>2, <2>3, <2>4, FlushCarries
  <2>6. AnsReader(x, c)'
    <3>1. Len(delivered') = 0 /\ delivered' = SubSeq(message', 1, Len(delivered'))
          /\ Len(message') = w
      BY <1>1, <2>1
    <3>2. phase' # "read" /\ phase' # "done"
      BY <2>1
    <3> HIDE DEF w
    <3> QED
      BY <2>3, <2>5, <3>1, <3>2 DEF AnsReader
  <2>7. \E y, d : /\ AnsPath(slots', norm', message', y, d, Len(message'))
                       /\ Carried(bits', y, d, Len(message'))
                  /\ AnsReader(y, d)'
    BY <2>1, <2>2, <2>5, <2>6
  <2> QED
    BY <2>1, <2>7 DEF AnsTrip
<1> QED
  BY <1>2, <1>3, <1>4 DEF Write

(* ... and the decoder goes back along it: what it reads takes it to the  *)
(* state the encoder came from, unless bits are missing, and then it      *)
(* stops.                                                                 *)
LEMMA AnsDecodes ==
  ASSUME EntropyInvariant, AnsTrip, DecodeStep
  PROVE  AnsTrip'
<1> USE DEF treeVars, tableVars, writeVars, readVars
<1> SUFFICES ASSUME coder' = "ans", message' # <<>> PROVE AnsTrip'
  BY DEF AnsTrip
<1> DEFINE w == Len(message)
           d == Len(delivered)
<1>1. /\ coder = "ans" /\ message # <<>> /\ coder' = coder /\ message' = message
      /\ expectedLen' = expectedLen
  BY InputsStay DEF EntropyNext
<1>2. /\ message \in Seq(Symbols) /\ w \in Nat /\ w > 0 /\ message[w] = Eob
      /\ expectedLen = w - 1 /\ \A i \in 1 .. w - 1 : message[i] # Eob
      /\ read \in 0 .. Len(bits) /\ Len(bits) \in Nat /\ EntropyTypeOK /\ StateBits \in Nat
  <2>1. message \in Seq(Symbols) /\ Len(bits) \in Nat /\ read \in 0 .. Len(bits)
        /\ EntropyTypeOK
    BY DEF EntropyInvariant, EntropyTypeOK
  <2>2. message[w] = Eob /\ expectedLen = w - 1 /\ \A i \in 1 .. w - 1 : message[i] # Eob
    BY <1>1 DEF EntropyInvariant, MessageEnds
  <2>3. Len(message) \in Nat \ {0}
    BY <1>1, CountsNow
  <2>4. w \in Nat /\ w > 0
    BY <2>3
  <2> HIDE DEF w
  <2> QED
    BY <2>1, <2>2, <2>4, TableFacts
<1>3. phase \in {"readState", "read"} =>
        \E x, c : /\ AnsPath(slots, norm, message, x, c, w) /\ Carried(bits, x, c, w)
                       /\ AnsReader(x, c)
  BY <1>1 DEF AnsTrip
<1>4. ASSUME NEW x, NEW c, AnsPath(slots, norm, message, x, c, w), Carried(bits, x, c, w),
             AnsReader(x, c)', UNCHANGED <<slots, norm, bits>>, phase' \in {"read", "done"}
      PROVE  AnsTrip'
  <2>1. \E y, e : /\ AnsPath(slots', norm', message', y, e, Len(message'))
                       /\ Carried(bits', y, e, Len(message'))
                  /\ AnsReader(y, e)'
    BY <1>1, <1>4
  <2> QED
    BY <1>4, <2>1 DEF AnsTrip
<1>5. ASSUME NEW x, NEW c, AnsPath(slots, norm, message, x, c, w)
      PROVE  /\ \A j \in 0 .. w : x[j] \in States /\ x[j] \in Nat /\ c[j] \in Nat
                  /\ c[j] <= c[w]
             /\ x[0] = TableSize /\ c[0] = 0
  <2>1. \A j \in 0 .. w : x[j] \in States /\ c[j] \in Nat /\ c[j] <= c[w]
    BY <1>2, <1>5 DEF AnsPath
  <2>2. x[0] = TableSize /\ c[0] = 0
    BY <1>5 DEF AnsPath
  <2> QED
    BY <2>1, <2>2, InStates
<1>6. CASE CheckDescriptors
  BY <1>1, <1>6 DEF CheckDescriptors, AnsTrip
<1>7. CASE ReadHuffman \/ ReadNoCode
  BY <1>1, <1>7 DEF ReadHuffman, ReadNoCode
<1>8. CASE ReadState
  <2>1. /\ phase = "readState" /\ read = 0 /\ delivered = <<>>
        /\ UNCHANGED <<slots, norm, bits, whole, delivered>>
    BY <1>8 DEF ReadState, EntropyInvariant, CallsInOrder
  <2>2. PICK x, c : /\ AnsPath(slots, norm, message, x, c, w)
                         /\ Carried(bits, x, c, w) /\ AnsReader(x, c)
    BY <1>3, <2>1
  <2>3. x[w] \in States /\ x[w] \in Nat /\ c[w] \in Nat
    BY <1>2, <1>5, <2>2
  <2>4. d = 0 /\ (whole <=> Len(bits) >= StateBits + c[w])
    BY <2>1, <2>2 DEF AnsReader
  <2>5. delivered' = SubSeq(message', 1, Len(delivered')) /\ Len(delivered') = 0
        /\ Len(message') = w
    BY <1>1, <2>1
  <2>6. CASE Available < StateBits
    <3>1. phase' = "done" /\ outcome' = "UnexpectedEof"
      BY <1>8, <2>6 DEF ReadState, Finish
    <3>2. ~(Len(bits) >= StateBits + c[w])
      BY <1>2, <2>1, <2>3, <2>6 DEF Available
    <3>3. AnsReader(x, c)'
      <4> HIDE DEF w
      <4> QED
        BY <1>2, <2>1, <2>4, <2>5, <3>1, <3>2 DEF AnsReader
    <3> QED
      BY <1>4, <2>1, <2>2, <3>1, <3>3
  <2>7. CASE ~(Available < StateBits)
    <3>1. read + StateBits <= Len(bits)
      BY <1>2, <2>1, <2>7 DEF Available
    <3>2. x[w] \in 0 .. Pow2[StateBits] - 1
      <4>1. 2 * TableSize <= Pow2[StateBits] /\ Pow2[StateBits] \in Nat /\ TableSize \in Nat
        BY TableFacts, Pow2Type
      <4>2. x[w] < 2 * TableSize
        BY <2>3, InStates
      <4> QED
        BY <2>3, <4>1, <4>2
    <3>3. \A i \in 1 .. StateBits : bits[read + i] = Bits(x[w], StateBits)[i]
      <4>1. \A i \in 1 .. StateBits : read + i = i /\ i <= Len(bits)
        BY <1>2, <2>1, <3>1
      <4> HIDE DEF w
      <4> QED
        BY <2>2, <4>1 DEF Carried
    <3>4. Peek(StateBits) = x[w]
      BY <1>2, <3>1, <3>2, <3>3, PeekFinds
    <3>5. state' = x[w] /\ read' = StateBits /\ phase' = "read"
      <4>1. Peek(StateBits) \in States
        BY <2>3, <3>4
      <4> QED
        BY <1>2, <1>8, <2>1, <2>7, <3>4, <4>1 DEF ReadState
    <3>6. AnsReader(x, c)'
      <4>1. w - 0 = w /\ c[w] - c[w] = 0 /\ StateBits + 0 = StateBits
        BY <1>2, <2>3
      <4> HIDE DEF w
      <4> QED
        BY <1>2, <2>1, <2>4, <2>5, <3>5, <4>1 DEF AnsReader
    <3> QED
      BY <1>4, <2>1, <2>2, <3>5, <3>6
  <2> QED
    BY <2>6, <2>7
<1>9. CASE ReadAns \/ ReadAnsEof
  <2> DEFINE j == w - d
             entry == DecodeEntry(slots, norm, state)
             n == entry.bits
  <2>1. phase = "read" /\ UNCHANGED <<slots, norm, bits, whole>>
    BY <1>9 DEF ReadAns, ReadAnsEof
  <2>2. PICK x, c : /\ AnsPath(slots, norm, message, x, c, w)
                         /\ Carried(bits, x, c, w) /\ AnsReader(x, c)
    BY <1>3, <2>1
  <2>3. /\ d < w /\ delivered = SubSeq(message, 1, d)
             /\ (whole <=> Len(bits) >= StateBits + c[w])
        /\ read = StateBits + (c[w] - c[j]) /\ state = x[j] /\ d \in Nat
             /\ delivered \in Seq(Symbols)
    BY <2>1, <2>2 DEF AnsReader, EntropyInvariant, EntropyTypeOK
  <2> HIDE DEF d
  <2>4. j \in 1 .. w /\ j \in 0 .. w /\ j - 1 \in 0 .. w /\ w + 1 - j = d + 1
        /\ d + 1 \in 1 .. w /\ j - 1 = w - (d + 1)
    BY <1>2, <2>3
  <2> HIDE DEF j
  <2>5. /\ entry.symbol = message[d + 1] /\ n \in Nat /\ c[j] = c[j - 1] + n
        /\ x[j - 1] % Pow2[n] \in 0 .. Pow2[n] - 1
        /\ entry.base + (x[j - 1] % Pow2[n]) = x[j - 1]
    <3> HIDE DEF w
    <3>1. /\ entry.symbol = message[w + 1 - j] /\ entry.bits \in Nat
               /\ c[j] = c[j - 1] + entry.bits
          /\ x[j - 1] % Pow2[entry.bits] \in 0 .. Pow2[entry.bits] - 1
          /\ entry.base + (x[j - 1] % Pow2[entry.bits]) = x[j - 1]
      BY <2>2, <2>3, <2>4 DEF AnsPath, w
    <3> QED
      BY <2>4, <3>1
  <2>6. c[j] \in Nat /\ c[j - 1] \in Nat /\ c[j] <= c[w] /\ c[w] \in Nat /\ c[j] - c[j - 1] = n
    <3>1. c[j] \in Nat /\ c[j - 1] \in Nat /\ c[j] <= c[w] /\ c[w] \in Nat
      BY <1>2, <1>5, <2>2, <2>4
    <3> HIDE DEF entry, w
    <3> QED
      BY <2>5, <3>1
  <2> HIDE DEF entry
  <2>7. CASE ReadAns
    <3>1. read + n <= Len(bits)
      <4>1. n <= Available
        BY <2>7 DEF ReadAns, AnsReads, entry
      <4> HIDE DEF w
      <4> QED
        BY <1>2, <2>5, <4>1 DEF Available
    <3>2. \A i \in 1 .. n : bits[read + i] = Bits(x[j - 1] % Pow2[n], n)[i]
      <4> SUFFICES ASSUME NEW i \in 1 .. n PROVE bits[read + i] = Bits(x[j - 1] % Pow2[n], n)[i]
        OBVIOUS
      <4>1. i \in 1 .. c[j] - c[j - 1] /\ Chunk(x, c, j) = Bits(x[j - 1] % Pow2[n], n)
        BY <2>6 DEF Chunk
      <4>2. read + i = StateBits + (c[w] - c[j]) + i /\ read + i <= Len(bits)
        <5> HIDE DEF w
        <5> QED
          BY <1>2, <2>3, <2>5, <3>1
      <4> HIDE DEF w
      <4> QED
        BY <2>2, <2>4, <4>1, <4>2 DEF Carried
    <3>3. Peek(n) = x[j - 1] % Pow2[n]
      <4> DEFINE v == x[j - 1] % Pow2[n]
      <4>1. v \in 0 .. Pow2[n] - 1 /\ \A i \in 1 .. n : bits[read + i] = Bits(v, n)[i]
        BY <2>5, <3>2
      <4> HIDE DEF v, w
      <4>2. Peek(n) = v
        BY <1>2, <2>5, <3>1, <4>1, PeekFinds
      <4> QED
        BY <4>2 DEF v
    <3>4. state' = x[j - 1] /\ read' = read + n /\ Deliver(message[d + 1])
      <4>1. state' = entry.base + Peek(n) /\ read' = Dropped(n) /\ Deliver(entry.symbol)
        BY <2>7 DEF ReadAns, entry
      <4>2. Dropped(n) = read + n
        BY <1>2, <2>5, <3>1, DroppedIs
      <4> QED
        BY <2>5, <3>3, <4>1, <4>2
    <3>5. CASE message[d + 1] = Eob
      <4>1. d + 1 = w
        BY <1>2, <2>4, <3>5
      <4>2. phase' = "done" /\ outcome' = "ok" /\ delivered' = delivered
        <5>1. d = expectedLen
          BY <1>2, <2>3, <4>1
        <5> QED
          BY <3>4, <3>5, <5>1 DEF Deliver, Finish, d
      <4>3. state' = TableSize
        <5>1. j - 1 = 0
          BY <1>2, <2>4, <4>1
        <5> QED
          BY <1>2, <1>5, <2>2, <3>4, <5>1
      <4>4. AnsReader(x, c)'
        <5>1. Len(delivered') = d /\ d = w - 1 /\ Len(message') = w /\ message' = message
          BY <1>1, <1>2, <2>3, <4>1, <4>2 DEF d
        <5> HIDE DEF w
        <5> QED
          BY <2>1, <2>3, <4>2, <4>3, <5>1 DEF AnsReader
      <4> QED
        BY <1>4, <2>1, <2>2, <4>2, <4>4
    <3>6. CASE message[d + 1] # Eob
      <4>1. d + 1 < w
        BY <1>2, <2>4, <3>6
      <4>2. phase' = "read" /\ delivered' = Append(delivered, message[d + 1])
        <5>1. d < expectedLen /\ d # expectedLen
          BY <1>2, <2>3, <4>1
        <5> QED
          BY <2>1, <3>4, <3>6, <5>1 DEF Deliver, d
      <4>3. Len(delivered') = d + 1 /\ delivered' = SubSeq(message, 1, d + 1)
        <5>1. Len(delivered') = d + 1
          BY <2>3, <4>2 DEF d
        <5>2. delivered' = SubSeq(message, 1, d + 1)
          <6> DEFINE s == message[d + 1]
          <6>1. s \in Symbols /\ d + 1 \in 1 .. w /\ delivered' = SubSeq(message, 1, d) \o <<s>>
            BY <1>2, <2>3, <2>4, <4>2
          <6>2. <<s>> \in Seq(Symbols) /\ Len(<<s>>) = 1 /\ <<s>>[1] = s
            BY <6>1
          <6>3. SubSeq(message, 1, d) \o <<s>> = SubSeq(message, 1, d + 1)
            <7> DEFINE one == <<s>>
            <7>1. one \in Seq(Symbols) /\ Len(one) = 1
                  /\ \A i \in 1 .. Len(one) : one[i] = message[d + i]
              BY <6>2
            <7> HIDE DEF one
            <7>2. d \in Nat /\ d + Len(one) <= Len(message)
              BY <1>2, <2>3, <4>1, <7>1
            <7> QED
              BY <1>2, <7>1, <7>2, PrefixGrows DEF one
          <6> QED
            BY <6>1, <6>3
        <5> QED
          BY <5>1, <5>2
      <4>4. read' = StateBits + (c[w] - c[j - 1])
        <5> HIDE DEF w
        <5> QED
          BY <1>2, <2>3, <2>5, <2>6, <3>4
      <4>5. AnsReader(x, c)'
        <5>1. Len(message') = w /\ message' = message
          BY <1>1
        <5> HIDE DEF w
        <5> QED
          BY <2>1, <2>3, <2>4, <3>4, <4>1, <4>2, <4>3, <4>4, <5>1 DEF AnsReader
      <4> QED
        BY <1>4, <2>1, <2>2, <4>2, <4>5
    <3> QED
      BY <3>5, <3>6
  <2>8. CASE ReadAnsEof
    <3>1. phase' = "done" /\ outcome' = "UnexpectedEof" /\ UNCHANGED <<delivered, message>>
      BY <2>8 DEF ReadAnsEof, Finish
    <3>2. ~whole
      <4>1. ~(n <= Available)
        BY <2>8 DEF ReadAnsEof, AnsReads, entry
      <4> DEFINE cw == c[w]
                 cj == c[j]
                 cp == c[j - 1]
      <4>2. /\ cw \in Nat /\ cj \in Nat /\ cp \in Nat /\ n \in Nat /\ cj = cp + n /\ cj <= cw
            /\ read = StateBits + (cw - cj) /\ ~(n <= Len(bits) - read)
                 /\ Len(bits) \in Nat /\ StateBits \in Nat
        BY <1>2, <2>3, <2>5, <2>6, <4>1 DEF Available
      <4> HIDE DEF cw, cj, cp, w
      <4>3. ~(Len(bits) >= StateBits + cw)
        BY <4>2, SMTT(60)
      <4> QED
        BY <2>3, <4>3 DEF cw
    <3>3. AnsReader(x, c)'
      <4> HIDE DEF w
      <4> QED
        BY <2>1, <2>3, <3>1, <3>2 DEF AnsReader, d, w
    <3> QED
      BY <1>4, <2>1, <2>2, <3>1, <3>3
  <2> QED
    BY <1>9, <2>7, <2>8
<1> QED
  BY <1>6, <1>7, <1>8, <1>9 DEF DecodeStep

LEMMA AnsRests ==
  ASSUME AnsTrip, UNCHANGED entropyVars
  PROVE  AnsTrip'
<1>1. UNCHANGED <<phase, coder, heap, lengths, norm, slots, pos, state, message, written, bits,
                  whole, expectedLen, read, delivered, outcome>>
  BY DEF entropyVars, treeVars, tableVars, writeVars, readVars
<1>2. \A x, c : AnsReader(x, c)' <=> AnsReader(x, c)
  BY <1>1 DEF AnsReader
<1> QED
  BY <1>1, <1>2 DEF AnsTrip

(* Every step keeps the round trip of ANS.                                *)
LEMMA AnsSteps ==
  ASSUME EntropyInvariant, AnsTrip, [EntropyNext]_entropyVars
  PROVE  AnsTrip'
BY AnsBuilds, AnsWrites, AnsDecodes, AnsRests DEF EntropyNext, Finished

-----------------------------------------------------------------------------
(***************************************************************************)
(* The round trip of Huffman codes, and both together.                    *)
(***************************************************************************)

(* Every symbol of the message is in a subtree, and only those of a leaf   *)
(* that was never joined may still be without a length.                    *)
TreeGrows ==
  coder = "huffman" /\ message # <<>> =>
    /\ phase = "merge" =>
         /\ IsFiniteSet(heap)
         /\ \A s \in Counted(Counts(message)) : \E a \in heap : s \in a.symbols
         /\ \A a \in heap : a \in Leaves(Counts(message))
              \/ \A s \in a.symbols \cap Symbols : lengths[s] > 0
    /\ phase # "merge" => \A s \in Counted(Counts(message)) : lengths[s] > 0

(* The leaf of a symbol.                                                  *)
Leaf(counts, s) ==
  [freq |-> counts[s],
   idx |-> Cardinality({r \in Symbols : r < s /\ counts[r] > 0}),
   symbols |-> {s}]

(* Every symbol that occurs has a leaf.                                   *)
LEMMA LeavesAre ==
  ASSUME NEW counts
  PROVE  /\ IsFiniteSet(Leaves(counts))
         /\ \A s \in Counted(counts) : Leaf(counts, s) \in Leaves(counts)
         /\ \A a \in Leaves(counts) : \E s \in Counted(counts) : a = Leaf(counts, s)
         /\ \A s : Leaf(counts, s).symbols = {s}
<1> DEFINE C == Counted(counts)
           L == Leaves(counts)
           f == [s \in C |-> Leaf(counts, s)]
<1>1. C = {r \in Symbols : counts[r] > 0}
  BY SymbolsAre DEF Counted
<1>2. L = {Leaf(counts, s) : s \in C}
  BY <1>1 DEF Leaves, Leaf
<1>3. IsFiniteSet(C)
  <2>1. C \in SUBSET Symbols
    BY <1>1
  <2> HIDE DEF C
  <2> QED
    BY <2>1, SymbolsAre, FS_Subset
<1>4. f \in Surjection(C, L)
  <2>1. f \in [C -> L]
    BY <1>2
  <2>2. \A a \in L : \E s \in C : f[s] = a
    BY <1>2
  <2> HIDE DEF C, L, f
  <2> QED
    BY <2>1, <2>2 DEF Surjection
<1>5. IsFiniteSet(L)
  <2> HIDE DEF C, L, f
  <2> QED
    BY <1>3, <1>4, FS_Surjection
<1>6. \A s : Leaf(counts, s).symbols = {s}
  BY DEF Leaf
<1> HIDE DEF C, L, f
<1>7. (\A s \in C : Leaf(counts, s) \in L) /\ \A a \in L : \E s \in C : a = Leaf(counts, s)
  BY <1>2
<1> QED
  BY <1>5, <1>6, <1>7 DEF C, L

(* The tree: in the beginning there are leaves.                           *)
LEMMA TreeStarts == EntropyInit => TreeGrows
<1> SUFFICES ASSUME EntropyInit, coder = "huffman", message # <<>> PROVE TreeGrows
  BY DEF TreeGrows
<1>1. InitEncoder
  BY DEF EntropyInit, InitDecoder
<1>2. phase = "merge" /\ heap = Leaves(Counts(message))
  BY <1>1 DEF InitEncoder
<1>3. \A s \in Counted(Counts(message)) : \E a \in heap : s \in a.symbols
  BY <1>2, LeavesAre
<1> QED
  BY <1>2, <1>3, LeavesAre DEF TreeGrows

(* Symbols below a parent have codes.                                     *)
LEMMA TreeMerges ==
  ASSUME EntropyInvariant, TreeGrows, Merge, message # <<>>
  PROVE  TreeGrows'
<1> DEFINE counts == Counts(message)
<1>1. /\ phase = "merge" /\ phase' = "merge" /\ message' = message /\ coder = "huffman"
      /\ lengths \in [Symbols -> Nat] /\ Cardinality(heap) > 1
  BY DEF Merge, writeVars, EntropyInvariant, CallsInOrder, EntropyTypeOK
<1>2. /\ IsFiniteSet(heap) /\ \A s \in Counted(counts) : \E a \in heap : s \in a.symbols
      /\ \A a \in heap : a \in Leaves(counts)
           \/ \A s \in a.symbols \cap Symbols : lengths[s] > 0
  BY <1>1 DEF TreeGrows
<1>0. PICK a \in heap, b \in heap : \E n :
        /\ heap' = (heap \ {a, b}) \cup {Parent(a, b, n)}
        /\ lengths' = [s \in Symbols |->
                         IF s \in a.symbols \cup b.symbols THEN lengths[s] + 1 ELSE lengths[s]]
  BY DEF Merge
<1>3. PICK n :
        /\ heap' = (heap \ {a, b}) \cup {Parent(a, b, n)}
        /\ lengths' = [s \in Symbols |->
                         IF s \in a.symbols \cup b.symbols THEN lengths[s] + 1 ELSE lengths[s]]
  BY <1>0
<1> DEFINE p == Parent(a, b, n)
<1>4. p.symbols = a.symbols \cup b.symbols
  BY DEF Parent
<1> HIDE DEF p, counts
<1>5. heap' = (heap \ {a, b}) \cup {p}
  BY <1>3 DEF p
<1>6. IsFiniteSet(heap')
  <2>1. IsFiniteSet(heap \ {a, b})
    <3>1. heap \ {a, b} \in SUBSET heap
      OBVIOUS
    <3> QED
      BY <1>2, <3>1, FS_Subset
  <2> QED
    BY <1>5, <2>1, FS_AddElement
<1>7. \A s \in Counted(counts) : \E d \in heap' : s \in d.symbols
  <2> SUFFICES ASSUME NEW s \in Counted(counts) PROVE \E d \in heap' : s \in d.symbols
    OBVIOUS
  <2>1. PICK d \in heap : s \in d.symbols
    BY <1>2
  <2>2. CASE d \in {a, b}
    BY <1>4, <1>5, <2>1, <2>2
  <2>3. CASE d \notin {a, b}
    BY <1>5, <2>1, <2>3
  <2> QED
    BY <2>2, <2>3
<1>8. \A s \in Symbols : /\ lengths'[s] \in Nat /\ lengths'[s] >= lengths[s]
                              /\ lengths[s] \in Nat
                         /\ s \in p.symbols => lengths'[s] > 0
  BY <1>1, <1>3, <1>4
<1>9. \A d \in heap' : d \in Leaves(counts) \/ \A s \in d.symbols \cap Symbols : lengths'[s] > 0
  <2> SUFFICES ASSUME NEW d \in heap', d \notin Leaves(counts), NEW s \in d.symbols \cap Symbols
               PROVE  lengths'[s] > 0
    OBVIOUS
  <2>1. CASE d = p
    BY <1>8, <2>1
  <2>2. CASE d # p
    <3>1. d \in heap
      BY <1>5, <2>2
    <3>2. lengths[s] > 0
      BY <1>2, <3>1
    <3> QED
      BY <1>8, <3>2
  <2> QED
    BY <2>1, <2>2
<1>10. Counts(message') = counts
  BY <1>1 DEF counts
<1> QED
  BY <1>1, <1>6, <1>7, <1>9, <1>10 DEF TreeGrows

(* With a single subtree left, all symbols have codes.                    *)
LEMMA TreeIsMerged ==
  ASSUME EntropyInvariant, TreeGrows, Merged
  PROVE  TreeGrows'
<1> DEFINE counts == Counts(message)
<1>1. /\ phase = "merge" /\ phase' = "limit" /\ message' = message
           /\ coder = "huffman" /\ message # <<>>
      /\ lengths \in [Symbols -> Nat] /\ Cardinality(heap) = 1
      /\ lengths' = Clamped([s \in Symbols |->
                       IF heap = Leaves(counts) /\ counts[s] > 0 THEN 1 ELSE lengths[s]])
  BY DEF Merged, writeVars, EntropyInvariant, CallsInOrder, EntropyTypeOK
<1>2. /\ IsFiniteSet(heap) /\ \A s \in Counted(counts) : \E a \in heap : s \in a.symbols
      /\ \A a \in heap : a \in Leaves(counts)
           \/ \A s \in a.symbols \cap Symbols : lengths[s] > 0
  BY <1>1 DEF TreeGrows
<1>3. PICK a : heap = {a}
  BY <1>1, <1>2, FS_Singleton
<1>4. ASSUME NEW s \in Counted(counts) PROVE lengths'[s] > 0
  <2>1. s \in Symbols /\ counts[s] > 0 /\ lengths[s] \in Nat
    BY <1>1, <1>4, SymbolsAre DEF Counted
  <2> HIDE DEF counts
  <2>2. s \in a.symbols
    BY <1>2, <1>3
  <2>3. heap = Leaves(counts) \/ lengths[s] > 0
    <3>1. CASE a \in Leaves(counts)
      <4>1. PICK r \in Counted(counts) : a = Leaf(counts, r)
        BY <3>1, LeavesAre
      <4>2. \A q \in Counted(counts) : q \in a.symbols
        BY <1>2, <1>3
      <4>3. \A q \in Counted(counts) : q = r
        BY <4>1, <4>2, LeavesAre
      <4>4. \A e \in Leaves(counts) : e = a
        BY <4>1, <4>3, LeavesAre
      <4> QED
        BY <1>3, <3>1, <4>4
    <3>2. CASE a \notin Leaves(counts)
      BY <1>2, <1>3, <2>1, <2>2, <3>2
    <3> QED
      BY <3>1, <3>2
  <2>4. MaxBits \in Nat /\ MaxBits > 0
    BY HuffmanAssumption
  <2> DEFINE depths == [q \in Symbols |->
                         IF heap = Leaves(counts) /\ counts[q] > 0 THEN 1 ELSE lengths[q]]
  <2>5. depths[s] \in Nat /\ depths[s] > 0
    BY <2>1, <2>3
  <2>6. lengths' = Clamped(depths)
    BY <1>1 DEF counts
  <2> HIDE DEF depths
  <2>7. Clamped(depths)[s] = IF depths[s] > MaxBits THEN MaxBits ELSE depths[s]
    BY <2>1 DEF Clamped
  <2> QED
    BY <2>4, <2>5, <2>6, <2>7
<1> HIDE DEF counts
<1>5. Counts(message') = counts
  BY <1>1 DEF counts
<1> QED
  BY <1>1, <1>4, <1>5 DEF TreeGrows

(* Every step keeps this of the tree.                                     *)
LEMMA TreeSteps ==
  ASSUME EntropyInvariant, TreeGrows, [EntropyNext]_entropyVars
  PROVE  TreeGrows'
<1> USE DEF treeVars, tableVars, writeVars, readVars
<1> SUFFICES ASSUME coder' = "huffman", message' # <<>> PROVE TreeGrows'
  BY DEF TreeGrows
<1>1. coder = "huffman" /\ message # <<>> /\ coder' = coder /\ message' = message
  BY InputsStay
<1>2. CASE Merge
  BY <1>1, <1>2, TreeMerges
<1>3. CASE Merged
  BY <1>3, TreeIsMerged
<1>4. CASE Limit
  <2> DEFINE t == Lengthened(lengths)
  <2>1. /\ phase = "limit" /\ phase' = "limit" /\ lengths \in CodeLengths
             /\ Oversubscribed(lengths)
        /\ lengths' = [lengths EXCEPT ![t] = @ + 1]
    BY <1>1, <1>4 DEF Limit, EntropyInvariant, LengthsAre
  <2>2. t \in Symbols
    BY <2>1, LengthenedIs DEF UsedIn
  <2>3. \A s \in Symbols : lengths[s] \in Nat /\ lengths'[s] >= lengths[s]
    <3>1. lengths \in [Symbols -> Nat]
      BY <2>1, LengthsAreNat
    <3> HIDE DEF t
    <3> QED
      BY <2>1, <2>2, <3>1
  <2>4. \A s \in Counted(Counts(message)) : s \in Symbols /\ lengths[s] > 0
    BY <1>1, <2>1, SymbolsAre DEF TreeGrows, Counted
  <2>5. lengths' \in [Symbols -> Nat]
    BY <1>4, LimitKeeps DEF EntropyTypeOK
  <2>6. \A s \in Counted(Counts(message)) : lengths'[s] > 0
    BY <2>3, <2>4, <2>5
  <2> QED
    BY <1>1, <2>1, <2>6 DEF TreeGrows
<1>5. CASE UNCHANGED lengths /\ phase # "merge" /\ phase' # "merge"
  BY <1>1, <1>5 DEF TreeGrows
<1>6. CASE UNCHANGED entropyVars
  BY <1>6 DEF TreeGrows, entropyVars
<1>7. CASE Limited \/ Decrement \/ Increment \/ Normalized \/ Spread \/ SpreadDone
  <2>1. UNCHANGED lengths /\ phase # "merge" /\ phase' # "merge"
    BY <1>7 DEF Limited, Decrement, Increment, Normalized, Spread, SpreadDone
  <2> QED
    BY <1>5, <2>1
<1>8. CASE Write
  <2>1. UNCHANGED lengths /\ phase # "merge" /\ phase' # "merge"
    BY <1>8 DEF Write, WriteHuffman, WriteAns, Flush
  <2> QED
    BY <1>5, <2>1
<1>9. CASE DecodeStep
  <2>1. UNCHANGED lengths /\ phase # "merge" /\ phase' # "merge"
    BY <1>9 DEF DecodeStep, CheckDescriptors, ReadState, ReadHuffman, ReadNoCode,
        ReadAns, ReadAnsEof,
       Deliver, Finish
  <2> QED
    BY <1>5, <2>1
<1> QED
  BY <1>2, <1>3, <1>4, <1>6, <1>7, <1>8, <1>9 DEF EntropyNext, Build, Finished

-----------------------------------------------------------------------------
(* Where the code of a symbol begins: behind those of the symbols before.  *)
Costs(ls, m) == [i \in DOMAIN m |-> ls[m[i]]]
BitsBefore(ls, m, i) == SumFunctionOnSet(Costs(ls, m), 1 .. i)

(* A code begins where the one before it ends.                            *)
LEMMA BitsBeforeIs ==
  ASSUME NEW ls \in [Symbols -> Nat], NEW m \in Seq(Symbols)
  PROVE  /\ BitsBefore(ls, m, 0) = 0
         /\ \A i \in 0 .. Len(m) : BitsBefore(ls, m, i) \in Nat
              /\ BitsBefore(ls, m, i) <= BitsBefore(ls, m, Len(m))
         /\ \A i \in 0 .. Len(m) - 1 : BitsBefore(ls, m, i + 1) = BitsBefore(ls, m, i)
              + ls[m[i + 1]]
<1> DEFINE g == Costs(ls, m)
           n == Len(m)
<1>1. n \in Nat /\ DOMAIN m = 1 .. n /\ \A i \in 1 .. n : g[i] = ls[m[i]]
      /\ g[i] \in Nat /\ g[i] \in Int
  <2>1. \A i \in 1 .. n : m[i] \in Symbols
    OBVIOUS
  <2>2. \A i \in 1 .. n : g[i] = ls[m[i]] /\ ls[m[i]] \in Nat
    BY <2>1 DEF Costs
  <2>3. n \in Nat /\ DOMAIN m = 1 .. n
    OBVIOUS
  <2> QED
    BY <2>2, <2>3
<1> HIDE DEF g, n
<1>2. \A i \in 0 .. n : IsFiniteSet(1 .. i) /\ 1 .. i \in SUBSET (1 .. n)
  <2>1. \A i \in 0 .. n : i \in Int
    BY <1>1
  <2>2. \A i \in 0 .. n : 1 .. i \in SUBSET (1 .. n)
    BY <1>1
  <2> QED
    BY <2>1, <2>2, IntervalIsFinite
<1>3. SumFunctionOnSet(g, 1 .. 0) = 0
  <2>1. 1 .. 0 = {}
    OBVIOUS
  <2> QED
    BY <2>1, SumEmpty
<1>4. ASSUME NEW i \in 0 .. n
      PROVE  SumFunctionOnSet(g, 1 .. i) \in Nat
               /\ SumFunctionOnSet(g, 1 .. i) <= SumFunctionOnSet(g, 1 .. n)
  <2>1. \A k \in 1 .. i : g[k] \in Nat
    BY <1>1, <1>2
  <2>2. IsFiniteSet(1 .. n)
    BY <1>1, <1>2
  <2>3. SumFunctionOnSet(g, 1 .. i) \in Nat
    BY <1>2, <2>1, SumNat
  <2>4. SumFunctionOnSet(g, 1 .. i) <= SumFunctionOnSet(g, 1 .. n)
    BY <1>1, <1>2, <2>2, SumPart
  <2> QED
    BY <2>3, <2>4
<1>5. ASSUME NEW i \in 0 .. n - 1
      PROVE  SumFunctionOnSet(g, 1 .. (i + 1)) = SumFunctionOnSet(g, 1 .. i) + g[i + 1]
  <2>1. 1 .. (i + 1) = (1 .. i) \cup {i + 1} /\ i + 1 \notin 1 .. i /\ i \in 0 .. n
        /\ i + 1 \in 0 .. n /\ i + 1 \in 1 .. n
    BY <1>1
  <2>2. \A k \in (1 .. i) \cup {i + 1} : g[k] \in Int
    BY <1>1, <1>2, <2>1
  <2>3. IsFiniteSet(1 .. i)
    BY <1>2, <2>1
  <2>4. SumFunctionOnSet(g, (1 .. i) \cup {i + 1}) = SumFunctionOnSet(g, 1 .. i) + g[i + 1]
    BY <2>1, <2>2, <2>3, SumWith
  <2> QED
    BY <2>1, <2>4
<1>6. \A i \in 0 .. n - 1 : g[i + 1] = ls[m[i + 1]]
  BY <1>1
<1> QED
  BY <1>3, <1>4, <1>5, <1>6 DEF BitsBefore, g, n

(* What it costs to write something is where the code behind it begins.    *)
LEMMA CodeBitsIs ==
  ASSUME NEW m \in Seq(Symbols), lengths \in [Symbols -> Nat]
  PROVE  CodeBits(m) = BitsBefore(lengths, m, Len(m)) /\ CodeBits(m) \in Nat
<1>1. DOMAIN m = 1 .. Len(m) /\ Len(m) \in Nat
  OBVIOUS
<1>2. CodeBits(m) = SumFunctionOnSet(Costs(lengths, m), DOMAIN Costs(lengths, m))
  BY DEF CodeBits, Costs, SumFunction
<1>3. DOMAIN Costs(lengths, m) = 1 .. Len(m)
  BY <1>1 DEF Costs
<1>4. BitsBefore(lengths, m, Len(m)) \in Nat
  BY <1>1, BitsBeforeIs
<1> QED
  BY <1>2, <1>3, <1>4 DEF BitsBefore

(* What it costs to write the first d symbols.                            *)
LEMMA CostOfPrefix ==
  ASSUME NEW m \in Seq(Symbols), NEW d \in 0 .. Len(m), lengths \in [Symbols -> Nat]
  PROVE  CodeBits(SubSeq(m, 1, d)) = BitsBefore(lengths, m, d)
<1> DEFINE p == SubSeq(m, 1, d)
           g == Costs(lengths, m)
           h == Costs(lengths, p)
<1>1. p \in Seq(Symbols) /\ Len(p) = d /\ d \in Nat /\ \A i \in 1 .. d : p[i] = m[i]
  BY PrefixOfPrefix, PrefixElements
<1>2. \A i \in 1 .. d : g[i] = lengths[m[i]] /\ g[i] \in Int
  <2>1. \A i \in 1 .. d : i \in DOMAIN m /\ m[i] \in Symbols
    OBVIOUS
  <2> QED
    BY <2>1 DEF Costs
<1>3. \A i \in 1 .. d : h[i] = lengths[p[i]]
  <2> HIDE DEF p
  <2>1. \A i \in 1 .. d : i \in DOMAIN p
    BY <1>1
  <2> QED
    BY <2>1 DEF Costs
<1> HIDE DEF p, g, h
<1>4. IsFiniteSet(1 .. d)
  <2>1. 1 \in Int /\ d \in Int
    BY <1>1
  <2> QED
    BY <2>1, IntervalIsFinite
<1>5. \A i \in 1 .. d : g[i] \in Int /\ h[i] = g[i]
  BY <1>1, <1>2, <1>3
<1>6. SumFunctionOnSet(h, 1 .. d) = SumFunctionOnSet(g, 1 .. d)
  BY <1>4, <1>5, SumSame
<1>7. CodeBits(p) = BitsBefore(lengths, p, d)
  BY <1>1, CodeBitsIs
<1> QED
  BY <1>6, <1>7 DEF BitsBefore, g, h, p

(* What it costs to write one more.                                       *)
LEMMA CostOfOneMore ==
  ASSUME NEW m \in Seq(Symbols), NEW s \in Symbols, lengths \in [Symbols -> Nat]
  PROVE  CodeBits(Append(m, s)) = CodeBits(m) + lengths[s]
<1> DEFINE a == Append(m, s)
           n == Len(m)
<1>1. a \in Seq(Symbols) /\ n \in Nat /\ Len(a) = n + 1 /\ a[n + 1] = s
      /\ \A i \in 1 .. n : a[i] = m[i]
  OBVIOUS
<1>2. SubSeq(a, 1, n) = m
  <2>1. SubSeq(a, 1, n) \in Seq(Symbols) /\ Len(SubSeq(a, 1, n)) = n
    BY <1>1, PrefixOfPrefix
  <2>2. \A i \in 1 .. n : SubSeq(a, 1, n)[i] = m[i]
    <3> HIDE DEF a
    <3>1. n \in 0 .. Len(a)
      BY <1>1
    <3>2. \A i \in 1 .. n : SubSeq(a, 1, n)[i] = a[i]
      BY <1>1, <3>1, PrefixElements
    <3> QED
      BY <1>1, <3>2
  <2> DEFINE p == SubSeq(a, 1, n)
  <2>3. p \in Seq(Symbols) /\ Len(p) = Len(m) /\ \A i \in 1 .. Len(m) : p[i] = m[i]
    BY <2>1, <2>2
  <2> HIDE DEF p
  <2>4. p = m
    BY <2>3
  <2> QED
    BY <2>4 DEF p
<1> HIDE DEF a, n
<1>3. CodeBits(m) = BitsBefore(lengths, a, n)
  <2>1. n \in 0 .. Len(a)
    BY <1>1
  <2> QED
    BY <1>1, <1>2, <2>1, CostOfPrefix
<1>4. CodeBits(a) = BitsBefore(lengths, a, n + 1)
  BY <1>1, CodeBitsIs
<1>5. BitsBefore(lengths, a, n + 1) = BitsBefore(lengths, a, n) + lengths[s]
  <2>1. n \in 0 .. Len(a) - 1
    BY <1>1
  <2> QED
    BY <1>1, <2>1, BitsBeforeIs
<1> QED
  BY <1>3, <1>4, <1>5 DEF a

-----------------------------------------------------------------------------
(* The codes of the first w symbols stand one behind the other, as far as  *)
(* there are bits.                                                         *)
Coded(b, ls, m, w) ==
  \A i \in 1 .. w : \A k \in 1 .. ls[m[i]] :
    BitsBefore(ls, m, i - 1) + k <= Len(b) =>
      b[BitsBefore(ls, m, i - 1) + k] = Bits(Code(ls, m[i]), ls[m[i]])[k]

(* The decoder reads where the code of the next symbol begins; behind     *)
(* missing bits, what it delivered costs more than there is.              *)
HuffmanReader ==
  LET d == Len(delivered)
      w == Len(message)
  IN
  /\ whole <=> Len(bits) >= BitsBefore(lengths, message, w)
  /\ \/ /\ d < w /\ delivered = SubSeq(message, 1, d)
        /\ phase # "done" => read = BitsBefore(lengths, message, d)
     \/ ~whole /\ CodeBits(delivered) > Len(bits)
  /\ phase = "done" /\ whole => outcome = "ok" /\ d = w - 1

(* The encoder writes codes one behind the other, and its decoder reads   *)
(* them.                                                                  *)
HuffmanTrip ==
  coder = "huffman" /\ message # <<>> =>
    /\ phase \in {"merge", "limit"} => written = 0 /\ bits = <<>> /\ whole
    /\ phase = "write" =>
         /\ whole /\ Len(bits) = BitsBefore(lengths, message, written)
         /\ Coded(bits, lengths, message, written)
    /\ phase \in {"descriptors", "read", "done"} =>
         Coded(bits, lengths, message, Len(message)) /\ HuffmanReader

LEMMA HuffmanStarts == EntropyInit => HuffmanTrip
  BY DEF EntropyInit, InitEncoder, InitDecoder, HuffmanTrip

(* The tree is built before anything is written.                          *)
LEMMA HuffmanBuilds ==
  ASSUME EntropyInvariant, HuffmanTrip, Build
  PROVE  HuffmanTrip'
<1> USE DEF treeVars, tableVars, writeVars, readVars
<1> SUFFICES ASSUME coder' = "huffman", message' # <<>> PROVE HuffmanTrip'
  BY DEF HuffmanTrip
<1>1. coder = "huffman" /\ message # <<>> /\ coder' = coder /\ message' = message
  BY InputsStay DEF EntropyNext
<1>2. CASE Decrement \/ Increment \/ Normalized \/ Spread \/ SpreadDone
  BY <1>1, <1>2
    DEF Decrement, Increment, Normalized, Spread, SpreadDone, EntropyInvariant, CallsInOrder
<1>3. CASE Merge \/ Merged \/ Limit
  <2>1. phase \in {"merge", "limit"} /\ phase' \in {"merge", "limit"}
        /\ UNCHANGED <<written, bits, whole>>
    BY <1>3 DEF Merge, Merged, Limit
  <2> QED
    BY <1>1, <2>1 DEF HuffmanTrip
<1>4. CASE Limited
  <2>1. phase = "limit" /\ phase' = "write" /\ UNCHANGED <<written, bits, whole, lengths>>
        /\ lengths \in CodeLengths /\ message \in Seq(Symbols)
    BY <1>1, <1>4 DEF Limited, EntropyInvariant, EntropyTypeOK, LengthsAre
  <2>2. written = 0 /\ bits = <<>> /\ whole
    BY <1>1, <2>1 DEF HuffmanTrip
  <2>3. BitsBefore(lengths, message, 0) = 0
    BY <2>1, LengthsAreNat, BitsBeforeIs
  <2>4. Coded(bits, lengths, message, 0)
    BY DEF Coded
  <2> QED
    BY <1>1, <2>1, <2>2, <2>3, <2>4 DEF HuffmanTrip
<1> QED
  BY <1>2, <1>3, <1>4 DEF Build

(* Symbols of the message have codes, and those are as long as they say.   *)
LEMMA SymbolHasCode ==
  ASSUME EntropyInvariant, TreeGrows, coder = "huffman", message # <<>>,
         phase \in {"write", "read"},
         NEW i \in 1 .. Len(message)
  PROVE  /\ message[i] \in UsedIn(lengths) /\ message[i] \in Symbols
         /\ lengths[message[i]] \in 1 .. MaxBits /\ lengths[message[i]] \in Nat
         /\ Code(lengths, message[i]) \in 0 .. Pow2[lengths[message[i]]] - 1
         /\ Code(lengths, message[i]) \in Nat
<1>1. message[i] \in Symbols /\ message[i] \in Counted(Counts(message))
  BY CountsNow
<1>2. lengths \in CodeLengths /\ ~Oversubscribed(lengths)
  BY DEF EntropyInvariant, LengthsAre
<1>3. lengths[message[i]] > 0
  BY <1>1 DEF TreeGrows
<1>4. message[i] \in UsedIn(lengths)
  BY <1>1, <1>3 DEF UsedIn
<1>5. lengths[message[i]] \in 0 .. MaxBits
  BY <1>1, <1>2 DEF CodeLengths
<1> QED
  BY <1>1, <1>2, <1>3, <1>4, <1>5, CodeIs, HuffmanFacts

(* A code is written behind the codes before it.                          *)
LEMMA HuffmanWrites ==
  ASSUME EntropyInvariant, TreeGrows, HuffmanTrip, WriteHuffman
  PROVE  HuffmanTrip'
<1> USE DEF treeVars, tableVars, writeVars, readVars
<1> DEFINE s == message[written + 1]
           h == Bits(Code(lengths, s), lengths[s])
           at(i) == BitsBefore(lengths, message, i)
           w == written
<1>1. /\ phase = "write" /\ coder = "huffman" /\ w < Len(message) /\ bits' = bits \o h
      /\ written' = w + 1 /\ message # <<>> /\ lengths \in CodeLengths
      /\ UNCHANGED <<phase, coder, lengths, message, whole>>
      /\ bits \in Seq(Bit) /\ w \in Nat /\ Len(message) \in Nat /\ message \in Seq(Symbols)
  BY DEF WriteHuffman, EntropyInvariant, CallsInOrder, LengthsAre, EntropyTypeOK, Bit
<1>2. whole /\ Len(bits) = at(w) /\ Coded(bits, lengths, message, w)
  BY <1>1 DEF HuffmanTrip
<1>3. w + 1 \in 1 .. Len(message) /\ w \in 0 .. Len(message) - 1 /\ w \in 0 .. Len(message)
  BY <1>1
<1>4. lengths[s] \in Nat /\ Code(lengths, s) \in Nat
  BY <1>1, <1>3, SymbolHasCode
<1>5. h \in Seq(Bit) /\ Len(h) = lengths[s]
  <2> HIDE DEF s
  <2> QED
    BY <1>4, BitsType
<1>6. at(w) \in Nat /\ at(w + 1) = at(w) + lengths[s]
  <2>1. lengths \in [Symbols -> Nat]
    BY <1>1, LengthsAreNat
  <2> QED
    BY <1>1, <1>3, <2>1, BitsBeforeIs
<1> HIDE DEF h, s, at, w
<1>7. bits' \in Seq(Bit) /\ Len(bits') = at(w + 1)
  <2>1. bits \o h \in Seq(Bit) /\ Len(bits \o h) = Len(bits) + Len(h)
    BY <1>1, <1>5, ConcatLength
  <2> QED
    BY <1>1, <1>2, <1>5, <1>6, <2>1
<1>8. (\A k \in 1 .. Len(bits) : bits'[k] = bits[k])
      /\ \A k \in 1 .. Len(h) : bits'[Len(bits) + k] = h[k]
  <2>1. (\A k \in 1 .. Len(bits) : (bits \o h)[k] = bits[k])
        /\ \A k \in 1 .. Len(h) : (bits \o h)[Len(bits) + k] = h[k]
    BY ONLY <1>1, <1>5, ConcatElements
  <2> QED
    BY <1>1, <2>1
<1>9. ASSUME NEW i \in 1 .. w + 1, NEW k \in 1 .. lengths[message[i]]
      PROVE  bits'[at(i - 1) + k] = Bits(Code(lengths, message[i]), lengths[message[i]])[k]
  <2>1. CASE i = w + 1
    <3>1. message[i] = s /\ i - 1 = w
      BY <1>1, <2>1 DEF s, w
    <3>2. k \in 1 .. Len(h)
      BY <1>5, <3>1
    <3> QED
      BY <1>2, <1>8, <3>1, <3>2 DEF h
  <2>2. CASE i # w + 1
    <3>1. i \in 1 .. w /\ i \in 1 .. Len(message) /\ i \in 0 .. Len(message)
          /\ i - 1 \in 0 .. Len(message) - 1
          /\ i - 1 \in 0 .. Len(message) /\ (i - 1) + 1 = i
      BY <1>1, <1>3, <2>2
    <3>2. lengths \in [Symbols -> Nat]
      BY <1>1, LengthsAreNat
    <3>3. at(i) = at(i - 1) + lengths[message[i]] /\ at(i - 1) \in Nat /\ at(i) \in Nat
      BY <1>1, <3>1, <3>2, BitsBeforeIs DEF at
    <3>4. at(i) <= at(w)
      <4> DEFINE p == SubSeq(message, 1, w)
      <4>1. p \in Seq(Symbols) /\ Len(p) = w
        BY <1>1, <1>3, PrefixOfPrefix
      <4>2. at(i) = CodeBits(SubSeq(message, 1, i)) /\ at(w) = CodeBits(p)
        BY <1>1, <1>3, <3>1, <3>2, CostOfPrefix DEF at
      <4>3. SubSeq(p, 1, i) = SubSeq(message, 1, i)
        <5>1. i \in 0 .. w
          BY <1>1, <3>1
        <5> QED
          BY <1>1, <1>3, <5>1, PrefixOfPrefix
      <4> HIDE DEF p
      <4>4. i \in 0 .. Len(p)
        BY <1>1, <3>1, <4>1
      <4>5. CodeBits(SubSeq(p, 1, i)) = BitsBefore(lengths, p, i)
            /\ CodeBits(p) = BitsBefore(lengths, p, Len(p))
        BY <3>2, <4>1, <4>4, CostOfPrefix, CodeBitsIs
      <4>6. BitsBefore(lengths, p, i) <= BitsBefore(lengths, p, Len(p))
        BY <3>2, <4>1, <4>4, BitsBeforeIs
      <4> QED
        BY <4>2, <4>3, <4>5, <4>6
    <3>5. at(i - 1) + k \in 1 .. Len(bits)
      <4> DEFINE l == lengths[message[i]]
                 a == at(i - 1)
                 b == at(i)
                 e == at(w)
      <4>1. l \in Nat /\ k \in Nat /\ k >= 1 /\ k <= l
        <5>1. l \in Nat
          BY <1>1, <3>1, <3>2
        <5> QED
          BY <5>1
      <4>2. a \in Nat /\ b \in Nat /\ e \in Nat /\ b = a + l /\ b <= e /\ Len(bits) = e
        BY <1>2, <1>6, <3>3, <3>4
      <4> HIDE DEF l, a, b, e
      <4>3. a + k \in Nat /\ a + k >= 1 /\ a + k <= e
        BY <4>1, <4>2
      <4>4. a + k \in 1 .. Len(bits)
        BY <4>2, <4>3
      <4> QED
        BY <4>4 DEF a
    <3>6. bits[at(i - 1) + k] = Bits(Code(lengths, message[i]), lengths[message[i]])[k]
      <4>1. at(i - 1) + k <= Len(bits)
        BY <3>5
      <4> QED
        BY <1>2, <3>1, <4>1 DEF Coded, at
    <3> QED
      BY <1>8, <3>5, <3>6
  <2> QED
    BY <2>1, <2>2
<1>10. Coded(bits', lengths, message, w + 1)
  BY <1>9 DEF Coded, at
<1> QED
  BY <1>1, <1>2, <1>7, <1>10 DEF HuffmanTrip, at, w

(* A payload has the codes, as far as it reaches.                         *)
LEMMA HuffmanFlushes ==
  ASSUME EntropyInvariant, HuffmanTrip, Flush, coder = "huffman"
  PROVE  HuffmanTrip'
<1> USE DEF treeVars, tableVars, writeVars, readVars
<1> DEFINE w == Len(message)
           at(i) == BitsBefore(lengths, message, i)
<1>1. /\ phase = "write" /\ phase' = "descriptors" /\ written = w /\ message # <<>>
           /\ lengths \in CodeLengths
      /\ UNCHANGED <<coder, lengths, message, read, delivered>>
      /\ read = 0 /\ delivered = <<>> /\ message \in Seq(Symbols) /\ bits \in Seq(Bit)
  BY DEF Flush, EntropyInvariant, CallsInOrder, LengthsAre, EntropyTypeOK, Bit
<1>2. w \in Nat /\ w > 0
  <2>1. Len(message) \in Nat \ {0}
    BY <1>1, CountsNow
  <2> QED
    BY <2>1
<1>3. Len(bits) = at(w) /\ Coded(bits, lengths, message, w)
  BY <1>1 DEF HuffmanTrip
<1>4. /\ AllBits = bits /\ bits' \in Seq(Bit)
      /\ \A i \in 1 .. Len(bits') : bits'[i] = IF i <= Len(AllBits) THEN AllBits[i] ELSE 0
      /\ (whole' <=> Len(bits') >= Len(AllBits))
  <2>1. AllBits = <<>> \o bits
    BY DEF AllBits
  <2>2. <<>> \o bits = bits
    BY <1>1
  <2> QED
    BY <2>1, <2>2, FlushIs
<1>5. lengths \in [Symbols -> Nat]
  BY <1>1, LengthsAreNat
<1>6. at(0) = 0 /\ at(w) \in Nat
  <2>1. w \in 0 .. w
    BY <1>2
  <2> QED
    BY <1>1, <1>5, <2>1, BitsBeforeIs
<1>7. ASSUME NEW i \in 1 .. w, NEW k \in 1 .. lengths[message[i]], at(i - 1) + k <= Len(bits')
      PROVE  bits'[at(i - 1) + k] = Bits(Code(lengths, message[i]), lengths[message[i]])[k]
  <2> DEFINE p == at(i - 1) + k
  <2>1. at(i - 1) \in Nat /\ at(i) \in Nat /\ at(i) = at(i - 1) + lengths[message[i]]
        /\ at(i) <= at(w)
        /\ lengths[message[i]] \in Nat
    <3>1. i \in 1 .. Len(message) /\ i - 1 \in 0 .. Len(message) - 1
          /\ i - 1 \in 0 .. Len(message) /\ i \in 0 .. Len(message)
          /\ (i - 1) + 1 = i
      BY <1>2
    <3>2. message[i] \in Symbols
      BY <1>1, <3>1
    <3> QED
      BY <1>1, <1>5, <3>1, <3>2, BitsBeforeIs
  <2>2. p \in 1 .. Len(bits') /\ p <= at(w)
    <3> DEFINE l == lengths[message[i]]
               a == at(i - 1)
               e == at(w)
    <3>1. l \in Nat /\ a \in Nat /\ e \in Nat /\ a + l <= e /\ k \in 1 .. l
          /\ p = a + k /\ p <= Len(bits')
      BY <1>6, <1>7, <2>1
    <3>2. Len(bits') \in Nat
      BY <1>4
    <3> HIDE DEF l, a, e, p
    <3>3. p \in Nat /\ p >= 1 /\ p <= e
      BY <3>1
    <3> QED
      BY <3>1, <3>2, <3>3 DEF e
  <2>3. bits'[p] = bits[p] /\ p <= Len(bits)
    <3> HIDE DEF p, at
    <3> QED
      BY <1>3, <1>4, <2>2
  <2>4. bits[p] = Bits(Code(lengths, message[i]), lengths[message[i]])[k]
    <3> HIDE DEF w
    <3> QED
      BY <1>3, <2>3 DEF Coded
  <2> QED
    BY <2>3, <2>4
<1> HIDE DEF w, at
<1>8. Coded(bits', lengths, message, w)
  BY <1>7 DEF Coded, at
<1>9. HuffmanReader'
  <2>1. Len(delivered') = 0 /\ delivered' = SubSeq(message', 1, Len(delivered'))
        /\ Len(message') = w
    BY <1>1 DEF w
  <2>2. read' = BitsBefore(lengths', message', Len(delivered')) /\ phase' # "done"
    BY <1>1, <1>6, <2>1 DEF at
  <2>3. whole' <=> Len(bits') >= BitsBefore(lengths', message', w)
    BY <1>1, <1>3, <1>4 DEF at
  <2> QED
    BY <1>2, <2>1, <2>2, <2>3 DEF HuffmanReader
<1> QED
  BY <1>1, <1>8, <1>9 DEF HuffmanTrip, w

-----------------------------------------------------------------------------
(* The first codes the decoder sees in a window.                           *)
LEMMA WindowBits ==
  ASSUME EntropyTypeOK
  PROVE  /\ Peek(MaxBits) \in Nat
         /\ \A k \in 1 .. MaxBits :
              Bits(Peek(MaxBits), MaxBits)[k] = IF read + k <= Len(bits)
                    THEN bits[read + k] ELSE 0
<1>1. MaxBits \in Nat
  BY HuffmanFacts
<1>2. Window(MaxBits) \in [1 .. MaxBits -> Bit]
      /\ Peek(MaxBits) = Value(Window(MaxBits)) /\ Peek(MaxBits) \in Nat
  BY <1>1, PeekIs
<1>3. Bits(Peek(MaxBits), MaxBits) = Window(MaxBits)
  BY <1>1, <1>2, BitsOfValue
<1> QED
  BY <1>2, <1>3 DEF Window

(* There is the code of t at the front of what is left.                    *)
NextIs(t) ==
  \A k \in 1 .. lengths[t] :
    read + k <= Len(bits) => bits[read + k] = Bits(Code(lengths, t), lengths[t])[k]

(* If the window begins with the code of t, the table answers with t, or  *)
(* with a code that needs bits which are missing.                         *)
LEMMA RightSymbol ==
  ASSUME EntropyInvariant, coder = "huffman", phase = "read", NEW t \in UsedIn(lengths),
                                                              NextIs(t)
  PROVE  /\ read + lengths[t] <= Len(bits) => t \in Lookup(lengths, Peek(MaxBits))
         /\ \A s \in Lookup(lengths, Peek(MaxBits)) :
              /\ s \in UsedIn(lengths) /\ s \in Symbols
              /\ read + lengths[t] <= Len(bits) \/ read + lengths[s] <= Len(bits) => s = t
<1> DEFINE P == Peek(MaxBits)
           b(s, k) == Bits(Code(lengths, s), lengths[s])[k]
<1>1. /\ lengths \in CodeLengths /\ ~Oversubscribed(lengths) /\ EntropyTypeOK
      /\ read \in Nat /\ Len(bits) \in Nat
  BY DEF EntropyInvariant, LengthsAre, EntropyTypeOK
<1>2. P \in Nat
      /\ \A k \in 1 .. MaxBits : Bits(P, MaxBits)[k] = IF read + k <= Len(bits)
           THEN bits[read + k] ELSE 0
  BY <1>1, WindowBits
<1>3. \A s \in UsedIn(lengths) : s \in Symbols /\ lengths[s] \in 1 .. MaxBits
      /\ lengths[s] \in Nat
  <2>1. \A s \in UsedIn(lengths) : s \in Symbols /\ lengths[s] > 0
        /\ lengths[s] \in 0 .. MaxBits
    BY <1>1 DEF UsedIn, CodeLengths
  <2> QED
    BY <2>1, HuffmanFacts
<1> HIDE DEF P
<1>4. \A s : s \in Lookup(lengths, P) <=> s \in UsedIn(lengths) /\ Matches(lengths, s, P)
  BY <1>1, <1>2, LookupIs
<1>5. \A s \in UsedIn(lengths) : 
        Matches(lengths, s, P) <=>
          \A k \in 1 .. lengths[s] : Bits(P, MaxBits)[k] = b(s, k)
  BY DEF Matches
<1> HIDE DEF b
<1>6. \A k \in 1 .. lengths[t] : read + k <= Len(bits) => bits[read + k] = b(t, k)
  BY DEF NextIs, b
<1>7. \A k \in 1 .. lengths[t] : read + k <= Len(bits) => Bits(P, MaxBits)[k] = b(t, k)
  <2>1. \A k \in 1 .. lengths[t] : k \in 1 .. MaxBits
    BY <1>3, HuffmanFacts
  <2> QED
    BY <1>2, <1>6, <2>1
<1>8. ASSUME read + lengths[t] <= Len(bits) PROVE t \in Lookup(lengths, P)
  <2>1. \A k \in 1 .. lengths[t] : read + k <= Len(bits)
    BY <1>1, <1>3, <1>8
  <2> QED
    BY <1>4, <1>5, <1>7, <2>1
<1>9. ASSUME NEW s \in Lookup(lengths, P)
      PROVE  /\ s \in UsedIn(lengths) /\ s \in Symbols
             /\ read + lengths[t] <= Len(bits) \/ read + lengths[s] <= Len(bits) => s = t
  <2>1. s \in UsedIn(lengths) /\ \A k \in 1 .. lengths[s] : Bits(P, MaxBits)[k] = b(s, k)
    BY <1>4, <1>5
  <2>2. ASSUME read + lengths[t] <= Len(bits) \/ read + lengths[s] <= Len(bits) PROVE s = t
    <3>1. CASE lengths[s] <= lengths[t]
      <4>1. \A k \in 1 .. lengths[s] : read + k <= Len(bits) /\ k \in 1 .. lengths[t]
        BY <1>1, <1>3, <2>1, <2>2, <3>1
      <4>2. \A k \in 1 .. lengths[s] : b(s, k) = b(t, k)
        BY <1>7, <2>1, <4>1
      <4> QED
        BY <1>1, <2>1, <3>1, <4>2, NoCodeBegins DEF b
    <3>2. CASE ~(lengths[s] <= lengths[t])
      <4>1. \A k \in 1 .. lengths[t] : read + k <= Len(bits) /\ k \in 1 .. lengths[s]
        BY <1>1, <1>3, <2>1, <2>2, <3>2
      <4>2. \A k \in 1 .. lengths[t] : b(t, k) = b(s, k)
        BY <1>7, <2>1, <4>1
      <4>3. lengths[t] <= lengths[s]
        BY <1>3, <2>1, <3>2
      <4> QED
        BY <1>1, <2>1, <4>2, <4>3, NoCodeBegins DEF b
    <3> QED
      BY <3>1, <3>2
  <2> QED
    BY <1>3, <2>1, <2>2
<1> QED
  BY <1>8, <1>9 DEF P

(* The decoder finds the next symbol, or is behind the end.               *)
LEMMA HuffmanDecodes ==
  ASSUME EntropyInvariant, TreeGrows, HuffmanTrip, DecodeStep
  PROVE  HuffmanTrip'
<1> USE DEF treeVars, tableVars, writeVars, readVars
<1> SUFFICES ASSUME coder' = "huffman", message' # <<>> PROVE HuffmanTrip'
  BY DEF HuffmanTrip
<1> DEFINE w == Len(message)
           d == Len(delivered)
           at(i) == BitsBefore(lengths, message, i)
<1>1. /\ coder = "huffman" /\ message # <<>> /\ coder' = coder /\ message' = message
      /\ expectedLen' = expectedLen
  BY InputsStay DEF EntropyNext
<1>2. /\ message \in Seq(Symbols) /\ w \in Nat /\ w > 0 /\ message[w] = Eob
      /\ expectedLen = w - 1 /\ \A i \in 1 .. w - 1 : message[i] # Eob
      /\ read \in Nat /\ Len(bits) \in Nat /\ EntropyTypeOK
           /\ delivered \in Seq(Symbols) /\ d \in Nat
      /\ lengths \in [Symbols -> Nat]
  <2>1. /\ message \in Seq(Symbols) /\ Len(bits) \in Nat /\ read \in Nat /\ EntropyTypeOK
        /\ delivered \in Seq(Symbols) /\ lengths \in [Symbols -> Nat]
    BY DEF EntropyInvariant, EntropyTypeOK
  <2>2. message[w] = Eob /\ expectedLen = w - 1 /\ \A i \in 1 .. w - 1 : message[i] # Eob
    BY <1>1 DEF EntropyInvariant, MessageEnds
  <2>3. Len(message) \in Nat \ {0} /\ Len(delivered) \in Nat
    BY <1>1, <2>1, CountsNow
  <2>4. w \in Nat /\ w > 0 /\ d \in Nat
    BY <2>3
  <2> HIDE DEF w, d
  <2> QED
    BY <2>1, <2>2, <2>4
<1>3. phase \in {"descriptors", "read"} => Coded(bits, lengths, message, w) /\ HuffmanReader
  BY <1>1 DEF HuffmanTrip
<1>4. ASSUME phase \in {"descriptors", "read"}, HuffmanReader', UNCHANGED <<lengths, bits>>,
             phase' \in {"read", "done"}
      PROVE  HuffmanTrip'
  <2>1. Coded(bits', lengths', message', Len(message'))
    BY <1>1, <1>3, <1>4
  <2> QED
    BY <1>4, <2>1 DEF HuffmanTrip
<1>5. CASE ReadState \/ ReadAns \/ ReadAnsEof
  BY <1>1, <1>5 DEF ReadState, ReadAns, ReadAnsEof, EntropyInvariant, CallsInOrder
<1>6. CASE CheckDescriptors
  <2>1. phase = "descriptors" /\ UNCHANGED <<lengths, bits, delivered, read, whole>>
    BY <1>6 DEF CheckDescriptors
  <2>2. ~Oversubscribed(lengths)
    BY <1>1, <2>1 DEF EntropyInvariant, LengthsAre
  <2>3. phase' = "read"
    BY <1>1, <1>6, <2>2 DEF CheckDescriptors
  <2>4. HuffmanReader'
    <3>1. CodeBits(delivered)' = CodeBits(delivered)
      BY <2>1 DEF CodeBits
    <3>2. HuffmanReader /\ phase # "done" /\ phase' # "done"
      BY <1>3, <2>1, <2>3
    <3> QED
      BY <1>1, <2>1, <3>1, <3>2 DEF HuffmanReader
  <2> QED
    BY <1>4, <2>1, <2>3, <2>4
<1>7. CASE ReadHuffman \/ ReadNoCode
  <2> DEFINE t == message[d + 1]
  <2>1. /\ phase = "read" /\ UNCHANGED <<lengths, bits, whole>> /\ phase # "done"
        /\ lengths \in CodeLengths /\ ~Oversubscribed(lengths)
    BY <1>1, <1>7 DEF ReadHuffman, ReadNoCode, EntropyInvariant, LengthsAre
  <2>2. Coded(bits, lengths, message, w) /\ HuffmanReader
    BY <1>3, <2>1
  <2>3. /\ whole <=> Len(bits) >= at(w)
        /\ \/ d < w /\ delivered = SubSeq(message, 1, d) /\ read = at(d)
           \/ ~whole /\ CodeBits(delivered) > Len(bits)
    BY <2>1, <2>2 DEF HuffmanReader
  <2>4. at(w) \in Nat /\ CodeBits(delivered) \in Nat
    <3>1. w \in 0 .. w
      BY <1>2
    <3> QED
      BY <1>2, <3>1, BitsBeforeIs, CodeBitsIs
  <2>5. ASSUME d < w, delivered = SubSeq(message, 1, d), read = at(d)
        PROVE  /\ d + 1 \in 1 .. w /\ t \in UsedIn(lengths) /\ t \in Symbols
                    /\ lengths[t] \in Nat /\ lengths[t] > 0
               /\ at(d + 1) = at(d) + lengths[t] /\ at(d) \in Nat /\ at(d + 1) \in Nat
                    /\ at(d + 1) <= at(w)
               /\ NextIs(t) /\ CodeBits(delivered) = at(d)
    <3>1. d + 1 \in 1 .. w /\ d \in 0 .. w - 1 /\ d \in 0 .. w /\ d + 1 \in 0 .. w
          /\ (d + 1) - 1 = d
      BY <1>2, <2>5
    <3>2. t \in UsedIn(lengths) /\ t \in Symbols /\ lengths[t] \in 1 .. MaxBits
          /\ lengths[t] \in Nat
      BY <1>1, <2>1, <3>1, SymbolHasCode
    <3>3. lengths[t] > 0
      BY <3>2
    <3>4. at(d + 1) = at(d) + lengths[t] /\ at(d) \in Nat /\ at(d + 1) \in Nat
          /\ at(d + 1) <= at(w)
      BY <1>2, <3>1, BitsBeforeIs
    <3>5. NextIs(t)
      <4> SUFFICES ASSUME NEW k \in 1 .. lengths[t], read + k <= Len(bits)
                   PROVE  bits[read + k] = Bits(Code(lengths, t), lengths[t])[k]
        BY DEF NextIs
      <4>1. \A i \in 1 .. w : \A l \in 1 .. lengths[message[i]] :
              at(i - 1) + l <= Len(bits) =>
                bits[at(i - 1) + l] = Bits(Code(lengths, message[i]), lengths[message[i]])[l]
        BY <2>2 DEF Coded
      <4>2. at((d + 1) - 1) + k <= Len(bits) /\ at((d + 1) - 1) = read
        BY <2>5, <3>1
      <4> HIDE DEF at, d, w
      <4> QED
        BY <3>1, <4>1, <4>2
    <3>6. CodeBits(delivered) = at(d)
      BY <1>2, <2>5, <3>1, CostOfPrefix
    <3> QED
      BY <3>1, <3>2, <3>3, <3>4, <3>5, <3>6
  <2> HIDE DEF at, t
  <2>6. CASE ReadNoCode
    <3>1. phase' = "done" /\ UNCHANGED <<delivered, read>> /\ Lookup(lengths,
                                         Peek(MaxBits)) = {}
      BY <2>6 DEF ReadNoCode, Finish
    <3>2. ~whole
      <4> SUFFICES ASSUME whole PROVE FALSE
        OBVIOUS
      <4>1. d < w /\ delivered = SubSeq(message, 1, d) /\ read = at(d)
        BY <2>3
      <4>2. /\ t \in UsedIn(lengths) /\ lengths[t] \in Nat /\ NextIs(t)
            /\ at(d + 1) = at(d) + lengths[t] /\ at(d) \in Nat /\ at(d + 1) <= at(w)
                 /\ at(d + 1) \in Nat
        BY <2>5, <4>1
      <4>3. read + lengths[t] <= Len(bits)
        <5>1. Len(bits) >= at(w)
          BY <2>3
        <5> HIDE DEF w, d
        <5> QED
          BY <1>2, <2>4, <4>1, <4>2, <5>1
      <4> QED
        BY <1>1, <2>1, <3>1, <4>2, <4>3, RightSymbol
    <3>3. CodeBits(delivered)' = CodeBits(delivered)
      BY <2>1, <3>1 DEF CodeBits
    <3>4. HuffmanReader'
      <4>1. (d < w /\ delivered = SubSeq(message, 1, d))
            \/ (~whole /\ CodeBits(delivered) > Len(bits))
        BY <2>3
      <4>2. Len(delivered') = d /\ Len(message') = w
            /\ BitsBefore(lengths', message', w) = at(w)
        BY <1>1, <2>1, <3>1 DEF at
      <4>3. whole' <=> Len(bits') >= BitsBefore(lengths', message', w)
        BY <2>1, <2>3, <4>2
      <4> HIDE DEF d, w
      <4> QED
        BY <1>1, <2>1, <3>1, <3>2, <3>3, <4>1, <4>2, <4>3 DEF HuffmanReader
    <3> QED
      BY <1>4, <2>1, <3>1, <3>4
  <2>7. CASE ReadHuffman
    <3>1. PICK s \in Lookup(lengths, Peek(MaxBits)) : Deliver(s) /\ read' = Dropped(lengths[s])
      BY <2>7 DEF ReadHuffman
    <3>2. s \in Symbols /\ lengths[s] \in Nat
      <4>1. Peek(MaxBits) \in Nat
        BY <1>2, HuffmanFacts, PeekIs
      <4>2. s \in UsedIn(lengths)
        BY <2>1, <3>1, <4>1, LookupIs
      <4> QED
        BY <1>2, <4>2 DEF UsedIn
    <3>3. \/ phase' = "done" /\ delivered' = delivered
          \/ phase' = "read" /\ delivered' = Append(delivered, s)
      BY <2>1, <3>1 DEF Deliver, Finish
    <3>4. CodeBits(delivered)' = CodeBits(delivered') /\ CodeBits(delivered') \in Nat
          /\ CodeBits(Append(delivered, s)) = CodeBits(delivered) + lengths[s]
      <4>1. CodeBits(delivered)' = CodeBits(delivered')
        BY <2>1 DEF CodeBits
      <4>2. CodeBits(Append(delivered, s)) = CodeBits(delivered) + lengths[s]
        BY <1>2, <3>2, CostOfOneMore
      <4>3. CodeBits(delivered') \in Nat
        <5>1. CodeBits(Append(delivered, s)) \in Nat
          BY <2>4, <3>2, <4>2
        <5>2. CASE delivered' = delivered
          BY <2>4, <5>2
        <5>3. CASE delivered' = Append(delivered, s)
          BY <5>1, <5>3
        <5> QED
          BY <3>3, <5>2, <5>3
      <4> QED
        BY <4>1, <4>2, <4>3
    <3>5. Len(message') = w /\ BitsBefore(lengths', message', w) = at(w) /\ whole' = whole
          /\ (whole' <=> Len(bits') >= BitsBefore(lengths', message', w))
      BY <1>1, <2>1, <2>3 DEF at
    <3>6. CASE ~whole /\ CodeBits(delivered) > Len(bits)
      <4>1. CodeBits(delivered') > Len(bits')
        <5>1. bits' = bits
          BY <2>1
        <5>2. CASE delivered' = delivered
          BY <3>6, <5>1, <5>2
        <5>3. CASE delivered' = Append(delivered, s)
          <6> DEFINE m == Append(delivered, s)
                     x == CodeBits(delivered)
                     l == Len(bits)
          <6>1. CodeBits(m) = x + lengths[s] /\ x \in Nat /\ x > l /\ l \in Nat
            BY <1>2, <2>4, <3>4, <3>6
          <6>2. CodeBits(delivered') = CodeBits(m)
            BY <5>3
          <6> HIDE DEF m, x, l
          <6>3. CodeBits(m) > l
            BY <3>2, <6>1
          <6> QED
            BY <5>1, <6>2, <6>3 DEF l
        <5> QED
          BY <3>3, <5>2, <5>3
      <4>2. HuffmanReader'
        <5> HIDE DEF w, d
        <5> QED
          BY <3>4, <3>5, <3>6, <4>1 DEF HuffmanReader, w
      <4> QED
        BY <1>4, <2>1, <3>3, <4>2
    <3>7. CASE d < w /\ delivered = SubSeq(message, 1, d) /\ read = at(d)
      <4>1. /\ d + 1 \in 1 .. w /\ t \in UsedIn(lengths) /\ t \in Symbols /\ lengths[t] \in Nat
            /\ at(d + 1) = at(d) + lengths[t] /\ at(d) \in Nat /\ at(d + 1) \in Nat
                 /\ at(d + 1) <= at(w)
            /\ NextIs(t) /\ CodeBits(delivered) = at(d)
        BY <2>5, <3>7
      <4>2. read + lengths[t] <= Len(bits) \/ read + lengths[s] <= Len(bits) => s = t
        BY <1>1, <2>1, <3>1, <4>1, RightSymbol
      <4>3. whole => read + lengths[t] <= Len(bits)
        <5> HIDE DEF w, d
        <5> QED
          BY <1>2, <2>3, <2>4, <3>7, <4>1
      <4>4. CASE s = t /\ s = Eob
        <5>1. d + 1 = w
          <6>1. message[d + 1] = Eob
            BY <4>4 DEF t
          <6> HIDE DEF w, d
          <6> QED
            BY <1>2, <4>1, <6>1
        <5>2. phase' = "done" /\ outcome' = "ok" /\ delivered' = delivered
          <6>1. d = expectedLen
            BY <1>2, <5>1
          <6> QED
            BY <3>1, <4>4, <6>1 DEF Deliver, Finish, d
        <5>3. HuffmanReader'
          <6>1. Len(delivered') = d /\ d = w - 1 /\ message' = message
            BY <1>1, <1>2, <5>1, <5>2
          <6> HIDE DEF w, d
          <6> QED
            BY <3>5, <3>7, <5>2, <6>1 DEF HuffmanReader
        <5> QED
          BY <1>4, <2>1, <5>2, <5>3
      <4>5. CASE s = t /\ s # Eob
        <5>1. d + 1 < w
          BY <1>2, <4>1, <4>5 DEF t
        <5>2. phase' = "read" /\ delivered' = Append(delivered, t)
          <6>1. d < expectedLen /\ d # expectedLen
            BY <1>2, <5>1
          <6> QED
            BY <2>1, <3>1, <4>5, <6>1 DEF Deliver, d
        <5>3. Len(delivered') = d + 1 /\ delivered' = SubSeq(message, 1, d + 1)
          <6>1. Len(delivered') = d + 1
            BY <1>2, <4>1, <5>2
          <6>2. t \in Symbols /\ delivered' = SubSeq(message, 1, d) \o <<t>>
            <7>1. t \in Symbols /\ delivered' = delivered \o <<t>>
              <8>1. delivered \in Seq(Symbols) /\ t \in Symbols
                BY <1>2, <4>1
              <8>2. Append(delivered, t) = delivered \o <<t>>
                BY ONLY <8>1
              <8> QED
                BY <5>2, <8>1, <8>2
            <7> HIDE DEF d
            <7> QED
              BY <3>7, <7>1
          <6> DEFINE one == <<t>>
          <6>3. one \in Seq(Symbols) /\ Len(one) = 1
                /\ \A i \in 1 .. Len(one) : one[i] = message[d + i]
            BY <6>2 DEF t
          <6> HIDE DEF one
          <6>4. d \in Nat /\ d + Len(one) <= Len(message)
            BY <1>2, <5>1, <6>3
          <6>5. SubSeq(message, 1, d) \o one = SubSeq(message, 1, d + 1)
            BY <1>2, <6>3, <6>4, PrefixGrows
          <6> QED
            BY <6>1, <6>2, <6>5 DEF one
        <5>4. CASE read + lengths[t] <= Len(bits)
          <6>1. read' = at(d + 1)
            BY <1>2, <3>1, <3>7, <4>1, <4>5, <5>4, DroppedIs
          <6>2. HuffmanReader'
            <7>1. BitsBefore(lengths', message', d + 1) = at(d + 1) /\ message' = message
              BY <1>1, <2>1 DEF at
            <7> HIDE DEF w, d
            <7> QED
              BY <3>5, <5>1, <5>2, <5>3, <6>1, <7>1 DEF HuffmanReader
          <6> QED
            BY <1>4, <2>1, <5>2, <6>2
        <5>5. CASE ~(read + lengths[t] <= Len(bits))
          <6>1. ~whole /\ CodeBits(delivered') > Len(bits')
            <7> HIDE DEF w, d
            <7>1. CodeBits(delivered') = at(d) + lengths[t]
              BY <3>4, <4>1, <4>5, <5>2
            <7> QED
              BY <1>2, <2>1, <3>7, <4>1, <4>3, <5>5, <7>1
          <6>2. HuffmanReader'
            <7> HIDE DEF w, d
            <7> QED
              BY <3>4, <3>5, <5>2, <6>1 DEF HuffmanReader, w
          <6> QED
            BY <1>4, <2>1, <5>2, <6>2
        <5> QED
          BY <5>4, <5>5
      <4>6. CASE s # t
        <5>1. ~whole /\ ~(read + lengths[s] <= Len(bits))
          BY <4>2, <4>3, <4>6
        <5>2. CASE phase' = "done" /\ delivered' = delivered
          <6>1. HuffmanReader'
            <7>1. Len(delivered') = d /\ message' = message
              BY <1>1, <5>2
            <7> HIDE DEF w, d
            <7> QED
              BY <3>5, <3>7, <5>1, <5>2, <7>1 DEF HuffmanReader
          <6> QED
            BY <1>4, <2>1, <5>2, <6>1
        <5>3. CASE phase' = "read" /\ delivered' = Append(delivered, s)
          <6>1. CodeBits(delivered') > Len(bits')
            <7> HIDE DEF w, d
            <7>1. CodeBits(delivered') = at(d) + lengths[s]
              BY <3>4, <4>1, <5>3
            <7> QED
              BY <1>2, <2>1, <3>2, <3>7, <4>1, <5>1, <7>1
          <6>2. HuffmanReader'
            <7> HIDE DEF w, d
            <7> QED
              BY <3>4, <3>5, <5>1, <5>3, <6>1 DEF HuffmanReader, w
          <6> QED
            BY <1>4, <2>1, <5>3, <6>2
        <5> QED
          BY <3>3, <5>2, <5>3
      <4> QED
        BY <4>4, <4>5, <4>6
    <3> QED
      BY <2>3, <3>6, <3>7
  <2> QED
    BY <1>7, <2>6, <2>7
<1> QED
  BY <1>5, <1>6, <1>7 DEF DecodeStep

(* Every step keeps the round trip of Huffman codes.                      *)
LEMMA HuffmanSteps ==
  ASSUME EntropyInvariant, TreeGrows, HuffmanTrip, [EntropyNext]_entropyVars
  PROVE  HuffmanTrip'
<1>1. CASE Build
  BY <1>1, HuffmanBuilds
<1>2. CASE WriteHuffman
  BY <1>2, HuffmanWrites
<1>3. CASE WriteAns
  BY <1>3 DEF WriteAns, HuffmanTrip
<1>4. CASE Flush
  <2>1. CASE coder = "huffman"
    BY <1>4, <2>1, HuffmanFlushes
  <2>2. CASE coder # "huffman"
    BY <1>4, <2>2 DEF Flush, HuffmanTrip
  <2> QED
    BY <2>1, <2>2
<1>5. CASE DecodeStep
  BY <1>5, HuffmanDecodes
<1>6. CASE UNCHANGED entropyVars
  <2>1. UNCHANGED <<phase, coder, heap, lengths, norm, slots, pos, state, message,
                    written, bits,
                    whole, expectedLen, read, delivered, outcome>>
    BY <1>6 DEF entropyVars, treeVars, tableVars, writeVars, readVars
  <2>2. HuffmanReader' <=> HuffmanReader
    <3>1. CodeBits(delivered)' = CodeBits(delivered)
      BY <2>1 DEF CodeBits
    <3> QED
      BY <2>1, <3>1 DEF HuffmanReader
  <2> QED
    BY <2>1, <2>2 DEF HuffmanTrip
<1> QED
  BY <1>1, <1>2, <1>3, <1>4, <1>5, <1>6 DEF EntropyNext, Write, Finished

(* The tree, both round trips and the invariant they rest on.             *)
EntropyTripInvariant ==
  EntropyInvariant /\ TreeGrows /\ AnsTrip /\ HuffmanTrip

(* The inductive invariant of the round trip holds in every behaviour:    *)
(* the decoder is always where the encoder was, as far as the payload     *)
(* reaches.                                                               *)
THEOREM EntropyTripHolds == EntropySpec => []EntropyTripInvariant
<1>1. EntropyInit => EntropyTripInvariant
  BY EntropyStarts, TreeStarts, AnsStarts, HuffmanStarts DEF EntropyTripInvariant
<1>2. EntropyTripInvariant /\ [EntropyNext]_entropyVars => EntropyTripInvariant'
  BY EntropySteps, TreeSteps, AnsSteps, HuffmanSteps DEF EntropyTripInvariant
<1> QED
  BY <1>1, <1>2, PTL DEF EntropySpec

(* The two properties follow from it.                                     *)
LEMMA Survive == EntropyTripInvariant => SymbolsSurvive
<1> SUFFICES ASSUME EntropyTripInvariant, phase
      = "done", message # <<>>, whole PROVE SymbolsSurvive
  BY DEF SymbolsSurvive
<1>1. coder \in {"huffman", "ans"} /\ message \in Seq(Symbols) /\ delivered \in Seq(Symbols)
  BY DEF EntropyTripInvariant, EntropyInvariant, EntropyTypeOK
<1>2. CASE coder = "ans"
  <2>1. PICK x, c : AnsReader(x, c)
    BY <1>2 DEF EntropyTripInvariant, AnsTrip
  <2>2. /\ outcome = "ok" /\ state = TableSize /\ Len(delivered) = Len(message) - 1
        /\ delivered = SubSeq(message, 1, Len(delivered))
    BY <2>1 DEF AnsReader
  <2> QED
    BY <2>2 DEF SymbolsSurvive, Literals
<1>3. CASE coder = "huffman"
  <2>1. HuffmanReader
    BY <1>3 DEF EntropyTripInvariant, HuffmanTrip
  <2>2. /\ outcome = "ok" /\ Len(delivered) = Len(message) - 1
        /\ delivered = SubSeq(message, 1, Len(delivered))
    BY <2>1 DEF HuffmanReader
  <2> QED
    BY <1>3, <2>2 DEF SymbolsSurvive, Literals
<1> QED
  BY <1>1, <1>2, <1>3

LEMMA Noticed == EntropyTripInvariant => TruncationIsNoticed
<1> SUFFICES ASSUME EntropyTripInvariant, message # <<>>, ~whole PROVE TruncationIsNoticed
  BY DEF TruncationIsNoticed
<1>1. phase \in {"merge", "limit", "normalize", "spread", "write", "descriptors",
                 "readState", "read", "done"}
  BY DEF EntropyTripInvariant, EntropyInvariant, EntropyTypeOK
<1>2. ASSUME coder = "ans"
      PROVE  SubSeq(message, 1, Len(delivered)) = delivered /\ (outcome = "ok" =>
               delivered = Literals)
  <2>1. phase \notin {"merge", "limit"}
    BY <1>2 DEF EntropyTripInvariant, EntropyInvariant, CallsInOrder
  <2>2. phase \in {"readState", "read", "done"}
    BY <1>1, <1>2, <2>1 DEF EntropyTripInvariant, AnsTrip
  <2>3. PICK x, c : AnsReader(x, c)
    BY <1>2, <2>2 DEF EntropyTripInvariant, AnsTrip
  <2>4. delivered = SubSeq(message, 1, Len(delivered))
    BY <2>3 DEF AnsReader
  <2>5. outcome = "ok" => Len(delivered) = Len(message) - 1
    <3>1. phase # "done" => outcome # "ok"
      BY DEF EntropyTripInvariant, EntropyInvariant, CallsInOrder
    <3> QED
      BY <2>3, <3>1 DEF AnsReader
  <2> QED
    BY <2>4, <2>5 DEF Literals
<1>3. ASSUME coder = "huffman", CodeBits(delivered) <= Len(bits)
      PROVE  SubSeq(message, 1, Len(delivered)) = delivered
  <2>1. phase \notin {"normalize", "spread", "readState"}
    BY <1>3 DEF EntropyTripInvariant, EntropyInvariant, CallsInOrder
  <2>2. phase \in {"descriptors", "read", "done"}
    BY <1>1, <1>3, <2>1 DEF EntropyTripInvariant, HuffmanTrip
  <2>3. HuffmanReader
    BY <1>3, <2>2 DEF EntropyTripInvariant, HuffmanTrip
  <2>4. CodeBits(delivered) \in Nat /\ Len(bits) \in Nat
    BY CodeBitsIs DEF EntropyTripInvariant, EntropyInvariant, EntropyTypeOK
  <2>5. ~(CodeBits(delivered) > Len(bits))
    BY <1>3, <2>4
  <2> QED
    BY <2>3, <2>5 DEF HuffmanReader
<1> QED
  BY <1>2, <1>3 DEF TruncationIsNoticed

(* Every message decodes to itself, through a Huffman tree with limited   *)
(* lengths or an ANS table with corrected frequencies, for alphabets,     *)
(* tables and limits of any size; the ANS decoder ends in the state the   *)
(* encoder began with.                                                    *)
THEOREM SymbolsDoSurvive == EntropySpec => []SymbolsSurvive
  BY Survive, EntropyTripHolds, PTL

(* Of a payload that lacks bytes, wherever it is cut, the ANS decoder     *)
(* delivers only symbols that were encoded and never answers ok with      *)
(* some missing; the Huffman decoder delivers right ones as far as the    *)
(* bits reach.                                                            *)
THEOREM TruncationIsSeen == EntropySpec => []TruncationIsNoticed
  BY Noticed, EntropyTripHolds, PTL
===============================================================================
