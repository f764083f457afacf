---------------------------- MODULE RunCodesProofs ----------------------------
(***************************************************************************)
(* The bounds and the round trip of the run-length layouts: for bytes of   *)
(* any width, any usize that holds the size of a block, any tables, and    *)
(* any bytes to decode.                                                    *)
(***************************************************************************)
EXTENDS RunCodes, SliceLemmas

Tables == Seq(ValuesOf[layout])

(* What a header declares fits its bytes because the tables have the sizes *)
(* of their alphabets; a run length is below the weight of its next byte;  *)
(* nothing is decoded before the header is read.                           *)
IInv ==
  /\ TypeOK
  /\ DecoderStaysInBounds
  /\ tables \in Tables \X Tables
  /\ layout = "lengths" => Len(tables[1]) <= LitLens /\ Len(tables[2]) <= Dists
  /\ layout = "norms" => Len(tables[1]) <= AlphabetSize
  /\ layout = "block" => total \in Sizes
  /\ pc = "runLength" => layout = "block"
  /\ pc = "run" => layout = "block" /\ run < weight
  /\ pc = "high" => layout = "norms" /\ ~Complete
  /\ pc = "count" => layout # "block"
  /\ pc = "head" => taken = 0
  /\ pc = "header" => decoded = <<>>
  /\ pc \in {"head", "encode", "runLength"} => decoded = <<>> /\ cursor = 0
  /\ pc # "done" => result = "none"

-----------------------------------------------------------------------------
LEMMA ByteFacts ==
  /\ Half \in Nat /\ Half >= 2
  /\ Base \in Nat /\ Base = 2 * Half /\ Base >= 4
  /\ Byte = 0 .. Base - 1 /\ 0 \in Byte
  /\ LengthSpan \in 1 .. Half
  /\ TableSize \in Half .. Half * Base - 1
BY WidthAssumption DEF Base, Byte

LEMMA ModBounds ==
  ASSUME NEW n \in Nat, NEW d \in Nat \ {0}
  PROVE  n % d \in 0 .. d - 1 /\ n \div d \in Nat /\ n = d * (n \div d) + (n % d)
OBVIOUS

(* A number below d * e has a quotient below e.                            *)
LEMMA DivBound ==
  ASSUME NEW n \in Nat, NEW d \in Nat \ {0}, NEW e \in Nat, n < d * e
  PROVE  n \div d < e
<1> DEFINE q == n \div d
<1>1. q \in Nat /\ d * q <= n
  BY ModBounds
<1> HIDE DEF q
<1>2. SUFFICES ASSUME q >= e PROVE FALSE
  BY <1>1 DEF q
<1>3. d * q >= d * e
  BY <1>1, <1>2
<1> QED
  BY <1>1, <1>3

LEMMA ByteMod == ASSUME NEW n \in Nat PROVE n % Base \in Byte
<1>1. Base \in Nat \ {0}
  BY ByteFacts
<1>2. n % Base \in 0 .. Base - 1
  BY <1>1, ModBounds
<1> QED
  BY <1>2, ByteFacts

LEMMA TwoBytesOK ==
  ASSUME NEW n \in 0 .. Base * Base - 1
  PROVE  TwoBytes(n) \in Seq(Byte) /\ Len(TwoBytes(n)) = 2
<1>1. Base \in Nat \ {0} /\ n \in Nat /\ n < Base * Base
  BY ByteFacts
<1>2. n \div Base \in Nat /\ n \div Base < Base
  BY <1>1, ModBounds, DivBound
<1>3. n \div Base \in Byte
  BY <1>2, ByteFacts
<1>4. n % Base \in Byte
  BY <1>1, ByteMod
<1> QED
  BY <1>3, <1>4 DEF TwoBytes

(* A byte of a run length stays below the weight of the next one.          *)
LEMMA WeightBound ==
  ASSUME NEW w \in Nat, NEW a \in Nat, a < w, NEW c \in 0 .. Half - 1
  PROVE  a + c * w \in Nat /\ a + c * w < Half * w
<1>1. Half \in Nat /\ Half >= 2 /\ c \in Nat /\ Half - 1 - c \in Nat
  BY ByteFacts
<1>2. (Half - 1 - c) * w \in Nat /\ c * w \in Nat
  BY <1>1
<1>3. Half * w = w + c * w + (Half - 1 - c) * w
  BY <1>1
<1> QED
  BY <1>2, <1>3

(* A size is less than usize: what does not exceed one does not wrap.      *)
LEMMA SizeFits ==
  ASSUME usize \in Usizes, NEW e \in Sizes
  PROVE  usize \in Nat \ {0} /\ e \in Nat /\ e < usize
<1>1. e \in Nat
  BY CallsAssumption, LenProperties DEF Sizes
<1>2. usize \in Nat /\ e < usize
  BY UsizeAssumption
<1> QED
  BY <1>1, <1>2

LEMMA WrapBounds ==
  ASSUME usize \in Nat \ {0}, NEW n \in Nat
  PROVE  /\ Wrap(n) \in Nat /\ Wrap(n) <= n
         /\ n < usize => Wrap(n) = n
<1>1. n < usize => n % usize = n
  OBVIOUS
<1>2. n < usize \/ n >= usize
  OBVIOUS
<1>3. n % usize \in 0 .. usize - 1
  BY ModBounds
<1> QED
  BY <1>1, <1>2, <1>3 DEF Wrap

LEMMA ValuesFacts ==
  ASSUME layout \in {"block", "lengths", "norms"}
  PROVE  /\ layout = "block" => ValuesOf[layout] = Byte
         /\ layout = "lengths" => ValuesOf[layout] = 0 .. LengthSpan - 1
         /\ layout = "norms" => ValuesOf[layout] = 0 .. TableSize
         /\ ValuesOf[layout] \subseteq Nat
         /\ 0 \in ValuesOf[layout]
BY ByteFacts DEF ValuesOf

(* A frequency that two bytes spell.                                       *)
LEMMA SlotsOK ==
  ASSUME layout = "norms", NEW n \in Nat, ~TooManySlots(n)
  PROVE  n \in ValuesOf[layout]
<1>1. TableSize \in Nat
  BY ByteFacts
<1>2. n \in 0 .. TableSize
  BY <1>1 DEF TooManySlots
<1>3. ValuesOf[layout] = 0 .. TableSize
  BY ValuesFacts
<1> QED
  BY <1>2, <1>3

LEMMA ResizedOK ==
  ASSUME NEW S, decoded \in Seq(S), value \in S, NEW n \in Nat
  PROVE  Resized(n) \in Seq(S) /\ Len(Resized(n)) = n
<1>1. \A i \in 1 .. n : i <= Len(decoded) => decoded[i] \in S
  BY ElementOfSeq, LenProperties
<1>2. Resized(n) \in [1 .. n -> S]
  BY <1>1 DEF Resized
<1> QED
  BY <1>2, SeqDef, LenProperties

LEMMA TokenOK ==
  ASSUME NEW n \in Nat, NEW v \in ValuesOf[layout]
  PROVE  /\ layout = "lengths" => LengthToken(v, n) \in Seq(Byte)
         /\ layout = "norms" => NormToken(v, n) \in Seq(Byte)
<1>1. n % Base \in Byte /\ 0 \in Byte
  BY ByteMod, ByteFacts
<1>2. ASSUME layout = "lengths" PROVE LengthToken(v, n) \in Seq(Byte)
  <2>1. v \in Byte /\ LengthSpan + v \in Byte
    BY <1>2, ValuesFacts, ByteFacts
  <2> QED
    BY <1>1, <2>1 DEF LengthToken
<1>3. ASSUME layout = "norms" PROVE NormToken(v, n) \in Seq(Byte)
  <2>1. v \in Nat /\ v < Half * Base /\ Half \in Nat \ {0} /\ Base \in Nat
    BY <1>3, ValuesFacts, ByteFacts
  <2>2. v \div Half \in Nat /\ v \div Half < Base
    BY <2>1, ModBounds, DivBound
  <2>3. v % Half \in 0 .. Half - 1
    BY <2>1, ModBounds
  <2>4. v \div Half \in Byte /\ Half + (v % Half) \in Byte /\ (v < Half => v \in Byte)
    <3> HIDE DEF Byte
    <3>1. v \div Half \in Byte
      BY <2>2, ByteFacts
    <3>2. Half + (v % Half) \in Byte
      BY <2>3, ByteFacts
    <3> QED
      BY <3>1, <3>2, <2>1, ByteFacts
  <2> QED
    BY <1>1, <2>4 DEF NormToken
<1> QED
  BY <1>2, <1>3

LEMMA InitIInv == Init => IInv
<1> SUFFICES ASSUME Init PROVE IInv
  OBVIOUS
<1>1. /\ taken = 0 /\ written = 0 /\ whole = TRUE /\ combined = <<>>
      /\ cursor = 0 /\ split = 0 /\ value = 0 /\ run = 0 /\ weight = 1
      /\ decoded = <<>> /\ result = "none" /\ usize \in Usizes
  BY DEF Init
<1>2. Len(decoded) = 0 /\ Len(combined) = 0
  BY <1>1
<1>3. layout \in {"block", "lengths", "norms"}
  BY DEF Init, InitEncoder, InitDecoder
<1>4. CASE InitEncoder
  <2>1. pc = "head" /\ bytes = <<>>
    BY <1>4 DEF InitEncoder
  <2>2. CASE layout = "block"
    <3>1. PICK b \in Blocks : tables = <<b, <<>>>> /\ total = Len(b)
      BY <1>4, <2>2 DEF InitEncoder
    <3>2. b \in Seq(Byte) /\ <<>> \in Seq(Byte) /\ Len(b) \in Nat
      BY CallsAssumption, EmptySeq, LenProperties
    <3>3. tables \in Tables \X Tables
      BY <2>2, <3>1, <3>2, ValuesFacts DEF Tables
    <3>4. total \in Sizes /\ total \in Nat
      BY <3>1, <3>2 DEF Sizes
    <3> QED
      BY <1>1, <1>2, <2>1, <2>2, <3>3, <3>4, EmptySeq, WidthAssumption, ByteFacts
      DEF IInv, TypeOK, DecoderStaysInBounds
  <2>3. CASE layout = "lengths"
    <3>1. PICK l \in LitTables, d \in DistTables : tables = <<l, d>>
      BY <1>4, <2>3 DEF InitEncoder
    <3>2. l \in Seq(0 .. LengthSpan - 1) /\ d \in Seq(0 .. LengthSpan - 1)
      <4>1. LitLens \in Nat /\ Dists \in Nat
        BY WidthAssumption, ByteFacts
      <4>2. l \in [1 .. LitLens -> 0 .. LengthSpan - 1] /\ d \in [1 .. Dists -> 0 .. LengthSpan - 1]
        BY CallsAssumption
      <4> QED
        BY <4>1, <4>2, SeqDef, ZenonT(30)
    <3>3. Len(l) = LitLens /\ Len(d) = Dists
      <4>1. DOMAIN l = 1 .. LitLens /\ DOMAIN d = 1 .. Dists /\ LitLens \in Nat /\ Dists \in Nat
        BY CallsAssumption, WidthAssumption, ByteFacts
      <4> QED
        BY <3>2, <4>1, LenProperties
    <3>4. tables \in Tables \X Tables
      BY <2>3, <3>1, <3>2, ValuesFacts DEF Tables
    <3>5. Len(tables[1]) <= LitLens /\ Len(tables[2]) <= Dists
      BY <3>1, <3>3, WidthAssumption, ByteFacts
    <3>6. total = 0
      BY <1>4, <2>3 DEF InitEncoder
    <3> QED
      BY <1>1, <1>2, <2>1, <2>3, <3>4, <3>5, <3>6, EmptySeq, WidthAssumption, ByteFacts
      DEF IInv, TypeOK, DecoderStaysInBounds
  <2>4. CASE layout = "norms"
    <3>1. PICK f \in Norms : tables = <<f, <<>>>>
      BY <1>4, <2>4 DEF InitEncoder
    <3>2. f \in Seq(0 .. TableSize) /\ Len(f) = AlphabetSize /\ <<>> \in Seq(0 .. TableSize)
      <4>1. AlphabetSize \in Nat
        BY WidthAssumption, ByteFacts
      <4>2. f \in [1 .. AlphabetSize -> 0 .. TableSize]
        BY CallsAssumption
      <4>3. f \in Seq(0 .. TableSize)
        BY <4>1, <4>2, SeqDef
      <4> QED
        BY <4>1, <4>2, <4>3, LenProperties, EmptySeq
    <3>3. tables \in Tables \X Tables
      BY <2>4, <3>1, <3>2, ValuesFacts DEF Tables
    <3>4. Len(tables[1]) <= AlphabetSize
      BY <3>1, <3>2, WidthAssumption, ByteFacts
    <3>5. total = 0
      BY <1>4, <2>4 DEF InitEncoder
    <3> QED
      BY <1>1, <1>2, <2>1, <2>4, <3>3, <3>4, <3>5, EmptySeq, WidthAssumption, ByteFacts
      DEF IInv, TypeOK, DecoderStaysInBounds
  <2> QED
    BY <1>3, <2>2, <2>3, <2>4
<1>5. CASE InitDecoder
  <2>1. bytes \in Seq(Byte) /\ tables = <<<<>>, <<>>>>
    BY <1>5, CallsAssumption DEF InitDecoder
  <2>2. tables \in Tables \X Tables /\ Len(tables[1]) = 0 /\ Len(tables[2]) = 0
    BY <2>1, EmptySeq DEF Tables
  <2>3. total \in Nat /\ (layout = "block" => total \in Sizes)
    <3>1. Expected \subseteq Nat
      BY CallsAssumption
    <3>2. (layout = "block" /\ total \in Expected) \/ (layout # "block" /\ total = 0)
      <4>1. \/ layout = "block" /\ pc = "token" /\ total \in Expected
            \/ layout \in {"lengths", "norms"} /\ pc = "header" /\ total = 0
        BY <1>5, Zenon DEF InitDecoder
      <4> QED
        BY <4>1
    <3>3. CASE layout = "block" /\ total \in Expected
      BY <3>1, <3>3 DEF Sizes
    <3>4. CASE layout # "block" /\ total = 0
      BY <3>4
    <3> QED
      BY <3>2, <3>3, <3>4
  <2>4. pc = "token" \/ pc = "header"
    BY <1>5 DEF InitDecoder
  <2>5. Len(bytes) \in Nat /\ 0 <= LitLens /\ 0 <= Dists /\ 0 <= AlphabetSize
    BY <2>1, LenProperties, WidthAssumption, ByteFacts
  <2> QED
    BY <1>1, <1>2, <1>3, <2>1, <2>2, <2>3, <2>4, <2>5, EmptySeq, WidthAssumption, ByteFacts
    DEF IInv, TypeOK, DecoderStaysInBounds
<1> QED
  BY <1>4, <1>5 DEF Init
-----------------------------------------------------------------------------
LEMMA IInvTypes ==
  ASSUME IInv
  PROVE  /\ tables \in Tables \X Tables /\ tables[1] \in Tables /\ tables[2] \in Tables
         /\ Len(tables[1]) \in Nat /\ Len(tables[2]) \in Nat
         /\ Len(bytes) \in Nat /\ Len(combined) \in Nat /\ Len(decoded) \in Nat
         /\ weight \in Nat \ {0}
         /\ \A i \in 1 .. Len(bytes) : bytes[i] \in Byte
BY LenProperties, ElementOfSeq, WidthAssumption DEF IInv, TypeOK, Tables

LEMMA WriteHeaderStep ==
  ASSUME IInv, WriteHeader
  PROVE  IInv'
<1>1. PICK m \in 0 .. Len(tables[1]), n \in 0 .. Len(tables[2]) :
        /\ IsActive(m, tables[1], Least) /\ IsActive(n, tables[2], 0)
        /\ combined' = SubSeq(tables[1], 1, m) \o SubSeq(tables[2], 1, n)
        /\ bytes' = Header(m, n)
  BY DEF WriteHeader
<1>2. combined' \in Tables
  <2> DEFINE V == ValuesOf[layout]
  <2>0. tables[1] \in Seq(V) /\ tables[2] \in Seq(V) /\ Tables = Seq(V)
    BY IInvTypes DEF Tables
  <2> HIDE DEF V
  <2>1. SubSeq(tables[1], 1, m) \in Tables /\ SubSeq(tables[2], 1, n) \in Tables
    <3>1. 1 \in Nat \ {0}
      OBVIOUS
    <3>2. SubSeq(tables[1], 1, m) \in Seq(V)
      BY <1>1, <2>0, <3>1, SliceType
    <3>3. SubSeq(tables[2], 1, n) \in Seq(V)
      BY <1>1, <2>0, <3>1, SliceType
    <3> QED
      BY <2>0, <3>2, <3>3
  <2> QED
    BY <1>1, <2>0, <2>1, ConcatProperties
<1>3. m \in Nat /\ n \in Nat
  BY <1>1, IInvTypes
<1>4. bytes' \in Seq(Byte)
  <2>1. CASE layout = "block"
    BY <1>1, <2>1, EmptySeq DEF Header
  <2>2. CASE layout = "lengths"
    <3>1. m \in 0 .. Base * Base - 1
      <4>1. m <= LitLens
        BY <1>1, <1>3, <2>2, WidthAssumption, IInvTypes DEF IInv
      <4>2. Base * Base \in Nat /\ LitLens \in Nat /\ LitLens <= Base * Base - 1
        BY WidthAssumption, ByteFacts
      <4> QED
        BY <1>3, <4>1, <4>2
    <3>2. TwoBytes(m) \in Seq(Byte)
      BY <3>1, TwoBytesOK
    <3>3. <<n % Base>> \in Seq(Byte)
      BY <1>3, ByteMod
    <3> QED
      BY <1>1, <2>2, <3>2, <3>3, ConcatProperties DEF Header
  <2>3. CASE layout = "norms"
    <3>1. m >= 1
      BY <1>1, <2>3 DEF IsActive, Least
    <3>2. m <= AlphabetSize /\ AlphabetSize <= Base * Base /\ AlphabetSize \in Nat
      BY <1>1, <1>3, <2>3, WidthAssumption, ByteFacts, IInvTypes DEF IInv
    <3>3. Base * Base \in Nat
      BY ByteFacts
    <3>4. m - 1 \in 0 .. Base * Base - 1
      BY <1>3, <3>1, <3>2, <3>3
    <3> QED
      BY <1>1, <2>3, <3>4, TwoBytesOK DEF Header
  <2> QED
    BY <2>1, <2>2, <2>3 DEF IInv, TypeOK
<1>5. /\ pc' = "encode" /\ pc = "head"
      /\ UNCHANGED <<usize, layout, tables, taken, whole, written, cursor, headVars, runVars, decoded,
                     result>>
  BY DEF WriteHeader
<1>6. taken' = 0 /\ Len(combined') \in Nat /\ Len(bytes') \in Nat
  BY <1>2, <1>4, <1>5, LenProperties DEF IInv, Tables
<1>7. TypeOK'
  <2>1. UNCHANGED <<usize, layout, whole, written, cursor, total, split, value, run, weight,
                    decoded, result>>
    BY <1>5 DEF headVars, runVars
  <2>2. cursor' = 0 /\ combined' \in Seq(ValuesOf'[layout'])
    BY <1>2, <1>5, <2>1 DEF IInv, Tables, ValuesOf
  <2>3. decoded' \in Seq(ValuesOf'[layout'])
    BY <2>1 DEF IInv, TypeOK, ValuesOf
  <2> QED
    BY <1>4, <1>5, <1>6, <2>1, <2>2, <2>3 DEF IInv, TypeOK
<1> QED
  BY <1>5, <1>7 DEF IInv, DecoderStaysInBounds, Tables, ValuesOf, headVars, runVars
LEMMA WriteRunStep ==
  ASSUME IInv, WriteRun
  PROVE  IInv'
<1>1. PICK n \in 1 .. Len(combined) - taken :
        /\ taken' = taken + n
        /\ \/ /\ layout = "block"
              /\ bytes' = Append(bytes, combined[taken + 1])
              /\ pc' = "runLength" /\ run' = n
           \/ /\ layout = "lengths"
              /\ bytes' = bytes \o LengthToken(combined[taken + 1], n)
              /\ UNCHANGED <<pc, run>>
           \/ /\ layout = "norms"
              /\ bytes' = bytes \o NormToken(combined[taken + 1], n)
              /\ UNCHANGED <<pc, run>>
  BY DEF WriteRun
<1>2. /\ pc = "encode" /\ (pc' = "encode" \/ (pc' = "runLength" /\ layout = "block"))
      /\ UNCHANGED <<usize, layout, tables, combined, whole, written, cursor, total, split, value,
                     weight,
                     decoded, result>>
  <2>1. /\ pc = "encode"
        /\ UNCHANGED <<usize, layout, tables, combined, whole, written, cursor, headVars, value,
                       weight,
                       decoded, result>>
    BY DEF WriteRun
  <2>2. pc' = pc \/ (pc' = "runLength" /\ layout = "block")
    BY <1>1
  <2> QED
    BY <2>1, <2>2 DEF headVars
<1>3. n \in Nat /\ taken \in Nat /\ taken' \in 0 .. Len(combined) /\ run' \in Nat
  <2>1. taken \in 0 .. Len(combined) /\ Len(combined) \in Nat /\ run \in Nat
    BY IInvTypes DEF IInv, TypeOK
  <2>2. n \in 1 .. Len(combined) - taken /\ taken' = taken + n /\ (run' = n \/ run' = run)
    BY <1>1
  <2> QED
    BY <2>1, <2>2
<1>4. combined[taken + 1] \in ValuesOf[layout]
  BY <1>1, <1>3, IInvTypes, ElementOfSeq, SMTT(30) DEF IInv, TypeOK
<1>5. bytes' \in Seq(Byte)
  <2>0. bytes \in Seq(Byte) /\ layout \in {"block", "lengths", "norms"}
    BY DEF IInv, TypeOK
  <2>1. CASE layout = "block"
    <3>1. combined[taken + 1] \in Byte /\ bytes' = Append(bytes, combined[taken + 1])
      BY <1>1, <1>4, <2>1, ValuesFacts
    <3> QED
      BY <2>0, <3>1, AppendProperties
  <2>2. CASE layout = "lengths"
    <3>1. LengthToken(combined[taken + 1], n) \in Seq(Byte)
      BY <1>3, <1>4, <2>2, TokenOK
    <3> QED
      BY <1>1, <2>0, <2>2, <3>1, ConcatProperties
  <2>3. CASE layout = "norms"
    <3>1. NormToken(combined[taken + 1], n) \in Seq(Byte)
      BY <1>3, <1>4, <2>3, TokenOK
    <3> QED
      BY <1>1, <2>0, <2>3, <3>1, ConcatProperties
  <2> QED
    BY <2>0, <2>1, <2>2, <2>3
<1>6. cursor' = 0 /\ Len(bytes') \in Nat
  BY <1>2, <1>5, LenProperties DEF IInv
<1>7. TypeOK'
  BY <1>2, <1>3, <1>5, <1>6 DEF IInv, TypeOK, ValuesOf
<1> QED
  BY <1>2, <1>7 DEF IInv, DecoderStaysInBounds, Tables, ValuesOf

LEMMA WriteRunLengthStep ==
  ASSUME IInv, WriteRunLength
  PROVE  IInv'
<1>1. /\ pc = "runLength" /\ (pc' = "runLength" \/ pc' = "encode")
      /\ bytes' = Append(bytes, (run % Half) + (IF run >= Half THEN Half ELSE 0))
      /\ run' = run \div Half
      /\ UNCHANGED <<usize, layout, tables, combined, taken, whole, written, cursor, total, split,
                     value, weight,
                     decoded, result>>
  BY DEF WriteRunLength, headVars
<1>2. run % Half \in 0 .. Half - 1 /\ run \div Half \in Nat
  <2>1. run \in Nat /\ Half \in Nat \ {0}
    BY ByteFacts DEF IInv, TypeOK
  <2> QED
    BY <2>1, ModBounds
<1>3. (run % Half) + (IF run >= Half THEN Half ELSE 0) \in Byte
  BY <1>2, ByteFacts, SMTT(30) DEF IInv, TypeOK
<1>4. bytes' \in Seq(Byte)
  BY <1>1, <1>3, AppendProperties DEF IInv, TypeOK
<1>5. cursor' = 0 /\ Len(bytes') \in Nat
  BY <1>1, <1>4, LenProperties DEF IInv
<1>6. TypeOK'
  BY <1>1, <1>2, <1>4, <1>5 DEF IInv, TypeOK, ValuesOf
<1> QED
  BY <1>1, <1>6 DEF IInv, DecoderStaysInBounds, Tables, ValuesOf

LEMMA DeliverStep ==
  ASSUME IInv, Deliver
  PROVE  IInv'
<1>1. /\ pc = "encode" /\ pc' = (IF layout = "block" THEN "token" ELSE "header")
      /\ written' = Len(bytes)
      /\ UNCHANGED <<usize, layout, tables, combined, taken, cursor, total, split, value, run, weight,
                     decoded, result>>
  BY DEF Deliver, headVars, runVars
<1>2. bytes' \in Seq(Byte) /\ whole' \in BOOLEAN
  <2>1. CASE /\ \E t \in IF layout = "block" THEN {<<>>} ELSE Tails : bytes' = bytes \o t
             /\ UNCHANGED whole
    <3>1. PICK t \in Seq(Byte) : bytes' = bytes \o t
      BY <2>1, CallsAssumption, EmptySeq
    <3> QED
      BY <2>1, <3>1, ConcatProperties DEF IInv, TypeOK
  <2>2. CASE /\ \E n \in 0 .. Len(bytes) - 1 : bytes' = SubSeq(bytes, 1, n)
             /\ whole' = FALSE
    <3>1. PICK n \in 0 .. Len(bytes) : bytes' = SubSeq(bytes, 1, n)
      BY <2>2, IInvTypes, SMTT(30)
    <3>2. bytes \in Seq(Byte) /\ 1 \in Nat \ {0}
      BY DEF IInv, TypeOK
    <3>3. SubSeq(bytes, 1, n) \in Seq(Byte)
      BY <3>1, <3>2, SliceType
    <3> QED
      BY <2>2, <3>1, <3>3
  <2> QED
    BY <2>1, <2>2 DEF Deliver
<1>3. pc' \in {"token", "header"} /\ cursor' = 0 /\ decoded' = <<>> /\ result' = "none"
      /\ Len(bytes') \in Nat /\ written' \in Nat
  BY <1>1, <1>2, IInvTypes, LenProperties DEF IInv
<1>4. TypeOK'
  BY <1>1, <1>2, <1>3 DEF IInv, TypeOK, ValuesOf
<1>5. DecoderStaysInBounds'
  <2>1. decoded' = decoded /\ total' = total /\ result' = result
    BY <1>1
  <2> QED
    BY <2>1 DEF IInv, DecoderStaysInBounds
<1>6. tables' \in (Tables \X Tables)'
  BY <1>1 DEF IInv, Tables, ValuesOf
<1>7. pc' = "header" => layout' # "block"
  BY <1>1
<1> QED
  BY <1>1, <1>3, <1>4, <1>5, <1>6, <1>7 DEF IInv

-----------------------------------------------------------------------------
(* What all steps of a decoder have in common.                             *)
LEMMA ReaderStep ==
  ASSUME IInv, UNCHANGED <<usize, layout, writeVars>>,
         cursor' \in 0 .. Len(bytes), total' \in Nat, split' \in Nat,
         value' \in Byte, run' \in Nat, weight' \in Weights,
         layout = "block" => total' = total,
         pc' \in {"token", "count", "high", "run", "done"},
         pc' = "count" => layout # "block" /\ value' \in ValuesOf[layout],
         pc' = "run" => layout = "block" /\ run' < weight',
         pc' = "high" => layout = "norms" /\ ~Complete /\ UNCHANGED <<decoded, total>>,
         decoded' \in Seq(ValuesOf[layout]), Len(decoded') <= total',
         result' \in Errors \cup {"none", "ok"}, pc' # "done" => result' = "none",
         result' = "ok" => Len(decoded') = total'
  PROVE  IInv'
<1>1. UNCHANGED <<usize, layout, tables, combined, taken, bytes, whole, written>>
  BY DEF writeVars
<1>2. TypeOK'
  BY <1>1 DEF IInv, TypeOK, ValuesOf
<1> QED
  BY <1>1, <1>2 DEF IInv, DecoderStaysInBounds, Tables, ValuesOf, Complete

LEMMA ReadHeaderStep ==
  ASSUME IInv, ReadHeader
  PROVE  IInv'
<1>1. /\ pc = "header" /\ HeaderSize \in Nat /\ cursor' = HeaderSize /\ HeaderSize <= Len(bytes)
      /\ layout # "block"
      /\ UNCHANGED <<usize, layout, writeVars, value, run, weight, decoded>>
      /\ pc' \in {"token", "done"}
      /\ \/ pc' = "done" /\ result' = "CorruptedEntropyStream"
         \/ pc' = "token" /\ result' = result
  BY DEF ReadHeader, Return, Continue, HeaderSize, runVars
<1>2. bytes[1] \in Nat /\ bytes[2] \in Nat /\ (layout = "lengths" => bytes[3] \in Nat)
  BY <1>1, IInvTypes, ByteFacts DEF HeaderSize
<1>3. Base * bytes[2] \in Nat
  BY <1>2, ByteFacts
<1>4. total' \in Nat /\ split' \in Nat
  <2> DEFINE two == bytes[1] + Base * bytes[2]
  <2>1. two \in Nat
    BY <1>2, <1>3
  <2>2. \/ layout = "lengths" /\ split' = two /\ total' = two + bytes[3]
        \/ split' = two + 1 /\ total' = two + 1
    BY DEF ReadHeader
  <2> HIDE DEF two
  <2> QED
    BY <1>2, <2>1, <2>2
<1>5. Len(decoded') = 0
  BY <1>1 DEF IInv
<1>6. cursor' \in 0 .. Len(bytes)
  BY <1>1, IInvTypes
<1>7. result' \in Errors \cup {"none", "ok"} /\ (pc' # "done" => result' = "none") /\ result' # "ok"
  BY <1>1 DEF IInv, Errors
<1>8. decoded' \in Seq(ValuesOf[layout]) /\ value' \in Byte /\ run' \in Nat /\ weight' \in Weights
  BY <1>1 DEF IInv, TypeOK
<1>9. Len(decoded') <= total'
  BY <1>4, <1>5
<1> QED
  BY <1>1, <1>4, <1>6, <1>7, <1>8, <1>9, ReaderStep

LEMMA FinishStep ==
  ASSUME IInv, EndOfRuns
  PROVE  IInv'
<1>1. /\ Complete /\ pc' = "done" /\ decoded' = decoded
      /\ result' = (IF Sound THEN "ok" ELSE "CorruptedEntropyStream")
      /\ UNCHANGED <<usize, layout, writeVars, cursor, total, split, value, run, weight>>
  BY DEF EndOfRuns, Return, headVars, runVars
<1>2. Len(decoded) <= total /\ Len(decoded) \in Nat /\ total \in Nat
  BY IInvTypes DEF IInv, TypeOK, DecoderStaysInBounds
<1>3. result' = "ok" => Len(decoded) = total
  BY <1>1, <1>2 DEF Complete, Sound
<1> QED
  BY <1>1, <1>2, <1>3, ReaderStep DEF IInv, TypeOK, Errors

LEMMA TornByteStep ==
  ASSUME IInv, TornByte
  PROVE  IInv'
<1>1. /\ pc' = "done" /\ decoded' = decoded /\ result' = "UnexpectedEof"
      /\ UNCHANGED <<usize, layout, writeVars, cursor, total, split, value, run, weight>>
  BY DEF TornByte, Return, headVars, runVars
<1> QED
  BY <1>1, ReaderStep DEF IInv, TypeOK, DecoderStaysInBounds, Errors

(* A byte is read.                                                         *)
LEMMA NextByte ==
  ASSUME IInv, cursor < Len(bytes)
  PROVE  cursor + 1 \in 0 .. Len(bytes) /\ bytes[cursor + 1] \in Byte
BY IInvTypes DEF IInv, TypeOK
(* One more value is decoded: there is room, as the loop was entered.      *)
LEMMA AppendOne ==
  ASSUME IInv, layout # "block", ~Complete, NEW b \in ValuesOf[layout]
  PROVE  /\ Append(decoded, b) \in Seq(ValuesOf[layout])
         /\ Len(Append(decoded, b)) <= total
<1>1. Len(decoded) < total
  BY IInvTypes DEF IInv, TypeOK, Complete
<1>2. Append(decoded, b) \in Seq(ValuesOf[layout]) /\ Len(Append(decoded, b)) = Len(decoded) + 1
  BY AppendProperties DEF IInv, TypeOK
<1> QED
  BY <1>1, <1>2, IInvTypes DEF IInv, TypeOK

LEMMA ReadValueStep ==
  ASSUME IInv, ReadValue
  PROVE  IInv'
<1> DEFINE b == bytes[cursor + 1]
<1>1. /\ pc = "token" /\ ~Complete /\ cursor < Len(bytes) /\ cursor' = cursor + 1
      /\ UNCHANGED <<usize, layout, writeVars, total, split>>
  BY DEF ReadValue, headVars
<1>2. b \in Byte /\ cursor + 1 \in 0 .. Len(bytes)
  BY <1>1, NextByte
<1>3. /\ total \in Nat /\ split \in Nat /\ value \in Byte /\ run \in Nat /\ weight \in Weights
      /\ decoded \in Seq(ValuesOf[layout]) /\ Len(decoded) <= total /\ result = "none"
      /\ layout \in {"block", "lengths", "norms"}
  BY <1>1 DEF IInv, TypeOK, DecoderStaysInBounds
<1>4. /\ \/ layout = "block" /\ Await("run", b) /\ run' = 0 /\ weight' = 1
         \/ /\ layout = "lengths" /\ (b = 0 \/ b >= LengthSpan)
            /\ Await("count", b % LengthSpan)
            /\ UNCHANGED <<run, weight>>
         \/ layout = "norms" /\ b = 0 /\ Await("count", 0) /\ UNCHANGED <<run, weight>>
         \/ layout = "norms" /\ b >= Half /\ Await("high", b) /\ UNCHANGED <<run, weight>>
         \/ /\ b \in 1 .. (IF layout = "lengths" THEN LengthSpan ELSE Half) - 1 /\ layout # "block"
            /\ Continue(Append(decoded, b))
            /\ UNCHANGED <<value, run, weight>>
  BY DEF ReadValue, runVars
<1> HIDE DEF b
<1>5. CASE layout = "block" /\ Await("run", b) /\ run' = 0 /\ weight' = 1
  BY <1>1, <1>2, <1>3, <1>5, ReaderStep, WidthAssumption DEF Await
<1>6. CASE layout = "lengths" /\ Await("count", b % LengthSpan) /\ UNCHANGED <<run, weight>>
  <2>1. b % LengthSpan \in 0 .. LengthSpan - 1
    BY <1>2, ByteFacts, ModBounds
  <2>2. b % LengthSpan \in ValuesOf[layout] /\ b % LengthSpan \in Byte
    BY <1>6, <2>1, ValuesFacts, ByteFacts
  <2> QED
    BY <1>1, <1>2, <1>3, <1>6, <2>2, ReaderStep DEF Await
<1>7. CASE layout = "norms" /\ Await("count", 0) /\ UNCHANGED <<run, weight>>
  BY <1>1, <1>2, <1>3, <1>7, ReaderStep, ValuesFacts, ByteFacts DEF Await
<1>8. CASE layout = "norms" /\ Await("high", b) /\ UNCHANGED <<run, weight>>
  BY <1>1, <1>2, <1>3, <1>8, ReaderStep DEF Await
<1>9. CASE /\ b \in 1 .. (IF layout = "lengths" THEN LengthSpan ELSE Half) - 1 /\ layout # "block"
           /\ Continue(Append(decoded, b))
           /\ UNCHANGED <<value, run, weight>>
  <2>1. b \in ValuesOf[layout]
    BY <1>3, <1>9, ValuesFacts, ByteFacts
  <2> QED
    BY <1>1, <1>2, <1>3, <1>9, <2>1, AppendOne, ReaderStep DEF Continue
<1> QED
  BY <1>4, <1>5, <1>6, <1>7, <1>8, <1>9

LEMMA ReadCountStep ==
  ASSUME IInv, ReadCount
  PROVE  IInv'
<1> DEFINE n == bytes[cursor + 1]
<1>1. /\ pc = "count" /\ cursor < Len(bytes) /\ cursor' = cursor + 1
      /\ UNCHANGED <<usize, layout, writeVars, total, split, value, run, weight>>
      /\ \/ Return("CorruptedEntropyStream")
         \/ Room(n) /\ Continue(Resized(Len(decoded) + n))
  BY DEF ReadCount, headVars, runVars
<1>2. n \in Nat /\ cursor + 1 \in 0 .. Len(bytes)
  BY <1>1, NextByte, ByteFacts
<1>3. /\ total \in Nat /\ split \in Nat /\ value \in Byte /\ run \in Nat /\ weight \in Weights
      /\ decoded \in Seq(ValuesOf[layout]) /\ Len(decoded) <= total /\ result = "none"
      /\ layout # "block" /\ value \in ValuesOf[layout]
  BY <1>1 DEF IInv, TypeOK, DecoderStaysInBounds
<1> HIDE DEF n
<1>4. CASE Return("CorruptedEntropyStream")
  BY <1>1, <1>2, <1>3, <1>4, ReaderStep DEF Return, Errors
<1>5. CASE Room(n) /\ Continue(Resized(Len(decoded) + n))
  <2>1. Len(decoded) + n \in Nat /\ Len(decoded) + n <= total
    BY <1>2, <1>5, IInvTypes DEF Room
  <2>2. /\ Resized(Len(decoded) + n) \in Seq(ValuesOf[layout])
        /\ Len(Resized(Len(decoded) + n)) = Len(decoded) + n
    BY <1>3, <2>1, ResizedOK
  <2> QED
    BY <1>1, <1>2, <1>3, <1>5, <2>1, <2>2, ReaderStep DEF Continue
<1> QED
  BY <1>1, <1>4, <1>5

(* Between the two bytes of a frequency the loop has not been left.        *)
LEMMA ReadHighStep ==
  ASSUME IInv, ReadHigh
  PROVE  IInv'
<1> DEFINE n == (value % Half) + Half * bytes[cursor + 1]
<1>1. /\ pc = "high" /\ cursor < Len(bytes) /\ cursor' = cursor + 1
      /\ UNCHANGED <<usize, layout, writeVars, total, split, value, run, weight>>
      /\ \/ Return("CorruptedEntropyStream")
         \/ ~TooManySlots(n) /\ Continue(Append(decoded, n))
  BY DEF ReadHigh, headVars, runVars
<1>2. n \in Nat /\ cursor + 1 \in 0 .. Len(bytes)
  <2>0. value \in Nat /\ Half \in Nat \ {0}
    BY ByteFacts DEF IInv, TypeOK
  <2>1. value % Half \in Nat /\ bytes[cursor + 1] \in Nat /\ Half \in Nat
    BY <1>1, <2>0, NextByte, ByteFacts, ModBounds
  <2>2. Half * bytes[cursor + 1] \in Nat
    BY <2>1
  <2> QED
    BY <1>1, <2>1, <2>2, NextByte
<1>3. /\ total \in Nat /\ split \in Nat /\ value \in Byte /\ run \in Nat /\ weight \in Weights
      /\ decoded \in Seq(ValuesOf[layout]) /\ Len(decoded) <= total /\ result = "none"
      /\ layout = "norms"
  BY <1>1 DEF IInv, TypeOK, DecoderStaysInBounds
<1> HIDE DEF n
<1>4. CASE Return("CorruptedEntropyStream")
  BY <1>1, <1>2, <1>3, <1>4, ReaderStep DEF Return, Errors
<1>5. CASE ~TooManySlots(n) /\ Continue(Append(decoded, n))
  <2>1. n \in ValuesOf[layout]
    BY <1>2, <1>3, <1>5, SlotsOK
  <2>2. ~Complete
    BY <1>1 DEF IInv
  <2> QED
    BY <1>1, <1>2, <1>3, <1>5, <2>1, <2>2, AppendOne, ReaderStep DEF Continue
<1> QED
  BY <1>1, <1>4, <1>5

(* Whatever wraps, what the decoder has of a run length stays below the    *)
(* weight of its next byte. Where usize is roomy nothing wraps.            *)
LEMMA RunLengthBounds ==
  ASSUME IInv, pc = "run", cursor < Len(bytes)
  PROVE  LET sofar == Wrap(run + (bytes[cursor + 1] % Half) * weight)
             end == Wrap(Len(decoded) + sofar)
         IN  /\ sofar \in Nat /\ sofar < Half * weight /\ end \in Nat
             /\ Roomy => end = Len(decoded) + sofar
<1> DEFINE c == bytes[cursor + 1] % Half
           r == run + c * weight
<1>1. /\ weight \in Nat /\ weight \in Weights /\ run \in Nat /\ run < weight
      /\ total \in Sizes /\ usize \in Usizes
      /\ Len(decoded) \in Nat /\ Len(decoded) <= total
  BY IInvTypes DEF IInv, TypeOK, DecoderStaysInBounds
<1>2. c \in 0 .. Half - 1
  <2>1. bytes[cursor + 1] \in Nat /\ Half \in Nat \ {0}
    BY NextByte, ByteFacts
  <2> QED
    BY <2>1, ModBounds
<1> HIDE DEF c
<1>3. r \in Nat /\ r < Half * weight
  BY <1>1, <1>2, WeightBound
<1> HIDE DEF r
<1>4. Half * weight \in Nat /\ total \in Nat /\ usize \in Nat \ {0}
  BY <1>1, ByteFacts, SizeFits
<1>5. Wrap(r) \in Nat /\ Wrap(r) < Half * weight
  BY <1>3, <1>4, WrapBounds
<1>6. Len(decoded) + Wrap(r) \in Nat
  BY <1>1, <1>5
<1>7. Wrap(Len(decoded) + Wrap(r)) \in Nat
  BY <1>4, <1>6, WrapBounds
<1>8. ASSUME Roomy PROVE Wrap(Len(decoded) + Wrap(r)) = Len(decoded) + Wrap(r)
  <2>1. Half * weight + total < usize
    BY <1>1, <1>8 DEF Roomy
  <2>2. Len(decoded) + Wrap(r) < usize
    BY <1>1, <1>4, <1>5, <2>1
  <2> QED
    BY <1>4, <1>6, <2>2, WrapBounds
<1> QED
  BY <1>5, <1>7, <1>8 DEF r, c

LEMMA ReadRunLengthStep ==
  ASSUME IInv, ReadRunLength
  PROVE  IInv'
<1> DEFINE b == bytes[cursor + 1]
           sofar == Wrap(run + (b % Half) * weight)
           end == Wrap(Len(decoded) + sofar)
<1>1. /\ pc = "run" /\ cursor < Len(bytes) /\ cursor' = cursor + 1
      /\ UNCHANGED <<usize, layout, writeVars, total, split, value>>
      /\ \/ /\ Half * weight \in Weights /\ run' = sofar /\ weight' = Half * weight
            /\ UNCHANGED <<pc, decoded, result>>
         \/ Return("CorruptedEntropyStream") /\ UNCHANGED <<run, weight>>
         \/ Return("InvalidMatchLength") /\ UNCHANGED <<run, weight>>
         \/ end <= total /\ Continue(Resized(end)) /\ UNCHANGED <<run, weight>>
  BY DEF ReadRunLength, headVars
<1>2. sofar \in Nat /\ sofar < Half * weight /\ end \in Nat
  BY <1>1, RunLengthBounds
<1> HIDE DEF b, sofar, end
<1>3. /\ total \in Nat /\ split \in Nat /\ value \in Byte /\ run \in Nat /\ weight \in Weights
      /\ decoded \in Seq(ValuesOf[layout]) /\ Len(decoded) <= total /\ result = "none"
      /\ layout = "block" /\ run < weight /\ value \in ValuesOf[layout]
      /\ cursor + 1 \in 0 .. Len(bytes)
  BY <1>1, NextByte, ValuesFacts DEF IInv, TypeOK, DecoderStaysInBounds
<1>4. CASE /\ Half * weight \in Weights /\ run' = sofar /\ weight' = Half * weight
           /\ UNCHANGED <<pc, decoded, result>>
  BY <1>1, <1>2, <1>3, <1>4, ReaderStep
<1>5. CASE /\ Return("CorruptedEntropyStream") \/ Return("InvalidMatchLength")
           /\ UNCHANGED <<run, weight>>
  BY <1>1, <1>3, <1>5, ReaderStep DEF Return, Errors
<1>6. CASE end <= total /\ Continue(Resized(end)) /\ UNCHANGED <<run, weight>>
  <2>1. Resized(end) \in Seq(ValuesOf[layout]) /\ Len(Resized(end)) = end
    BY <1>2, <1>3, ResizedOK
  <2> QED
    BY <1>1, <1>2, <1>3, <1>6, <2>1, ReaderStep DEF Continue
<1> QED
  BY <1>1, <1>4, <1>5, <1>6

-----------------------------------------------------------------------------
LEMMA NextIInv == IInv /\ [Next]_vars => IInv'
<1> SUFFICES ASSUME IInv, [Next]_vars PROVE IInv'
  OBVIOUS
<1>1. CASE Encode
  BY <1>1, WriteHeaderStep, WriteRunStep, WriteRunLengthStep, DeliverStep DEF Encode
<1>2. CASE Decode
  BY <1>2, ReadHeaderStep, FinishStep, TornByteStep, ReadValueStep, ReadCountStep, ReadHighStep,
     ReadRunLengthStep
  DEF Decode
<1>3. CASE UNCHANGED vars
  BY <1>3 DEF vars, writeVars, headVars, runVars, IInv, TypeOK, DecoderStaysInBounds, Tables,
              ValuesOf, Complete
<1> QED
  BY <1>1, <1>2, <1>3 DEF Next, Done

LEMMA SpecIInv == Spec => []IInv
BY InitIInv, NextIInv, PTL DEF Spec

(* What the encoders write are bytes and what the decoders deliver are     *)
(* values of the layout, for all widths and inputs.                        *)
THEOREM RunTypes == Spec => []TypeOK
<1>1. IInv => TypeOK
  BY DEF IInv
<1> QED
  BY <1>1, SpecIInv, PTL

(* No decoder exceeds what was declared, whatever its bytes are, and none  *)
(* accepts less.                                                           *)
THEOREM RunDecoderStaysInBounds == Spec => []DecoderStaysInBounds
<1>1. IInv => DecoderStaysInBounds
  BY DEF IInv
<1> QED
  BY <1>1, SpecIInv, PTL

-----------------------------------------------------------------------------
LEMMA ResizedExtends ==
  ASSUME NEW n \in Nat, Len(decoded) \in Nat, n >= Len(decoded), decoded' = Resized(n),
         Len(Resized(n)) = n
  PROVE  Extended
BY DEF Extended, Resized

LEMMA AppendExtends ==
  ASSUME NEW S, NEW b \in S, decoded \in Seq(S), decoded' = Append(decoded, b)
  PROVE  Extended
BY AppendProperties, LenProperties DEF Extended

-----------------------------------------------------------------------------
(* The round trip. What an encoder writes is a chain of runs: a set of     *)
(* marks, each the end of one run in the bytes and in the values, and each *)
(* with a next one or at the end of both. The decoder goes from mark to    *)
(* mark, in bytes that agree with those written as far as they go.         *)

(* A byte of a run length of which r is left.                              *)
Digit(r) == (r % Half) + (IF r >= Half THEN Half ELSE 0)

(* What is left of a run length before each of its bytes, as far as they   *)
(* are written: those from p + 1 to e, none of which is the last.          *)
Begun(s, q, p, e) ==
  /\ q \in [p .. e -> Nat]
  /\ \A j \in p .. e - 1 :
       q[j] >= Half /\ q[j + 1] = q[j] \div Half /\ s[j + 1] = Digit(q[j])

Closed(s, q, p, e) ==
  p < e /\ Begun(s, q, p, e - 1) /\ q[e - 1] < Half /\ s[e] = Digit(q[e - 1])

(* A byte and the length of its run; a value; a value and the length of    *)
(* its run; a frequency of two bytes.                                      *)
AsRun(k, s, p, e, v, n) ==
  k = "block" /\ s[p + 1] = v /\ \E q : Closed(s, q, p + 1, e) /\ q[p + 1] = n

AsValue(k, s, p, e, v, n) ==
  /\ k # "block" /\ e = p + 1 /\ n = 1 /\ s[p + 1] = v
  /\ v \in 1 .. (IF k = "lengths" THEN LengthSpan ELSE Half) - 1

AsCount(k, s, p, e, v, n) ==
  /\ k # "block" /\ e = p + 2 /\ n \in 1 .. MaxRun /\ s[p + 2] = n
  /\ \/ v = 0 /\ s[p + 1] = 0
     \/ k = "lengths" /\ v \in 1 .. LengthSpan - 1 /\ s[p + 1] = LengthSpan + v

AsHigh(k, s, p, e, v, n) ==
  /\ k = "norms" /\ e = p + 2 /\ n = 1 /\ v \in Half .. TableSize
  /\ s[p + 1] = Half + (v % Half) /\ s[p + 2] = v \div Half

Spelled(k, s, p, e, v, n) ==
  \/ AsRun(k, s, p, e, v, n)
  \/ AsValue(k, s, p, e, v, n)
  \/ AsCount(k, s, p, e, v, n)
  \/ AsHigh(k, s, p, e, v, n)

Same(C, c, n) == \A i \in 1 .. n : C[c + i] = C[c + 1]

(* From the mark <<p, c>> a run of n values leads to <<z, c + n>>.         *)
Link(k, C, s, M, e, a, p, c, n, z) ==
  /\ n > 0 /\ p < z /\ z <= e /\ c + n <= a /\ <<z, c + n>> \in M
  /\ Same(C, c, n)
  /\ Spelled(k, s, p, z, C[c + 1], n)

Chain(k, C, s, M, e, a) ==
  /\ <<e, a>> \in M
  /\ \A p, c \in Nat : <<p, c>> \in M =>
       (p = e /\ c = a) \/ (\E n, z \in Nat : Link(k, C, s, M, e, a, p, c, n, z))

-----------------------------------------------------------------------------
LEMMA DigitOK ==
  ASSUME NEW r \in Nat
  PROVE  /\ Digit(r) \in Byte /\ Digit(r) % Half = r % Half
         /\ Digit(r) >= Half <=> r >= Half
         /\ r < Half => r % Half = r
<1> DEFINE m == r % Half
<1>1. Half \in Nat \ {0} /\ Base = 2 * Half /\ Byte = 0 .. Base - 1
  BY ByteFacts
<1>2. m \in 0 .. Half - 1
  BY <1>1, ModBounds
<1>3. r < Half => m = r
  BY <1>1
<1>4. m % Half = m /\ (Half + m) % Half = m
  <2>1. 0 * Half + m = m /\ 1 * Half + m = Half + m
    BY <1>1, <1>2
  <2>2. (0 * Half + m) % Half = m /\ (1 * Half + m) % Half = m
    BY <1>1, <1>2, Remainder
  <2> QED
    BY <2>1, <2>2
<1> HIDE DEF m
<1>5. CASE r >= Half
  <2>1. Digit(r) = Half + m
    BY <1>1, <1>2, <1>5 DEF Digit, m
  <2> QED
    BY <1>1, <1>2, <1>4, <1>5, <2>1 DEF m
<1>6. CASE ~(r >= Half)
  <2>1. Digit(r) = m
    BY <1>1, <1>2, <1>6 DEF Digit, m
  <2> QED
    BY <1>1, <1>2, <1>3, <1>4, <1>6, <2>1 DEF m
<1> QED
  BY <1>5, <1>6

(* Bytes that are appended change nothing before them.                     *)
LEMMA BegunStays ==
  ASSUME NEW s, NEW t, NEW q, NEW p \in Nat, NEW e \in Nat, NEW h \in Nat,
         Begun(s, q, p, e), e <= h, \A i \in 1 .. h : t[i] = s[i]
  PROVE  Begun(t, q, p, e)
<1>1. \A j \in p .. e - 1 : j + 1 \in 1 .. h
  OBVIOUS
<1> QED
  BY <1>1 DEF Begun

LEMMA BegunGrows ==
  ASSUME NEW s, NEW q, NEW p \in Nat, NEW e \in Nat, p <= e,
         Begun(s, q, p, e), q[e] >= Half, s[e + 1] = Digit(q[e])
  PROVE  \E r : /\ Begun(s, r, p, e + 1)
                /\ r[p] = q[p] /\ r[e + 1] = q[e] \div Half
<1> DEFINE r == [j \in p .. e + 1 |-> IF j = e + 1 THEN q[e] \div Half ELSE q[j]]
<1>1. q \in [p .. e -> Nat] /\ q[e] \in Nat
  BY DEF Begun
<1>2. q[e] \div Half \in Nat
  <2>1. Half \in Nat \ {0}
    BY ByteFacts
  <2> QED
    BY <1>1, <2>1, ModBounds
<1>3. r \in [p .. e + 1 -> Nat]
  <2>1. ASSUME NEW j \in p .. e + 1, j # e + 1 PROVE q[j] \in Nat
    <3>1. j \in p .. e
      BY <2>1
    <3> QED
      BY <1>1, <3>1
  <2> QED
    BY <1>2, <2>1
<1>4. p \in p .. e + 1 /\ p # e + 1 /\ e + 1 \in p .. e + 1
  OBVIOUS
<1>5. ASSUME NEW j \in p .. e
      PROVE  r[j] >= Half /\ r[j + 1] = r[j] \div Half /\ s[j + 1] = Digit(r[j])
  <2>1. j \in p .. e + 1 /\ j + 1 \in p .. e + 1 /\ j # e + 1
    OBVIOUS
  <2>2. r[j] = q[j]
    BY <2>1
  <2>3. CASE j = e
    BY <2>1, <2>2, <2>3
  <2>4. CASE j # e
    <3>1. j \in p .. e - 1 /\ j + 1 # e + 1
      BY <2>4
    <3>2. r[j + 1] = q[j + 1]
      BY <2>1, <3>1
    <3> QED
      BY <2>2, <3>1, <3>2 DEF Begun
  <2> QED
    BY <2>3, <2>4
<1>6. e + 1 - 1 = e
  OBVIOUS
<1>7. Begun(s, r, p, e + 1)
  <2> HIDE DEF r
  <2> QED
    BY <1>3, <1>5, <1>6 DEF Begun
<1>8. r[p] = q[p] /\ r[e + 1] = q[e] \div Half
  BY <1>4
<1> HIDE DEF r
<1> QED
  BY <1>7, <1>8

LEMMA SpelledStays ==
  ASSUME NEW k, NEW s, NEW t, NEW p \in Nat, NEW z \in Nat, NEW v, NEW n, NEW h \in Nat,
         Spelled(k, s, p, z, v, n), p < z, z <= h, \A i \in 1 .. h : t[i] = s[i]
  PROVE  Spelled(k, t, p, z, v, n)
<1>1. p + 1 \in 1 .. h /\ z \in 1 .. h /\ (z = p + 2 => p + 2 \in 1 .. h)
  OBVIOUS
<1>2. t[p + 1] = s[p + 1] /\ t[z] = s[z] /\ (z = p + 2 => t[p + 2] = s[p + 2])
  BY <1>1
<1>3. CASE AsRun(k, s, p, z, v, n)
  <2>1. PICK q : Closed(s, q, p + 1, z) /\ q[p + 1] = n
    BY <1>3 DEF AsRun
  <2>2. z - 1 \in Nat /\ p + 1 \in Nat /\ z - 1 <= h
    OBVIOUS
  <2>3. Begun(t, q, p + 1, z - 1)
    BY <2>1, <2>2, BegunStays DEF Closed
  <2>4. Closed(t, q, p + 1, z)
    BY <1>2, <2>1, <2>3 DEF Closed
  <2> QED
    BY <1>2, <1>3, <2>1, <2>4 DEF AsRun, Spelled
<1>4. CASE AsValue(k, s, p, z, v, n)
  BY <1>2, <1>4 DEF AsValue, Spelled
<1>5. CASE AsCount(k, s, p, z, v, n)
  BY <1>2, <1>5 DEF AsCount, Spelled
<1>6. CASE AsHigh(k, s, p, z, v, n)
  BY <1>2, <1>6 DEF AsHigh, Spelled
<1> QED
  BY <1>3, <1>4, <1>5, <1>6 DEF Spelled

LEMMA ChainStays ==
  ASSUME NEW k, NEW C, NEW s, NEW t, NEW M, NEW e \in Nat, NEW a \in Nat,
         Chain(k, C, s, M, e, a), \A i \in 1 .. e : t[i] = s[i]
  PROVE  Chain(k, C, t, M, e, a)
<1>1. ASSUME NEW p \in Nat, NEW c \in Nat, NEW n \in Nat, NEW z \in Nat,
             Link(k, C, s, M, e, a, p, c, n, z)
      PROVE  Link(k, C, t, M, e, a, p, c, n, z)
  <2>1. Spelled(k, t, p, z, C[c + 1], n)
    BY <1>1, SpelledStays DEF Link
  <2> QED
    BY <1>1, <2>1 DEF Link
<1> QED
  BY <1>1 DEF Chain

(* One more run behind the last mark.                                      *)
LEMMA ChainGrows ==
  ASSUME NEW k, NEW C, NEW s, NEW M, NEW e \in Nat, NEW a \in Nat,
         NEW n \in Nat, NEW z \in Nat,
         Chain(k, C, s, M, e, a), n > 0, e < z, Same(C, a, n), Spelled(k, s, e, z, C[a + 1], n)
  PROVE  Chain(k, C, s, M \cup {<<z, a + n>>}, z, a + n)
<1> DEFINE N == M \cup {<<z, a + n>>}
<1>1. ASSUME NEW p \in Nat, NEW c \in Nat, <<p, c>> \in N, ~(p = z /\ c = a + n)
      PROVE  \E m, y \in Nat : Link(k, C, s, N, z, a + n, p, c, m, y)
  <2>1. <<p, c>> \in M
    BY <1>1
  <2>2. CASE p = e /\ c = a
    <3>1. Link(k, C, s, N, z, a + n, e, a, n, z)
      BY DEF Link
    <3> QED
      BY <2>2, <3>1
  <2>3. CASE \E m, y \in Nat : Link(k, C, s, M, e, a, p, c, m, y)
    <3>1. PICK m \in Nat, y \in Nat : Link(k, C, s, M, e, a, p, c, m, y)
      BY <2>3
    <3>2. Link(k, C, s, N, z, a + n, p, c, m, y)
      BY <3>1 DEF Link
    <3> QED
      BY <3>2
  <2> QED
    BY <2>1, <2>2, <2>3 DEF Chain
<1>2. <<z, a + n>> \in N
  OBVIOUS
<1> HIDE DEF N
<1>3. Chain(k, C, s, N, z, a + n)
  BY <1>1, <1>2 DEF Chain
<1> QED
  BY <1>3 DEF N

-----------------------------------------------------------------------------
LEMMA Behind ==
  ASSUME NEW s \in Seq(Byte), NEW t \in Seq(Byte)
  PROVE  /\ s \o t \in Seq(Byte) /\ Len(s \o t) = Len(s) + Len(t)
         /\ \A i \in 1 .. Len(s) : (s \o t)[i] = s[i]
         /\ \A i \in 1 .. Len(t) : (s \o t)[Len(s) + i] = t[i]
<1>1. Len(s) \in Nat /\ Len(t) \in Nat
  BY LenProperties
<1> QED
  BY <1>1, ConcatProperties

(* Tokens of one and of two bytes behind s.                                *)
LEMMA BehindOne ==
  ASSUME NEW s \in Seq(Byte), NEW a \in Byte
  PROVE  /\ s \o <<a>> \in Seq(Byte) /\ Len(s \o <<a>>) = Len(s) + 1
         /\ \A i \in 1 .. Len(s) : (s \o <<a>>)[i] = s[i]
         /\ (s \o <<a>>)[Len(s) + 1] = a
<1>1. <<a>> \in Seq(Byte) /\ Len(<<a>>) = 1 /\ <<a>>[1] = a /\ 1 \in 1 .. 1
  OBVIOUS
<1> QED
  BY <1>1, Behind

LEMMA BehindTwo ==
  ASSUME NEW s \in Seq(Byte), NEW a \in Byte, NEW b \in Byte
  PROVE  /\ s \o <<a, b>> \in Seq(Byte) /\ Len(s \o <<a, b>>) = Len(s) + 2
         /\ \A i \in 1 .. Len(s) : (s \o <<a, b>>)[i] = s[i]
         /\ (s \o <<a, b>>)[Len(s) + 1] = a /\ (s \o <<a, b>>)[Len(s) + 2] = b
<1>1. /\ <<a, b>> \in Seq(Byte) /\ Len(<<a, b>>) = 2
      /\ <<a, b>>[1] = a /\ <<a, b>>[2] = b /\ 1 \in 1 .. 2 /\ 2 \in 1 .. 2
  OBVIOUS
<1> QED
  BY <1>1, Behind

(* The token of a run of code lengths spells it.                           *)
LEMMA LengthSpelled ==
  ASSUME layout = "lengths", NEW s \in Seq(Byte), NEW v \in 0 .. LengthSpan - 1,
         NEW n \in 1 .. MaxRun
  PROVE  LET t == s \o LengthToken(v, n) IN
         /\ t \in Seq(Byte) /\ Len(t) > Len(s) /\ \A i \in 1 .. Len(s) : t[i] = s[i]
         /\ Spelled(layout, t, Len(s), Len(t), v, n)
<1>1. /\ n \in Byte /\ n \in Nat /\ n < Base /\ Base \in Nat \ {0} /\ 0 \in Byte
      /\ v \in Nat /\ v \in Byte /\ LengthSpan + v \in Byte /\ Len(s) \in Nat
  BY ByteFacts, LenProperties DEF MaxRun
<1>2. n % Base = n
  BY <1>1
<1>3. CASE v = 0
  <2>1. LengthToken(v, n) = <<0, n>>
    BY <1>2, <1>3 DEF LengthToken
  <2>2. /\ s \o <<0, n>> \in Seq(Byte) /\ Len(s \o <<0, n>>) = Len(s) + 2
        /\ \A i \in 1 .. Len(s) : (s \o <<0, n>>)[i] = s[i]
        /\ (s \o <<0, n>>)[Len(s) + 1] = 0 /\ (s \o <<0, n>>)[Len(s) + 2] = n
    BY <1>1, BehindTwo
  <2>3. AsCount(layout, s \o <<0, n>>, Len(s), Len(s \o <<0, n>>), v, n)
    BY <1>3, <2>2 DEF AsCount
  <2> QED
    BY <1>1, <2>1, <2>2, <2>3 DEF Spelled
<1>4. CASE v # 0 /\ n = 1
  <2>1. LengthToken(v, n) = <<v>> /\ v \in 1 .. LengthSpan - 1
    BY <1>1, <1>4, ByteFacts DEF LengthToken
  <2>2. v \in Byte /\ n = 1
    BY <1>1, <1>4
  <2>3. /\ s \o <<v>> \in Seq(Byte) /\ Len(s \o <<v>>) = Len(s) + 1
        /\ \A i \in 1 .. Len(s) : (s \o <<v>>)[i] = s[i]
    BY <2>2, BehindOne
  <2>4. AsValue(layout, s \o <<v>>, Len(s), Len(s \o <<v>>), v, n)
    <3>1. (s \o <<v>>)[Len(s) + 1] = v
      BY <2>2, BehindOne
    <3> QED
      BY <2>1, <2>2, <2>3, <3>1 DEF AsValue
  <2> QED
    BY <1>1, <2>1, <2>3, <2>4 DEF Spelled
<1>5. CASE v # 0 /\ n # 1
  <2>1. LengthToken(v, n) = <<LengthSpan + v, n>> /\ v \in 1 .. LengthSpan - 1
    BY <1>1, <1>2, <1>5, ByteFacts DEF LengthToken
  <2> DEFINE h == LengthSpan + v
  <2>2. /\ s \o <<h, n>> \in Seq(Byte) /\ Len(s \o <<h, n>>) = Len(s) + 2
        /\ \A i \in 1 .. Len(s) : (s \o <<h, n>>)[i] = s[i]
        /\ (s \o <<h, n>>)[Len(s) + 1] = h /\ (s \o <<h, n>>)[Len(s) + 2] = n
    BY <1>1, BehindTwo
  <2>3. LengthToken(v, n) = <<h, n>>
    BY <2>1
  <2>4. AsCount(layout, s \o <<h, n>>, Len(s), Len(s \o <<h, n>>), v, n)
    BY <2>1, <2>2 DEF AsCount
  <2> HIDE DEF h
  <2> QED
    BY <1>1, <2>2, <2>3, <2>4 DEF Spelled
<1> QED
  BY <1>3, <1>4, <1>5

(* And so does that of a run of frequencies, of which only zeros have one. *)
LEMMA NormSpelled ==
  ASSUME layout = "norms", NEW s \in Seq(Byte), NEW v \in 0 .. TableSize,
         NEW n \in 1 .. MaxRun, v # 0 => n = 1
  PROVE  LET t == s \o NormToken(v, n) IN
         /\ t \in Seq(Byte) /\ Len(t) > Len(s) /\ \A i \in 1 .. Len(s) : t[i] = s[i]
         /\ Spelled(layout, t, Len(s), Len(t), v, n)
<1>1. /\ n \in Byte /\ n \in Nat /\ n < Base /\ Base \in Nat \ {0} /\ 0 \in Byte
      /\ v \in Nat /\ Half \in Nat \ {0} /\ Len(s) \in Nat /\ TableSize \in Nat
  BY ByteFacts, LenProperties DEF MaxRun
<1>2. n % Base = n
  BY <1>1
<1>3. CASE v = 0
  <2>1. NormToken(v, n) = <<0, n>>
    BY <1>2, <1>3 DEF NormToken
  <2>2. /\ s \o <<0, n>> \in Seq(Byte) /\ Len(s \o <<0, n>>) = Len(s) + 2
        /\ \A i \in 1 .. Len(s) : (s \o <<0, n>>)[i] = s[i]
        /\ (s \o <<0, n>>)[Len(s) + 1] = 0 /\ (s \o <<0, n>>)[Len(s) + 2] = n
    BY <1>1, BehindTwo
  <2>3. AsCount(layout, s \o <<0, n>>, Len(s), Len(s \o <<0, n>>), v, n)
    BY <1>3, <2>2 DEF AsCount
  <2> QED
    BY <1>1, <2>1, <2>2, <2>3 DEF Spelled
<1>4. CASE v # 0 /\ v < Half
  <2>1. NormToken(v, n) = <<v>> /\ v \in 1 .. Half - 1 /\ v \in Byte
    BY <1>1, <1>4, ByteFacts DEF NormToken
  <2>2. v \in Byte /\ n = 1
    BY <1>1, <1>4, <2>1
  <2>3. /\ s \o <<v>> \in Seq(Byte) /\ Len(s \o <<v>>) = Len(s) + 1
        /\ \A i \in 1 .. Len(s) : (s \o <<v>>)[i] = s[i]
    BY <2>2, BehindOne
  <2>4. AsValue(layout, s \o <<v>>, Len(s), Len(s \o <<v>>), v, n)
    <3>1. (s \o <<v>>)[Len(s) + 1] = v
      BY <2>2, BehindOne
    <3> QED
      BY <2>1, <2>2, <2>3, <3>1 DEF AsValue
  <2> QED
    BY <1>1, <2>1, <2>3, <2>4 DEF Spelled
<1>5. CASE v # 0 /\ ~(v < Half)
  <2>1. NormToken(v, n) = <<Half + (v % Half), v \div Half>> /\ v \in Half .. TableSize
    BY <1>1, <1>5 DEF NormToken
  <2>2. v < Half * Base
    BY <1>1, ByteFacts
  <2>3. v \div Half \in Nat /\ v \div Half < Base
    BY <1>1, <2>2, ModBounds, DivBound
  <2>4. v % Half \in 0 .. Half - 1
    BY <1>1, ModBounds
  <2> DEFINE h == v % Half
             d == v \div Half
  <2>5. h \in 0 .. Half - 1 /\ d \in Nat /\ d < Base
    BY <2>3, <2>4
  <2>6. NormToken(v, n) = <<Half + h, d>>
    BY <2>1
  <2>7. AsHigh(layout, s \o <<Half + h, d>>, Len(s), Len(s) + 2, v, 1)
        <=> (s \o <<Half + h, d>>)[Len(s) + 1] = Half + h
            /\ (s \o <<Half + h, d>>)[Len(s) + 2] = d
    BY <2>1 DEF AsHigh
  <2> HIDE DEF h, d
  <2>8. Half + h \in Byte /\ d \in Byte
    BY <1>1, <2>5, ByteFacts
  <2>9. /\ s \o <<Half + h, d>> \in Seq(Byte) /\ Len(s \o <<Half + h, d>>) = Len(s) + 2
        /\ \A i \in 1 .. Len(s) : (s \o <<Half + h, d>>)[i] = s[i]
        /\ (s \o <<Half + h, d>>)[Len(s) + 1] = Half + h
        /\ (s \o <<Half + h, d>>)[Len(s) + 2] = d
    BY <2>8, BehindTwo
  <2>10. n = 1
    BY <1>5
  <2> QED
    BY <1>1, <2>6, <2>7, <2>9, <2>10 DEF Spelled
<1> QED
  BY <1>3, <1>4, <1>5

-----------------------------------------------------------------------------
(* The encoder's input, of the sizes of its tables.                        *)
Given ==
  \/ /\ layout = "block" /\ tables[1] \in Blocks /\ tables[2] = <<>>
     /\ total = Len(tables[1])
  \/ layout = "lengths" /\ tables[1] \in LitTables /\ tables[2] \in DistTables
  \/ layout = "norms" /\ tables[1] \in Norms /\ tables[2] = <<>>

HeadSize == IF layout = "block" THEN 0 ELSE HeaderSize

(* What of the tables is written.                                          *)
Trimmed(m, n) ==
  /\ m \in 0 .. Len(tables[1]) /\ n \in 0 .. Len(tables[2])
  /\ IsActive(m, tables[1], Least) /\ IsActive(n, tables[2], 0)
  /\ combined = SubSeq(tables[1], 1, m) \o SubSeq(tables[2], 1, n)

Headed(m, n, s) ==
  /\ layout = "lengths" => s[1] + Base * s[2] = m /\ s[3] = n
  /\ layout = "norms" => s[1] + Base * s[2] = m - 1

(* The bytes s hold the header and, up to e, runs of the first a values.   *)
Written(m, n, s, M, e, a) ==
  /\ Given /\ Trimmed(m, n) /\ Headed(m, n, s)
  /\ s \in Seq(Byte) /\ e \in HeadSize .. Len(s) /\ a \in 0 .. Len(combined)
  /\ <<HeadSize, 0>> \in M
  /\ Chain(layout, combined, s, M, e, a)

(* A run that has been taken but whose length is not yet written.          *)
Counting(p, c, q) ==
  /\ p \in Nat /\ c \in 0 .. taken - 1 /\ p + 1 <= Len(bytes)
  /\ Same(combined, c, taken - c) /\ bytes[p + 1] = combined[c + 1]
  /\ Begun(bytes, q, p + 1, Len(bytes)) /\ q[p + 1] = taken - c /\ q[Len(bytes)] = run

(* What has arrived of s.                                                  *)
Sent(m, n, s, M) ==
  /\ Written(m, n, s, M, written, Len(combined)) /\ Len(s) = written
  /\ \A i \in 1 .. Len(bytes) : i <= written => bytes[i] = s[i]
  /\ whole => written <= Len(bytes) /\ (layout = "block" => Len(bytes) = written)
  /\ ~whole => Len(bytes) < written

Agrees(d, C) == Len(d) <= Len(C) /\ \A i \in 1 .. Len(d) : d[i] = C[i]

(* The length of a run is still to be read, the high byte of a frequency   *)
(* is, or the rest of a run's length.                                      *)
AtCount(s, M) ==
  \E n \in 1 .. MaxRun :
    /\ cursor < written /\ s[cursor + 1] = n /\ <<cursor + 1, Len(decoded) + n>> \in M
    /\ Len(decoded) + n <= Len(combined)
    /\ Same(combined, Len(decoded), n) /\ value = combined[Len(decoded) + 1]

AtHigh(s, M) ==
  \E v \in Half .. TableSize :
    /\ cursor < written /\ s[cursor + 1] = v \div Half /\ value = Half + (v % Half)
    /\ <<cursor + 1, Len(decoded) + 1>> \in M
    /\ Len(decoded) + 1 <= Len(combined) /\ v = combined[Len(decoded) + 1]

AtRun(s, M) ==
  \E p, z, n \in Nat : \E q :
    /\ n > 0 /\ z <= written /\ Closed(s, q, p, z) /\ cursor \in p .. z - 1
    /\ run + weight * q[cursor] = n
    /\ <<z, Len(decoded) + n>> \in M /\ Len(decoded) + n <= Len(combined)
    /\ Same(combined, Len(decoded), n) /\ value = combined[Len(decoded) + 1]

Outcome ==
  /\ whole <=> result = "ok"
  /\ result = "ok" => Output = tables /\ cursor = written

(* Where the decoder is.                                                   *)
Place(m, s, M) ==
  /\ pc = "header" => layout # "block"
  /\ pc \in {"token", "count", "high", "run"} =>
       /\ total = Len(combined) /\ (layout = "lengths" => split = m)
       /\ Agrees(decoded, combined)
  /\ pc = "token" => <<cursor, Len(decoded)>> \in M
  /\ pc = "count" => AtCount(s, M)
  /\ pc = "high" => AtHigh(s, M)
  /\ pc = "run" => AtRun(s, M)
  /\ pc = "done" => Outcome

Reading == {"header", "token", "count", "high", "run", "done"}

RInv ==
  \/ ~Encoded /\ whole /\ pc \in Reading
  \/ pc = "head" /\ Given /\ whole
  \/ pc = "encode" /\ whole /\ \E m, n, M : Written(m, n, bytes, M, Len(bytes), taken)
  \/ pc = "runLength" /\ whole /\ \E m, n, M, p, c, q :
       Written(m, n, bytes, M, p, c) /\ Counting(p, c, q)
  \/ pc \in Reading /\ \E m, n, s, M : Sent(m, n, s, M) /\ Place(m, s, M)

-----------------------------------------------------------------------------
LEMMA InitRInv == Init => RInv
<1> SUFFICES ASSUME Init PROVE RInv
  OBVIOUS
<1>1. written = 0 /\ whole
  BY DEF Init
<1>2. CASE InitEncoder
  <2>1. pc = "head"
    BY <1>2 DEF InitEncoder
  <2>2. Given
    <3>1. CASE layout = "block"
      BY <1>2, <3>1 DEF InitEncoder, Given
    <3>2. CASE layout = "lengths"
      BY <1>2, <3>2 DEF InitEncoder, Given
    <3>3. CASE layout = "norms"
      BY <1>2, <3>3 DEF InitEncoder, Given
    <3> QED
      BY <1>2, <3>1, <3>2, <3>3 DEF InitEncoder
  <2> QED
    BY <1>1, <2>1, <2>2 DEF RInv
<1>3. CASE InitDecoder
  <2>1. pc \in Reading /\ Len(tables[1]) = 0
    BY <1>3 DEF InitDecoder, Reading
  <2> QED
    BY <1>1, <2>1 DEF RInv, Encoded
<1> QED
  BY <1>2, <1>3 DEF Init

LEMMA GivenSizes ==
  ASSUME IInv, Given
  PROVE  /\ layout = "lengths" => Len(tables[1]) = LitLens /\ Len(tables[2]) = Dists
         /\ layout = "norms" => Len(tables[1]) = AlphabetSize
         /\ layout # "lengths" => Len(tables[2]) = 0
         /\ layout \in {"block", "lengths", "norms"}
<1>1. tables[1] \in Tables /\ tables[2] \in Tables
  BY IInvTypes
<1>2. /\ layout = "lengths" => DOMAIN tables[1] = 1 .. LitLens /\ DOMAIN tables[2] = 1 .. Dists
      /\ layout = "norms" => DOMAIN tables[1] = 1 .. AlphabetSize
      /\ layout # "lengths" => tables[2] = <<>>
  BY CallsAssumption DEF Given
<1>3. LitLens \in Nat /\ Dists \in Nat /\ AlphabetSize \in Nat
  BY WidthAssumption, ByteFacts
<1> QED
  BY <1>1, <1>2, <1>3, LenProperties DEF Tables, Given

(* The values that are written, one by one.                                *)
LEMMA TrimmedValues ==
  ASSUME IInv, NEW m, NEW n, Trimmed(m, n)
  PROVE  /\ m \in Nat /\ n \in Nat /\ Len(combined) = m + n
         /\ \A i \in 1 .. m : combined[i] = tables[1][i]
         /\ \A i \in 1 .. n : combined[m + i] = tables[2][i]
<1> DEFINE V == ValuesOf[layout]
           a == SubSeq(tables[1], 1, m)
           b == SubSeq(tables[2], 1, n)
<1>1. /\ tables[1] \in Seq(V) /\ tables[2] \in Seq(V)
      /\ m \in 0 .. Len(tables[1]) /\ n \in 0 .. Len(tables[2])
      /\ combined = a \o b /\ Len(tables[1]) \in Nat /\ Len(tables[2]) \in Nat
  BY IInvTypes DEF Trimmed, Tables
<1> HIDE DEF V
<1>2. m \in Nat /\ n \in Nat
  BY <1>1
<1>3. m \in 0 .. m /\ n \in 0 .. n
  BY <1>2
<1>4. a \in Seq(V) /\ Len(a) = m /\ b \in Seq(V) /\ Len(b) = n
  BY <1>1, <1>3, PrefixOfPrefix
<1>5. (\A i \in 1 .. m : a[i] = tables[1][i]) /\ (\A i \in 1 .. n : b[i] = tables[2][i])
  BY <1>1, PrefixElements
<1> HIDE DEF a, b
<1>6. /\ Len(combined) = m + n
      /\ \A i \in 1 .. m + n : combined[i] = IF i <= m THEN a[i] ELSE b[i - m]
  BY <1>1, <1>4, ConcatProperties
<1>7. ASSUME NEW i \in 1 .. m PROVE combined[i] = tables[1][i]
  <2>1. i \in 1 .. m + n /\ i <= m
    BY <1>2
  <2> QED
    BY <1>5, <1>6, <2>1
<1>8. ASSUME NEW i \in 1 .. n PROVE combined[m + i] = tables[2][i]
  <2>1. m + i \in 1 .. m + n /\ ~(m + i <= m) /\ (m + i) - m = i
    BY <1>2
  <2> QED
    BY <1>5, <1>6, <2>1
<1> QED
  BY <1>2, <1>6, <1>7, <1>8

(* The two bytes of a size.                                                *)
LEMMA TwoBytesValue ==
  ASSUME NEW n \in 0 .. Base * Base - 1
  PROVE  TwoBytes(n)[1] + Base * TwoBytes(n)[2] = n
<1>1. Base \in Nat \ {0} /\ n \in Nat
  BY ByteFacts
<1>2. n = Base * (n \div Base) + (n % Base) /\ n \div Base \in Nat /\ n % Base \in Nat
  BY <1>1, ModBounds
<1>3. TwoBytes(n)[1] = n % Base /\ TwoBytes(n)[2] = n \div Base
  BY DEF TwoBytes
<1> DEFINE d == n \div Base
           r == n % Base
<1>4. n = Base * d + r /\ d \in Nat /\ r \in Nat
  BY <1>2
<1> HIDE DEF d, r
<1>5. Base * d \in Nat
  BY <1>1, <1>4
<1>6. n = r + Base * d
  BY <1>4, <1>5
<1> QED
  BY <1>3, <1>6 DEF d, r

LEMMA HeaderBytes ==
  ASSUME IInv, Given, NEW m \in 0 .. Len(tables[1]), NEW n \in 0 .. Len(tables[2]),
         IsActive(m, tables[1], Least)
  PROVE  /\ Header(m, n) \in Seq(Byte) /\ Len(Header(m, n)) = HeadSize
         /\ Headed(m, n, Header(m, n))
<1>1. m \in Nat /\ n \in Nat /\ Base * Base \in Nat /\ Base \in Nat /\ Base >= 4
  BY IInvTypes, ByteFacts
<1>2. CASE layout = "block"
  BY <1>2, EmptySeq DEF Header, HeadSize, Headed
<1>3. CASE layout = "lengths"
  <2>1. m <= LitLens /\ n <= Dists /\ LitLens <= Base * Base - 1 /\ LitLens \in Nat
        /\ Dists \in 0 .. Base - 1
    BY <1>1, <1>3, GivenSizes, WidthAssumption, ByteFacts, IInvTypes
  <2>2. m \in 0 .. Base * Base - 1 /\ n \in Byte /\ n < Base
    <3>1. m \in 0 .. Base * Base - 1
      BY <1>1, <2>1
    <3>2. n < Base
      BY <1>1, <2>1
    <3> QED
      BY <1>1, <3>1, <3>2, ByteFacts
  <2>3. n % Base = n
    BY <1>1, <2>2
  <2>4. TwoBytes(m) \in Seq(Byte) /\ Len(TwoBytes(m)) = 2
        /\ TwoBytes(m)[1] + Base * TwoBytes(m)[2] = m
    BY <2>2, TwoBytesOK, TwoBytesValue
  <2>5. Header(m, n) = TwoBytes(m) \o <<n>>
    BY <1>3, <2>3 DEF Header
  <2>6. /\ TwoBytes(m) \o <<n>> \in Seq(Byte) /\ Len(TwoBytes(m) \o <<n>>) = Len(TwoBytes(m)) + 1
        /\ \A i \in 1 .. Len(TwoBytes(m)) : (TwoBytes(m) \o <<n>>)[i] = TwoBytes(m)[i]
        /\ (TwoBytes(m) \o <<n>>)[Len(TwoBytes(m)) + 1] = n
    BY <2>2, <2>4, BehindOne
  <2>7. Len(Header(m, n)) = 3 /\ Header(m, n)[1] = TwoBytes(m)[1]
        /\ Header(m, n)[2] = TwoBytes(m)[2] /\ Header(m, n)[3] = n
    BY <2>4, <2>5, <2>6
  <2> QED
    BY <1>3, <2>4, <2>5, <2>6, <2>7 DEF HeadSize, HeaderSize, Headed
<1>4. CASE layout = "norms"
  <2>1. m >= 1
    BY <1>4 DEF IsActive, Least
  <2>2. m <= AlphabetSize /\ AlphabetSize <= Base * Base /\ AlphabetSize \in Nat
    BY <1>1, <1>4, GivenSizes, WidthAssumption, ByteFacts, IInvTypes
  <2>3. m - 1 \in 0 .. Base * Base - 1
    BY <1>1, <2>1, <2>2
  <2> QED
    BY <1>4, <2>3, TwoBytesOK, TwoBytesValue DEF Header, HeadSize, HeaderSize, Headed
<1> QED
  BY <1>2, <1>3, <1>4, GivenSizes

-----------------------------------------------------------------------------
LEMMA GivenStays ==
  ASSUME UNCHANGED <<layout, tables>>, layout = "block" => total' = total
  PROVE  /\ Given => Given' /\ HeadSize' = HeadSize
         /\ Encoded' <=> written' > 0 \/ Len(tables[1]) > 0
BY DEF Given, HeadSize, HeaderSize, Encoded

LEMMA WrittenStays ==
  ASSUME UNCHANGED <<layout, tables, combined>>, layout = "block" => total' = total,
         NEW m, NEW n, NEW s, NEW M, NEW e, NEW a, Written(m, n, s, M, e, a)
  PROVE  Written(m, n, s, M, e, a)'
<1>1. Given' /\ HeadSize' = HeadSize
  BY GivenStays DEF Written
<1>2. Trimmed(m, n)'
  BY DEF Written, Trimmed, IsActive, Least
<1>3. Headed(m, n, s)'
  BY DEF Written, Headed
<1> QED
  BY <1>1, <1>2, <1>3 DEF Written

LEMMA WrittenFacts ==
  ASSUME IInv, NEW m, NEW n, NEW s, NEW M, NEW e, NEW a, Written(m, n, s, M, e, a)
  PROVE  /\ Len(s) \in Nat /\ e \in Nat /\ e <= Len(s) /\ a \in Nat /\ a <= Len(combined)
         /\ HeadSize \in Nat /\ HeadSize <= e /\ m \in Nat /\ n \in Nat
         /\ (layout = "lengths" => HeadSize = 3) /\ (layout = "norms" => HeadSize = 2)
         /\ Len(combined) = m + n
BY LenProperties, IInvTypes, TrimmedValues, SMTT(30) DEF Written, HeadSize, HeaderSize

(* Bytes behind the header do not change it.                               *)
LEMMA WrittenGrows ==
  ASSUME IInv, NEW m, NEW n, NEW s, NEW t, NEW M, NEW N, NEW e, NEW z, NEW a, NEW b,
         Written(m, n, s, M, e, a),
         t \in Seq(Byte), \A i \in 1 .. e : t[i] = s[i],
         z \in e .. Len(t), b \in 0 .. Len(combined), M \subseteq N,
         Chain(layout, combined, t, N, z, b)
  PROVE  Written(m, n, t, N, z, b)
<1>1. HeadSize \in Nat /\ HeadSize <= e /\ e \in Nat /\ Len(t) \in Nat
      /\ (layout = "lengths" => HeadSize = 3) /\ (layout = "norms" => HeadSize = 2)
  BY WrittenFacts, LenProperties
<1>2. Headed(m, n, t)
  <2>1. CASE layout = "lengths"
    <3>1. 1 \in 1 .. e /\ 2 \in 1 .. e /\ 3 \in 1 .. e
      BY <1>1, <2>1
    <3> QED
      BY <2>1, <3>1 DEF Written, Headed
  <2>2. CASE layout = "norms"
    <3>1. 1 \in 1 .. e /\ 2 \in 1 .. e
      BY <1>1, <2>2
    <3> QED
      BY <2>2, <3>1 DEF Written, Headed
  <2>3. CASE layout # "lengths" /\ layout # "norms"
    BY <2>3 DEF Headed
  <2> QED
    BY <2>1, <2>2, <2>3
<1>3. z \in HeadSize .. Len(t)
  BY <1>1
<1> QED
  BY <1>2, <1>3 DEF Written

LEMMA WriteHeaderRound ==
  ASSUME IInv, Given, whole, WriteHeader, IInv'
  PROVE  RInv'
<1>1. PICK m \in 0 .. Len(tables[1]), n \in 0 .. Len(tables[2]) :
        /\ IsActive(m, tables[1], Least) /\ IsActive(n, tables[2], 0)
        /\ combined' = SubSeq(tables[1], 1, m) \o SubSeq(tables[2], 1, n)
        /\ bytes' = Header(m, n)
  BY DEF WriteHeader
<1>2. /\ pc' = "encode" /\ pc = "head" /\ taken' = 0 /\ whole'
      /\ UNCHANGED <<layout, tables, total>>
  BY DEF WriteHeader, headVars, IInv
<1>3. Given' /\ HeadSize' = HeadSize
  BY <1>2, GivenStays
<1>4. Trimmed(m, n)'
  BY <1>1, <1>2 DEF Trimmed, IsActive, Least
<1>5. PICK s : s = Header(m, n)
  OBVIOUS
<1>6. PICK M : M = {<<HeadSize, 0>>}
  OBVIOUS
<1>7. s \in Seq(Byte) /\ Len(s) = HeadSize /\ Headed(m, n, s)
  BY <1>1, <1>5, HeaderBytes
<1>8. HeadSize \in Nat
  BY DEF HeadSize, HeaderSize
<1>9. taken' \in 0 .. Len(combined')
  BY DEF IInv, TypeOK
<1>10. Written(m, n, s, M, HeadSize, 0)'
  <2>1. Chain(layout', combined', s, M, HeadSize, 0) /\ <<HeadSize, 0>> \in M
    BY <1>6, <1>8 DEF Chain
  <2>2. Headed(m, n, s)'
    BY <1>2, <1>7 DEF Headed
  <2>3. HeadSize \in HeadSize .. Len(s)
    BY <1>7, <1>8
  <2> QED
    BY <1>2, <1>3, <1>4, <1>7, <1>9, <2>1, <2>2, <2>3 DEF Written
<1>11. s = bytes' /\ (HeadSize = Len(bytes))' /\ 0 = taken'
  BY <1>1, <1>2, <1>3, <1>5, <1>7
<1>12. Written(m, n, bytes, M, Len(bytes), taken)'
  BY <1>10, <1>11
<1> QED
  BY <1>2, <1>12 DEF RInv

LEMMA WriteRunRound ==
  ASSUME IInv, WriteRun, whole, IInv',
         NEW m, NEW l, NEW M, Written(m, l, bytes, M, Len(bytes), taken)
  PROVE  RInv'
<1>1. PICK n \in 1 .. Len(combined) - taken :
        /\ IsRun(n)
        /\ taken' = taken + n
        /\ \/ /\ layout = "block"
              /\ bytes' = Append(bytes, combined[taken + 1])
              /\ pc' = "runLength" /\ run' = n
           \/ /\ layout = "lengths"
              /\ bytes' = bytes \o LengthToken(combined[taken + 1], n)
              /\ UNCHANGED <<pc, run>>
           \/ /\ layout = "norms"
              /\ bytes' = bytes \o NormToken(combined[taken + 1], n)
              /\ UNCHANGED <<pc, run>>
  BY DEF WriteRun
<1>2. pc = "encode" /\ UNCHANGED <<layout, tables, combined, whole, total>>
  BY DEF WriteRun, headVars
<1>3. PICK s : s = bytes
  OBVIOUS
<1>4. PICK e \in Nat, a \in Nat, v \in {combined[taken + 1]} :
        e = Len(s) /\ a = taken /\ v = combined[taken + 1]
  <2>1. Len(s) \in Nat /\ Len(combined) \in Nat
    BY <1>3, IInvTypes
  <2>2. taken \in Nat
    BY <2>1 DEF IInv, TypeOK
  <2> QED
    BY <2>1, <2>2
<1>5. PICK t, b : t = bytes' /\ b = taken'
  OBVIOUS
<1>6. /\ s \in Seq(Byte) /\ n \in Nat /\ n > 0 /\ b = a + n /\ b \in 0 .. Len(combined)
      /\ Written(m, l, s, M, e, a)
      /\ v \in ValuesOf[layout] /\ layout \in {"block", "lengths", "norms"}
  <2>1. Len(combined) \in Nat /\ taken \in 0 .. Len(combined) /\ combined \in Seq(ValuesOf[layout])
    BY IInvTypes DEF IInv, TypeOK
  <2>2. /\ n \in Nat /\ n > 0 /\ b = a + n
        /\ b \in 0 .. Len(combined) /\ taken + 1 \in 1 .. Len(combined)
    BY <1>1, <1>4, <1>5, <2>1
  <2> QED
    BY <1>3, <1>4, <2>1, <2>2, ElementOfSeq DEF IInv, TypeOK
<1>7. Same(combined, a, n) /\ v = combined[a + 1] /\ n <= Longest(v)
  BY <1>1, <1>4, <1>6 DEF IsRun, Same
<1>8. CASE layout = "block"
  <2>1. v \in Byte
    BY <1>6, <1>8, ValuesFacts
  <2>2. t = Append(s, v)
    BY <1>1, <1>3, <1>4, <1>5, <1>8
  <2>3. t \in Seq(Byte) /\ Len(t) = e + 1 /\ t[e + 1] = v /\ \A i \in 1 .. e : t[i] = s[i]
    BY <1>4, <1>6, <2>1, <2>2, AppendProperties
  <2>4. Chain(layout, combined, t, M, e, a)
    BY <1>6, <2>3, ChainStays DEF Written
  <2>5. e \in e .. Len(t) /\ a \in 0 .. Len(combined)
    BY <1>4, <2>3 DEF IInv, TypeOK
  <2>6. Written(m, l, t, M, e, a)
    BY <1>6, <2>3, <2>4, <2>5, WrittenGrows
  <2>7. Written(m, l, t, M, e, a)'
    BY <1>2, <2>6, WrittenStays
  <2>8. PICK q : q = [j \in e + 1 .. e + 1 |-> n]
    OBVIOUS
  <2>9. Begun(t, q, e + 1, e + 1) /\ q[e + 1] = n
    BY <1>6, <2>8 DEF Begun
  <2>10. taken' - a = n /\ a \in 0 .. taken' - 1 /\ run' = n /\ bytes' = t /\ Len(t) = e + 1
    BY <1>1, <1>5, <1>6, <1>8, <2>3
  <2>11. Counting(e, a, q)'
    BY <1>2, <1>7, <2>3, <2>9, <2>10 DEF Counting
  <2>12. pc' = "runLength" /\ whole'
    BY <1>1, <1>2, <1>8
  <2> QED
    BY <1>5, <2>7, <2>11, <2>12 DEF RInv
<1>9. CASE layout # "block"
  <2>1. n \in 1 .. MaxRun /\ (layout = "norms" /\ v # 0 => n = 1)
    <3>1. MaxRun \in Nat
      BY ByteFacts DEF MaxRun
    <3>2. layout = "lengths" => Longest(v) = MaxRun
      BY DEF Longest
    <3>3. layout = "norms" => Longest(v) = IF v = 0 THEN MaxRun ELSE 1
      BY DEF Longest
    <3>4. 1 <= MaxRun
      BY ByteFacts DEF MaxRun
    <3> QED
      BY <1>6, <1>7, <1>9, <3>1, <3>2, <3>3, <3>4
  <2>2. /\ t \in Seq(Byte) /\ Len(t) > e /\ \A i \in 1 .. e : t[i] = s[i]
        /\ Spelled(layout, t, e, Len(t), v, n)
    <3>1. CASE layout = "lengths"
      <4>1. v \in 0 .. LengthSpan - 1 /\ t = s \o LengthToken(v, n)
        BY <1>1, <1>3, <1>4, <1>5, <1>6, <3>1, ValuesFacts
      <4> QED
        BY <1>4, <1>6, <2>1, <3>1, <4>1, LengthSpelled
    <3>2. CASE layout = "norms"
      <4>1. v \in 0 .. TableSize /\ t = s \o NormToken(v, n)
        BY <1>1, <1>3, <1>4, <1>5, <1>6, <3>2, ValuesFacts
      <4> QED
        BY <1>4, <1>6, <2>1, <3>2, <4>1, NormSpelled
    <3> QED
      BY <1>6, <1>9, <3>1, <3>2
  <2>3. PICK z \in Nat : z = Len(t)
    BY <2>2, LenProperties
  <2>4. Chain(layout, combined, t, M, e, a)
    BY <1>6, <2>2, ChainStays DEF Written
  <2>5. PICK N : N = M \cup {<<z, a + n>>}
    OBVIOUS
  <2>6. Chain(layout, combined, t, N, z, b)
    BY <1>6, <1>7, <2>2, <2>3, <2>4, <2>5, ChainGrows
  <2>7. z \in e .. Len(t) /\ M \subseteq N
    BY <2>2, <2>3, <2>5
  <2>8. Written(m, l, t, N, z, b)
    BY <1>6, <2>2, <2>6, <2>7, WrittenGrows
  <2>9. Written(m, l, t, N, z, b)'
    BY <1>2, <2>8, WrittenStays
  <2>10. pc' = "encode" /\ whole' /\ bytes' = t /\ Len(bytes') = z /\ taken' = b
    BY <1>1, <1>2, <1>5, <1>9, <2>3
  <2>11. Written(m, l, bytes, N, Len(bytes), taken)'
    BY <2>9, <2>10
  <2> QED
    BY <2>10, <2>11 DEF RInv
<1> QED
  BY <1>8, <1>9

LEMMA WriteRunLengthRound ==
  ASSUME IInv, WriteRunLength, whole, IInv',
         NEW m, NEW l, NEW M, NEW p, NEW c, NEW q,
         Written(m, l, bytes, M, p, c), Counting(p, c, q)
  PROVE  RInv'
<1>1. /\ pc = "runLength" /\ layout = "block"
      /\ bytes' = Append(bytes, Digit(run)) /\ run' = run \div Half
      /\ pc' = (IF run >= Half THEN pc ELSE "encode")
      /\ UNCHANGED <<layout, tables, combined, taken, whole, total>>
  BY DEF WriteRunLength, headVars, IInv, Digit
<1>2. PICK s, r, t, a, e : s = bytes /\ r = run /\ t = bytes' /\ a = taken /\ e = Len(bytes)
  OBVIOUS
<1>3. /\ s \in Seq(Byte) /\ e \in Nat /\ e = Len(s) /\ r \in Nat /\ a \in Nat
      /\ a \in 0 .. Len(combined) /\ Len(combined) \in Nat
  <2>1. bytes \in Seq(Byte) /\ run \in Nat /\ taken \in 0 .. Len(combined)
    BY DEF IInv, TypeOK
  <2>2. Len(bytes) \in Nat /\ Len(combined) \in Nat
    BY IInvTypes
  <2>3. taken \in Nat
    BY <2>1, <2>2
  <2> QED
    BY <1>2, <2>1, <2>2, <2>3
<1>4. /\ p \in Nat /\ c \in Nat /\ c < a /\ p + 1 <= e
      /\ Same(combined, c, a - c) /\ s[p + 1] = combined[c + 1]
      /\ Begun(s, q, p + 1, e) /\ q[p + 1] = a - c /\ q[e] = r
  BY <1>2, <1>3 DEF Counting
<1>5. /\ t \in Seq(Byte) /\ Len(t) = e + 1 /\ t[e + 1] = Digit(r)
      /\ \A i \in 1 .. e : t[i] = s[i]
  <2>1. Digit(r) \in Byte /\ t = Append(s, Digit(r))
    BY <1>1, <1>2, <1>3, DigitOK
  <2> QED
    BY <1>3, <2>1, AppendProperties
<1>6. p + 1 \in Nat /\ p \in 0 .. e
  BY <1>3, <1>4
<1>7. Begun(t, q, p + 1, e)
  <2>1. e \in Nat /\ e <= e /\ p + 1 \in Nat
    BY <1>3, <1>6
  <2>2. Begun(s, q, p + 1, e) /\ \A i \in 1 .. e : t[i] = s[i]
    BY <1>4, <1>5
  <2> QED
    BY <2>1, <2>2, BegunStays
<1>8. Written(m, l, s, M, p, c)
  BY <1>2
<1>9. \A i \in 1 .. p : t[i] = s[i]
  BY <1>3, <1>5, <1>6
<1>10. Chain(layout, combined, t, M, p, c)
  BY <1>4, <1>8, <1>9, ChainStays DEF Written
<1>11. t[p + 1] = combined[c + 1]
  BY <1>3, <1>4, <1>5, <1>6
<1>12. CASE r >= Half
  <2>1. PICK u : Begun(t, u, p + 1, e + 1) /\ u[p + 1] = q[p + 1] /\ u[e + 1] = q[e] \div Half
    <3>1. e \in Nat /\ p + 1 \in Nat /\ p + 1 <= e
      BY <1>3, <1>4, <1>6
    <3>2. q[e] >= Half /\ t[e + 1] = Digit(q[e])
      BY <1>4, <1>5, <1>12
    <3>3. PICK f \in Nat : f = p + 1
      BY <3>1
    <3>4. \E u : Begun(t, u, f, e + 1) /\ u[f] = q[f] /\ u[e + 1] = q[e] \div Half
      <4>1. Begun(t, q, f, e) /\ f <= e
        BY <1>7, <3>1, <3>3
      <4>2. \E u : /\ Begun(t, u, f, e + 1)
                   /\ u[f] = q[f] /\ u[e + 1] = q[e] \div Half
        BY <3>1, <3>2, <4>1, BegunGrows
      <4> QED
        BY <4>2
    <3> QED
      BY <3>3, <3>4
  <2>2. p \in p .. Len(t) /\ c \in 0 .. Len(combined)
    BY <1>3, <1>4, <1>5
  <2>3. Written(m, l, t, M, p, c)
    BY <1>5, <1>8, <1>9, <1>10, <2>2, WrittenGrows
  <2>4. Written(m, l, t, M, p, c)'
    BY <1>1, <2>3, WrittenStays
  <2>5. /\ taken' = a /\ bytes' = t /\ run' = r \div Half /\ combined' = combined
        /\ pc' = "runLength" /\ whole'
    BY <1>1, <1>2, <1>12
  <2>6. c \in 0 .. a - 1 /\ p + 1 <= Len(t)
    BY <1>3, <1>4, <1>5
  <2>7. Counting(p, c, u)'
    BY <1>4, <1>5, <1>11, <2>1, <2>5, <2>6 DEF Counting
  <2> QED
    BY <2>4, <2>5, <2>7 DEF RInv
<1>13. CASE ~(r >= Half)
  <2>1. PICK n \in Nat : n = a - c /\ n > 0
    BY <1>3, <1>4
  <2>2. PICK z \in Nat : z = e + 1
    BY <1>3
  <2>3. Half \in Nat
    BY ByteFacts
  <2>4. Closed(t, q, p + 1, z)
    <3>1. p + 1 < z /\ z - 1 = e /\ r < Half
      BY <1>3, <1>4, <1>13, <2>2, <2>3
    <3> QED
      BY <1>4, <1>5, <1>7, <2>2, <3>1 DEF Closed
  <2>5. Spelled(layout, t, p, z, combined[c + 1], n)
    BY <1>1, <1>4, <1>11, <2>1, <2>4 DEF Spelled, AsRun
  <2>6. c + n = a /\ p < z
    BY <1>3, <1>4, <2>1, <2>2
  <2>7. PICK N : N = M \cup {<<z, c + n>>}
    OBVIOUS
  <2>8. Same(combined, c, n)
    BY <1>4, <2>1
  <2>9. Chain(layout, combined, t, N, z, a)
    <3>1. Chain(layout, combined, t, N, z, c + n)
      <4>1. p \in Nat /\ c \in Nat
        BY <1>4
      <4> QED
        BY <1>10, <2>1, <2>5, <2>6, <2>7, <2>8, <4>1, ChainGrows
    <3> QED
      BY <2>6, <3>1
  <2>10. z \in p .. Len(t) /\ M \subseteq N
    BY <1>3, <1>4, <1>5, <2>2, <2>7
  <2>11. Written(m, l, t, N, z, a)
    BY <1>3, <1>5, <1>8, <1>9, <2>9, <2>10, WrittenGrows
  <2>12. Written(m, l, t, N, z, a)'
    BY <1>1, <2>11, WrittenStays
  <2>13. pc' = "encode" /\ whole' /\ bytes' = t /\ Len(bytes') = z /\ taken' = a
    BY <1>1, <1>2, <1>5, <1>13, <2>2
  <2>14. Written(m, l, bytes, N, Len(bytes), taken)'
    BY <2>12, <2>13
  <2> QED
    BY <2>13, <2>14 DEF RInv
<1> QED
  BY <1>12, <1>13

(* All of a block is written.                                              *)
LEMMA BlockIsWhole ==
  ASSUME IInv, Given, NEW m, NEW l, Trimmed(m, l), layout = "block"
  PROVE  m = Len(tables[1]) /\ l = 0 /\ Len(combined) = total
<1>1. Len(tables[1]) \in Nat /\ Len(tables[2]) = 0 /\ total = Len(tables[1])
  BY IInvTypes, GivenSizes DEF Given
<1>2. m >= Len(tables[1]) /\ m \in 0 .. Len(tables[1]) /\ l \in 0 .. Len(tables[2])
  BY DEF Trimmed, IsActive, Least
<1>3. Len(combined) = m + l
  BY TrimmedValues
<1> QED
  BY <1>1, <1>2, <1>3

LEMMA DeliverRound ==
  ASSUME IInv, Deliver, whole, IInv',
         NEW m, NEW l, NEW M, Written(m, l, bytes, M, Len(bytes), taken)
  PROVE  RInv'
<1>1. /\ taken = Len(combined) /\ written' = Len(bytes)
      /\ pc' = (IF layout = "block" THEN "token" ELSE "header")
      /\ UNCHANGED <<layout, tables, combined, cursor, total, split, decoded>>
  BY DEF Deliver, headVars
<1>2. cursor = 0 /\ decoded = <<>>
  BY DEF Deliver, IInv
<1>3. PICK s, e, a : s = bytes /\ e = Len(bytes) /\ a = taken
  OBVIOUS
<1>4. s \in Seq(Byte) /\ e \in Nat /\ e = Len(s) /\ written' = e /\ Len(combined') = a
  BY <1>1, <1>3, IInvTypes DEF IInv, TypeOK
<1>5. Written(m, l, s, M, e, a)
  BY <1>3
<1>6. Written(m, l, s, M, e, a)'
  BY <1>1, <1>5, WrittenStays
<1>7. Written(m, l, s, M, written, Len(combined))'
  BY <1>4, <1>6
<1>8. Sent(m, l, s, M)'
  <2>1. CASE /\ \E t \in IF layout = "block" THEN {<<>>} ELSE Tails : bytes' = bytes \o t
             /\ UNCHANGED whole
    <3>1. PICK t \in IF layout = "block" THEN {<<>>} ELSE Tails : bytes' = s \o t
      BY <1>3, <2>1
    <3>2. t \in Seq(Byte) /\ Len(t) \in Nat /\ (layout = "block" => Len(t) = 0)
      BY <3>1, CallsAssumption, EmptySeq, LenProperties
    <3>3. Len(bytes') = e + Len(t) /\ \A i \in 1 .. e : bytes'[i] = s[i]
      BY <1>4, <3>1, <3>2, Behind
    <3>4. e <= Len(bytes') /\ (layout = "block" => Len(bytes') = e) /\ whole'
      BY <1>4, <2>1, <3>2, <3>3
    <3>5. \A i \in 1 .. Len(bytes') : i <= e => bytes'[i] = s[i]
      BY <1>4, <3>3
    <3> QED
      BY <1>1, <1>4, <1>7, <3>4, <3>5 DEF Sent
  <2>2. CASE /\ \E n \in 0 .. Len(bytes) - 1 : bytes' = SubSeq(bytes, 1, n)
             /\ whole' = FALSE
    <3>1. PICK n \in 0 .. e - 1 : bytes' = SubSeq(s, 1, n)
      BY <1>3, <2>2
    <3>2. n \in 0 .. Len(s) /\ n \in 0 .. n /\ n \in Nat /\ n < e
      BY <1>4, <3>1
    <3>3. Len(bytes') = n
      BY <1>4, <3>1, <3>2, PrefixOfPrefix
    <3>4. \A i \in 1 .. n : bytes'[i] = s[i]
      BY <1>4, <3>1, <3>2, PrefixElements
    <3> QED
      BY <1>4, <1>7, <2>2, <3>2, <3>3, <3>4 DEF Sent
  <2> QED
    BY <2>1, <2>2 DEF Deliver
<1>9. Place(m, s, M)'
  <2>1. Len(decoded') = 0 /\ cursor' = 0 /\ Len(combined') \in Nat
    BY <1>1, <1>2, IInvTypes
  <2>2. Agrees(decoded, combined)'
    BY <2>1 DEF Agrees
  <2>3. CASE layout = "block"
    <3>1. total' = Len(combined')
      BY <1>1, <2>3, BlockIsWhole DEF Written
    <3>2. <<0, 0>> \in M
      BY <2>3 DEF Written, HeadSize
    <3> QED
      BY <1>1, <2>1, <2>2, <2>3, <3>1, <3>2 DEF Place
  <2>4. CASE layout # "block"
    BY <1>1, <2>1, <2>4 DEF Place
  <2> QED
    BY <2>3, <2>4
<1>10. pc' \in Reading
  BY <1>1 DEF Reading
<1> QED
  BY <1>8, <1>9, <1>10 DEF RInv

-----------------------------------------------------------------------------
(* Sums of the first elements, as the recursive function in SumOf.         *)
Adds(f, s, n) == f = [i \in 0 .. n |-> IF i = 0 THEN 0 ELSE f[i - 1] + s[i]]

LEMMA AddsIs ==
  ASSUME NEW f, NEW s, NEW n \in Nat, Adds(f, s, n)
  PROVE  f[0] = 0 /\ \A i \in 1 .. n : f[i] = f[i - 1] + s[i]
<1>1. 0 \in 0 .. n /\ \A i \in 1 .. n : i \in 0 .. n /\ i # 0
  OBVIOUS
<1>2. \A i \in 0 .. n : f[i] = IF i = 0 THEN 0 ELSE f[i - 1] + s[i]
  BY DEF Adds
<1> QED
  BY <1>1, <1>2

LEMMA AddsExist == \A s : \A n \in Nat : \E f : Adds(f, s, n)
<1> SUFFICES ASSUME NEW s, NEW k \in Nat, ~\E f : Adds(f, s, k) PROVE FALSE
  OBVIOUS
<1> DEFINE Bad == {n \in Nat : ~\E f : Adds(f, s, n)}
<1>1. PICK n \in Bad : \A y \in Bad : n <= y
  <2>1. Bad \in SUBSET Nat /\ Bad # {}
    OBVIOUS
  <2> HIDE DEF Bad
  <2> QED
    BY <2>1, SmallestNat
<1>2. n \in Nat /\ ~\E f : Adds(f, s, n)
  OBVIOUS
<1>3. CASE n = 0
  <2> DEFINE f == [i \in 0 .. 0 |-> 0]
  <2>1. f = [i \in 0 .. 0 |-> IF i = 0 THEN 0 ELSE f[i - 1] + s[i]]
    OBVIOUS
  <2>2. Adds(f, s, n)
    BY <1>3, <2>1 DEF Adds
  <2> QED
    BY <1>2, <2>2
<1>4. CASE n # 0
  <2>1. n - 1 \in Nat /\ ~(n <= n - 1)
    BY <1>2, <1>4
  <2>2. PICK g : Adds(g, s, n - 1)
    BY <1>1, <2>1
  <2> DEFINE f == [i \in 0 .. n |-> IF i = n THEN g[n - 1] + s[n] ELSE g[i]]
  <2>3. \A i \in 0 .. n - 1 : g[i] = IF i = 0 THEN 0 ELSE g[i - 1] + s[i]
    BY <2>2 DEF Adds
  <2>4. ASSUME NEW i \in 0 .. n
        PROVE  (IF i = n THEN g[n - 1] + s[n] ELSE g[i])
                 = IF i = 0 THEN 0 ELSE f[i - 1] + s[i]
    <3>1. CASE i = n
      <4>1. n - 1 \in 0 .. n /\ n - 1 # n /\ i # 0
        BY <1>2, <1>4, <3>1
      <4>2. f[n - 1] = g[n - 1]
        BY <4>1
      <4> QED
        BY <3>1, <4>1, <4>2
    <3>2. CASE i # n /\ i # 0
      <4>1. i - 1 \in 0 .. n /\ i - 1 # n /\ i \in 0 .. n - 1
        BY <1>2, <3>2
      <4>2. f[i - 1] = g[i - 1]
        BY <4>1
      <4> QED
        BY <2>3, <3>2, <4>1, <4>2
    <3>3. CASE i # n /\ i = 0
      <4>1. i \in 0 .. n - 1
        BY <1>2, <3>3
      <4> QED
        BY <2>3, <3>3, <4>1
    <3> QED
      BY <3>1, <3>2, <3>3
  <2>5. f = [i \in 0 .. n |-> IF i = 0 THEN 0 ELSE f[i - 1] + s[i]]
    BY <2>4, Zenon
  <2>6. Adds(f, s, n)
    <3> HIDE DEF f
    <3> QED
      BY <2>5 DEF Adds
  <2> QED
    BY <1>2, <2>6
<1> QED
  BY <1>3, <1>4

LEMMA SumOfIs ==
  ASSUME NEW s
  PROVE  Len(s) \in Nat => \E f : Adds(f, s, Len(s)) /\ SumOf(s) = f[Len(s)]
<1> SUFFICES ASSUME Len(s) \in Nat
             PROVE  \E f : Adds(f, s, Len(s)) /\ SumOf(s) = f[Len(s)]
  OBVIOUS
<1> DEFINE g == CHOOSE f : f = [i \in 0 .. Len(s) |-> IF i = 0 THEN 0 ELSE f[i - 1] + s[i]]
<1>1. SumOf(s) = g[Len(s)]
  BY DEF SumOf
<1>2. \E f : f = [i \in 0 .. Len(s) |-> IF i = 0 THEN 0 ELSE f[i - 1] + s[i]]
  BY AddsExist DEF Adds
<1>3. g = [i \in 0 .. Len(s) |-> IF i = 0 THEN 0 ELSE g[i - 1] + s[i]]
  BY <1>2
<1>4. Adds(g, s, Len(s))
  <2> HIDE DEF g
  <2> QED
    BY <1>3 DEF Adds
<1> QED
  BY <1>1, <1>4

(* Zeros behind the first k elements add nothing to a sum.                 *)
ZerosBehind(s, t, k, n) ==
  /\ k <= n /\ \A i \in 1 .. n : s[i] \in Nat
  /\ \A i \in 1 .. k : s[i] = t[i]
  /\ \A i \in k + 1 .. n : s[i] = 0

LEMMA SameAdds ==
  ASSUME NEW f, NEW g, NEW s, NEW t, NEW n \in Nat, NEW k \in Nat,
         Adds(f, s, n), Adds(g, t, k), ZerosBehind(s, t, k, n)
  PROVE  f[n] = g[k]
<1>1. f[0] = 0 /\ \A i \in 1 .. n : f[i] = f[i - 1] + s[i]
  BY AddsIs
<1>2. g[0] = 0 /\ \A i \in 1 .. k : g[i] = g[i - 1] + t[i]
  BY AddsIs
<1>3. /\ k <= n /\ \A i \in 1 .. n : s[i] \in Nat
      /\ \A i \in 1 .. k : s[i] = t[i]
      /\ \A i \in k + 1 .. n : s[i] = 0
  BY DEF ZerosBehind
<1> DEFINE Good(i) == f[i] \in Nat /\ (i <= k => f[i] = g[i]) /\ (k <= i => f[i] = g[k])
           Bad == {i \in 0 .. n : ~Good(i)}
<1>4. SUFFICES \A i \in 0 .. n : Good(i)
  BY <1>3
<1>5. SUFFICES ASSUME NEW j \in Bad PROVE FALSE
  OBVIOUS
<1>6. PICK i \in Bad : \A y \in Bad : i <= y
  <2>1. Bad \in SUBSET Nat /\ Bad # {}
    BY <1>5
  <2> HIDE DEF Bad
  <2> QED
    BY <2>1, SmallestNat
<1>7. i \in Nat /\ i \in 0 .. n
  OBVIOUS
<1>8. CASE i = 0
  BY <1>1, <1>2, <1>8
<1>9. CASE i # 0
  <2>1. i - 1 \in 0 .. n /\ ~(i <= i - 1) /\ i \in 1 .. n
    BY <1>7, <1>9
  <2>2. Good(i - 1)
    BY <1>6, <2>1
  <2>3. f[i] = f[i - 1] + s[i] /\ s[i] \in Nat
    BY <1>3, <1>1, <2>1
  <2>4. CASE i <= k
    <3>1. i \in 1 .. k /\ i - 1 <= k
      BY <1>7, <2>1, <2>4
    <3>2. g[i] = g[i - 1] + t[i] /\ s[i] = t[i]
      BY <1>3, <1>2, <3>1
    <3>3. f[i - 1] \in Nat /\ f[i - 1] = g[i - 1]
      BY <2>2, <3>1
    <3>4. f[i] = g[i] /\ f[i] \in Nat
      BY <2>3, <3>2, <3>3
    <3>5. k <= i => i = k
      BY <1>7, <2>4
    <3> QED
      BY <3>4, <3>5
  <2>5. CASE ~(i <= k)
    <3>1. k <= i - 1 /\ i \in k + 1 .. n
      BY <1>7, <2>1, <2>5
    <3>2. s[i] = 0
      BY <1>3, <3>1
    <3>3. f[i - 1] \in Nat /\ f[i - 1] = g[k]
      BY <2>2, <3>1
    <3>4. f[i] = g[k] /\ f[i] \in Nat
      BY <2>3, <3>2, <3>3
    <3> QED
      BY <2>5, <3>4
  <2> QED
    BY <2>4, <2>5
<1> QED
  BY <1>8, <1>9

LEMMA SameSum ==
  ASSUME NEW s \in Seq(Nat), NEW t \in Seq(Nat), NEW k \in Nat, k = Len(t), k <= Len(s),
         \A i \in 1 .. k : s[i] = t[i], \A i \in k + 1 .. Len(s) : s[i] = 0
  PROVE  SumOf(t) = SumOf(s)
<1>1. PICK n \in Nat : n = Len(s)
  BY LenProperties
<1>2. PICK f : Adds(f, s, n) /\ SumOf(s) = f[n]
  BY <1>1, SumOfIs
<1>3. PICK g : Adds(g, t, k) /\ SumOf(t) = g[k]
  BY SumOfIs
<1>4. \A i \in 1 .. n : s[i] \in Nat
  BY <1>1, ElementOfSeq
<1>5. f[n] = g[k]
  <2>1. ZerosBehind(s, t, k, n)
    BY <1>1, <1>4 DEF ZerosBehind
  <2>2. Adds(f, s, n) /\ Adds(g, t, k)
    BY <1>2, <1>3
  <2> QED
    BY <2>1, <2>2, SameAdds
<1> QED
  BY <1>2, <1>3, <1>5

-----------------------------------------------------------------------------
LEMMA PaddedIs ==
  ASSUME NEW S, NEW t \in Seq(S), NEW x, NEW n \in Nat, n = Len(t),
         \A i \in 1 .. n : t[i] = IF i <= Len(x) THEN x[i] ELSE 0
  PROVE  Padded(x, n) = t
<1>1. t \in [1 .. n -> S]
  BY LenProperties
<1>2. t = [i \in 1 .. n |-> t[i]]
  BY <1>1
<1> QED
  BY <1>2 DEF Padded

(* What is decoded from all that was written, with zeros behind, is what   *)
(* was given.                                                              *)
LEMMA OutputIsInput ==
  ASSUME IInv, Given, NEW m, NEW l, Trimmed(m, l),
         Agrees(decoded, combined), Len(decoded) = Len(combined), total = Len(combined),
         layout = "lengths" => split = m
  PROVE  Output = tables /\ (layout = "norms" => SumOf(decoded) = TableSize)
<1> DEFINE a == tables[1]
           b == tables[2]
<1>1. /\ a \in Tables /\ b \in Tables /\ tables = <<a, b>>
      /\ Len(a) \in Nat /\ Len(b) \in Nat /\ decoded \in Tables
  BY IInvTypes DEF IInv, TypeOK, Tables
<1>2. /\ m \in 0 .. Len(a) /\ l \in 0 .. Len(b) /\ IsActive(m, a, Least) /\ IsActive(l, b, 0)
  BY DEF Trimmed
<1>3. /\ m \in Nat /\ l \in Nat /\ total = m + l /\ Len(decoded) = m + l
      /\ \A i \in 1 .. m : combined[i] = a[i]
      /\ \A i \in 1 .. l : combined[m + i] = b[i]
  BY TrimmedValues
<1>4. \A i \in 1 .. m + l : decoded[i] = combined[i]
  BY <1>3 DEF Agrees
<1>5. \A i \in 1 .. m : decoded[i] = a[i]
  BY <1>3, <1>4
<1>6. \A i \in 1 .. l : decoded[m + i] = b[i]
  <2>1. \A i \in 1 .. l : m + i \in 1 .. m + l
    BY <1>3
  <2> QED
    BY <1>3, <1>4, <2>1
<1>7. /\ \A i \in m + 1 .. Len(a) : a[i] = 0
      /\ \A i \in l + 1 .. Len(b) : b[i] = 0
  BY <1>2 DEF IsActive
<1> HIDE DEF a, b
<1>8. CASE layout = "block"
  <2>1. m = Len(a) /\ l = 0 /\ b = <<>>
    BY <1>8, BlockIsWhole DEF a, b, Given
  <2>2. Padded(decoded, total) = a
    <3>1. total \in Nat /\ total = Len(a) /\ Len(decoded) = total
      BY <1>3, <2>1
    <3>2. \A i \in 1 .. total : a[i] = IF i <= Len(decoded) THEN decoded[i] ELSE 0
      BY <1>3, <1>5, <2>1, <3>1
    <3> QED
      BY <1>1, <3>1, <3>2, PaddedIs DEF Tables
  <2>3. FirstSize = total
    BY <1>8 DEF FirstSize
  <2>4. Output = <<Padded(decoded, total), <<>>>>
    BY <1>8, <2>3 DEF Output
  <2> QED
    BY <1>1, <1>8, <2>1, <2>2, <2>4
<1>9. CASE layout = "norms"
  <2>1. Len(a) = AlphabetSize /\ l = 0 /\ b = <<>> /\ AlphabetSize \in Nat
    <3>1. Len(a) = AlphabetSize /\ Len(b) = 0
      BY <1>9, GivenSizes DEF a, b
    <3>2. b = <<>>
      BY <1>9 DEF Given, b
    <3> QED
      BY <1>1, <1>2, <1>3, <3>1, <3>2
  <2>2. Len(decoded) = m /\ m <= Len(a)
    BY <1>1, <1>2, <1>3, <2>1
  <2>3. Padded(decoded, AlphabetSize) = a
    <3>1. ASSUME NEW i \in 1 .. Len(a)
          PROVE  a[i] = IF i <= Len(decoded) THEN decoded[i] ELSE 0
      <4>1. CASE i <= m
        <5>1. i \in 1 .. m
          BY <1>1, <1>3, <4>1
        <5> QED
          BY <1>5, <2>2, <4>1, <5>1
      <4>2. CASE ~(i <= m)
        <5>1. i \in m + 1 .. Len(a)
          BY <1>1, <1>3, <4>2
        <5> QED
          BY <1>7, <2>2, <4>2, <5>1
      <4> QED
        BY <4>1, <4>2
    <3> QED
      BY <1>1, <2>1, <3>1, PaddedIs DEF Tables
  <2>4. FirstSize = AlphabetSize
    BY <1>9 DEF FirstSize
  <2>5. Output = <<Padded(decoded, AlphabetSize), <<>>>>
    BY <1>9, <2>4 DEF Output
  <2>6. SumOf(decoded) = TableSize
    <3>1. Tables \subseteq Seq(Nat)
      <4>1. ValuesOf[layout] \subseteq Nat
        BY <1>9, ValuesFacts
      <4>2. ASSUME NEW V, V \subseteq Nat, NEW u \in Seq(V) PROVE u \in Seq(Nat)
        <5>1. Len(u) \in Nat /\ u \in [1 .. Len(u) -> V]
          BY LenProperties
        <5>2. u \in [1 .. Len(u) -> Nat]
          BY <4>2, <5>1
        <5> QED
          BY <5>1, <5>2, SeqDef
      <4> QED
        BY <4>1, <4>2 DEF Tables
    <3>2. a \in Seq(Nat) /\ decoded \in Seq(Nat)
      BY <1>1, <3>1
    <3>3. \A i \in 1 .. m : a[i] = decoded[i]
      BY <1>5
    <3>4. SumOf(decoded) = SumOf(a)
      BY <1>3, <1>7, <2>2, <3>2, <3>3, SameSum
    <3>5. a \in Norms
      BY <1>9 DEF Given, a
    <3> QED
      BY <3>4, <3>5, NormsAssumption
  <2> QED
    BY <1>1, <2>1, <2>3, <2>5, <2>6
<1>10. CASE layout = "lengths"
  <2>1. Len(a) = LitLens /\ Len(b) = Dists /\ split = m
    BY <1>10, GivenSizes DEF a, b
  <2> DEFINE V == ValuesOf[layout]
             x == SubSeq(decoded, 1, split)
             y == SubSeq(decoded, split + 1, total)
  <2>2. decoded \in Seq(V) /\ a \in Seq(V) /\ b \in Seq(V)
    BY <1>1 DEF Tables
  <2> HIDE DEF V
  <2>3. Len(x) = m /\ \A i \in 1 .. m : x[i] = decoded[i]
    <3>1. m \in 0 .. Len(decoded) /\ m \in 0 .. m
      BY <1>3
    <3> QED
      BY <2>1, <2>2, <3>1, PrefixOfPrefix, PrefixElements
  <2>4. Len(y) = l /\ \A i \in 1 .. l : y[i] = decoded[m + i]
    <3>1. m + l <= Len(decoded)
      BY <1>3
    <3>2. SubSeq(decoded, m + 1, m + l) \in Seq(V) /\ Len(SubSeq(decoded, m + 1, m + l)) = l
      BY <1>3, <2>2, <3>1, NextElements
    <3>3. \A i \in 1 .. l : SubSeq(decoded, m + 1, m + l)[i] = decoded[m + i]
      BY <1>3, <2>2, <3>1, SliceElements, SMTT(30)
    <3> QED
      BY <1>3, <2>1, <3>2, <3>3
  <2> HIDE DEF x, y
  <2>5. Padded(x, LitLens) = a
    <3>1. ASSUME NEW i \in 1 .. Len(a)
          PROVE  a[i] = IF i <= Len(x) THEN x[i] ELSE 0
      <4>1. CASE i <= m
        <5>1. i \in 1 .. m
          BY <1>1, <1>3, <4>1
        <5> QED
          BY <1>5, <2>3, <4>1, <5>1
      <4>2. CASE ~(i <= m)
        <5>1. i \in m + 1 .. Len(a)
          BY <1>1, <1>3, <4>2
        <5> QED
          BY <1>7, <2>3, <4>2, <5>1
      <4> QED
        BY <4>1, <4>2
    <3> QED
      BY <1>1, <2>1, <2>2, <3>1, PaddedIs
  <2>6. Padded(y, Dists) = b
    <3>1. ASSUME NEW i \in 1 .. Len(b)
          PROVE  b[i] = IF i <= Len(y) THEN y[i] ELSE 0
      <4>1. CASE i <= l
        <5>1. i \in 1 .. l
          BY <1>1, <1>3, <4>1
        <5> QED
          BY <1>6, <2>4, <4>1, <5>1
      <4>2. CASE ~(i <= l)
        <5>1. i \in l + 1 .. Len(b)
          BY <1>1, <1>3, <4>2
        <5> QED
          BY <1>7, <2>4, <4>2, <5>1
      <4> QED
        BY <4>1, <4>2
    <3> QED
      BY <1>1, <2>1, <2>2, <3>1, PaddedIs
  <2>7. Output = <<Padded(x, LitLens), Padded(y, Dists)>>
    BY <1>10 DEF Output, x, y
  <2> QED
    BY <1>1, <1>10, <2>5, <2>6, <2>7
<1> QED
  BY <1>8, <1>9, <1>10, GivenSizes

-----------------------------------------------------------------------------
LEMMA SentStays ==
  ASSUME UNCHANGED <<layout, writeVars>>, layout = "block" => total' = total,
         NEW m, NEW l, NEW s, NEW M, Sent(m, l, s, M)
  PROVE  Sent(m, l, s, M)'
<1>1. UNCHANGED <<layout, tables, combined, taken, bytes, whole, written>>
  BY DEF writeVars
<1>2. Written(m, l, s, M, written, Len(combined))
  BY DEF Sent
<1>3. PICK e, a : e = written /\ a = Len(combined)
  OBVIOUS
<1>4. Written(m, l, s, M, e, a)'
  BY <1>1, <1>2, <1>3, WrittenStays
<1>5. Written(m, l, s, M, written, Len(combined))'
  BY <1>1, <1>3, <1>4
<1> QED
  BY <1>1, <1>5 DEF Sent

LEMMA SentFacts ==
  ASSUME IInv, NEW m, NEW l, NEW s, NEW M, Sent(m, l, s, M)
  PROVE  /\ written \in Nat /\ Len(combined) \in Nat /\ Len(s) = written
         /\ Given /\ Trimmed(m, l) /\ layout \in {"block", "lengths", "norms"}
         /\ Len(bytes) \in Nat /\ cursor \in Nat /\ cursor <= Len(bytes)
         /\ Len(decoded) \in Nat /\ whole \in BOOLEAN
         /\ whole => written <= Len(bytes) /\ (layout = "block" => Len(bytes) = written)
         /\ ~whole => Len(bytes) < written
<1>1. written \in Nat /\ Len(combined) \in Nat /\ Len(bytes) \in Nat /\ Len(decoded) \in Nat
      /\ cursor \in 0 .. Len(bytes) /\ layout \in {"block", "lengths", "norms"}
      /\ whole \in BOOLEAN
  BY IInvTypes DEF IInv, TypeOK
<1>2. cursor \in Nat /\ cursor <= Len(bytes)
  BY <1>1
<1>3. Given /\ Trimmed(m, l)
  BY DEF Sent, Written
<1> QED
  BY <1>1, <1>2, <1>3 DEF Sent

(* A mark is the end or the beginning of a run.                            *)
LEMMA NextLink ==
  ASSUME IInv, NEW m, NEW l, NEW s, NEW M, Sent(m, l, s, M),
         NEW p \in Nat, NEW c \in Nat, <<p, c>> \in M, ~(p = written /\ c = Len(combined))
  PROVE  \E n, z \in Nat : Link(layout, combined, s, M, written, Len(combined), p, c, n, z)
BY DEF Sent, Written, Chain

LEMMA ErrorRound ==
  ASSUME UNCHANGED <<layout, writeVars>>, layout = "block" => total' = total,
         NEW m, NEW l, NEW s, NEW M, Sent(m, l, s, M),
         ~whole, pc' = "done", result' # "ok"
  PROVE  RInv'
<1>1. Sent(m, l, s, M)'
  BY SentStays
<1>2. ~whole'
  BY DEF writeVars
<1>3. Place(m, s, M)'
  BY <1>2 DEF Place, Outcome
<1> QED
  BY <1>1, <1>3 DEF RInv, Reading

LEMMA ReadHeaderRound ==
  ASSUME IInv, ReadHeader, NEW m, NEW l, NEW s, NEW M, Sent(m, l, s, M), Place(m, s, M)
  PROVE  RInv'
<1>1. /\ pc = "header" /\ layout # "block" /\ decoded = <<>> /\ decoded' = decoded
      /\ UNCHANGED <<layout, writeVars>> /\ HeaderSize <= Len(bytes) /\ cursor' = HeaderSize
  BY DEF ReadHeader, Return, Continue, IInv
<1>2. UNCHANGED <<layout, tables, combined, taken, bytes, whole, written>>
  BY <1>1 DEF writeVars
<1>3. /\ Written(m, l, s, M, written, Len(combined))
      /\ \A i \in 1 .. Len(bytes) : i <= written => bytes[i] = s[i]
  BY DEF Sent
<1>4. /\ HeadSize = HeaderSize /\ HeadSize <= written /\ written \in Nat
      /\ m \in Nat /\ l \in Nat /\ Len(combined) = m + l
      /\ (layout = "lengths" => HeaderSize = 3) /\ (layout = "norms" => HeaderSize = 2)
      /\ Len(bytes) \in Nat
  BY <1>1, <1>3, WrittenFacts, IInvTypes DEF HeadSize
<1>5. layout \in {"lengths", "norms"} /\ Given /\ Trimmed(m, l)
  BY <1>1, SentFacts
<1>6. <<HeaderSize, 0>> \in M
  BY <1>3, <1>4 DEF Written
<1>7. Headed(m, l, bytes)
  <2>1. 1 \in 1 .. Len(bytes) /\ 2 \in 1 .. Len(bytes) /\ 1 <= written /\ 2 <= written
        /\ (layout = "lengths" => 3 \in 1 .. Len(bytes) /\ 3 <= written)
    BY <1>1, <1>4, <1>5
  <2>2. bytes[1] = s[1] /\ bytes[2] = s[2] /\ (layout = "lengths" => bytes[3] = s[3])
    BY <1>3, <2>1
  <2>3. Headed(m, l, s)
    BY <1>3 DEF Written
  <2> QED
    BY <2>2, <2>3 DEF Headed
<1>8. /\ pc' = "token" /\ total' = m + l /\ (layout = "lengths" => split' = m)
  <2>1. CASE layout = "lengths"
    <3>1. bytes[1] + Base * bytes[2] = m /\ bytes[3] = l
      BY <1>7, <2>1 DEF Headed
    <3>2. m <= LitLens /\ l <= Dists
      <4>1. Len(tables[1]) = LitLens /\ Len(tables[2]) = Dists
        BY <1>5, <2>1, GivenSizes
      <4>2. m \in 0 .. Len(tables[1]) /\ l \in 0 .. Len(tables[2])
        BY <1>5 DEF Trimmed
      <4> QED
        BY <4>1, <4>2, IInvTypes
    <3>3. ~(m > LitLens \/ l > Dists)
      <4>1. LitLens \in Nat /\ Dists \in Nat
        BY WidthAssumption, ByteFacts
      <4> QED
        BY <1>4, <3>2, <4>1
    <3> QED
      BY <2>1, <3>1, <3>3 DEF ReadHeader, Continue
  <2>2. CASE layout = "norms"
    <3>1. bytes[1] + Base * bytes[2] = m - 1
      BY <1>7, <2>2 DEF Headed
    <3>2. Len(tables[1]) = AlphabetSize /\ Len(tables[2]) = 0 /\ AlphabetSize \in Nat
      BY <1>5, <2>2, GivenSizes, IInvTypes
    <3>3. m \in 0 .. AlphabetSize /\ l \in 0 .. 0
      BY <1>5, <3>2 DEF Trimmed
    <3>4. ~(m - 1 >= AlphabetSize) /\ m - 1 + 1 = m + l
      BY <3>2, <3>3
    <3> QED
      BY <2>2, <3>1, <3>4 DEF ReadHeader, Continue
  <2> QED
    BY <1>5, <2>1, <2>2
<1>9. Sent(m, l, s, M)'
  BY <1>1, SentStays
<1>10. Place(m, s, M)'
  <2>1. Len(decoded') = 0 /\ Len(combined') = m + l /\ 0 <= m + l
    BY <1>1, <1>2, <1>4
  <2>2. Agrees(decoded, combined)'
    BY <2>1 DEF Agrees
  <2>3. <<cursor', Len(decoded')>> \in M
    BY <1>1, <1>6, <2>1
  <2> QED
    BY <1>1, <1>8, <2>1, <2>2, <2>3 DEF Place
<1> QED
  BY <1>8, <1>9, <1>10 DEF RInv, Reading

(* At a mark a whole payload is complete where the run codes end, and one  *)
(* that lacks bytes never has all values.                                  *)
LEMMA AtMark ==
  ASSUME IInv, NEW m, NEW l, NEW s, NEW M, Sent(m, l, s, M), Place(m, s, M), pc = "token"
  PROVE  \/ /\ cursor = written /\ Len(decoded) = total /\ whole /\ Complete
         \/ /\ \E n, z \in Nat :
                 Link(layout, combined, s, M, written, Len(combined), cursor, Len(decoded), n, z)
            /\ Len(decoded) < total /\ cursor < written
            /\ whole => ~Complete
            /\ layout # "block" => ~Complete
<1>1. <<cursor, Len(decoded)>> \in M /\ total = Len(combined)
  BY DEF Place
<1>2. /\ written \in Nat /\ Len(combined) \in Nat /\ Len(bytes) \in Nat /\ cursor \in Nat
      /\ cursor <= Len(bytes) /\ Len(decoded) \in Nat /\ whole \in BOOLEAN
      /\ whole => written <= Len(bytes) /\ (layout = "block" => Len(bytes) = written)
      /\ ~whole => Len(bytes) < written
  BY SentFacts
<1>3. CASE cursor = written /\ Len(decoded) = Len(combined)
  <2>1. whole
    BY <1>2, <1>3
  <2>2. Complete
    BY <1>1, <1>2, <1>3, <2>1 DEF Complete
  <2> QED
    BY <1>1, <1>3, <2>1, <2>2
<1>4. CASE ~(cursor = written /\ Len(decoded) = Len(combined))
  <2>1. PICK n \in Nat, z \in Nat :
          Link(layout, combined, s, M, written, Len(combined), cursor, Len(decoded), n, z)
    BY <1>1, <1>2, <1>4, NextLink
  <2>2. n > 0 /\ cursor < z /\ z <= written /\ Len(decoded) + n <= Len(combined)
    BY <2>1 DEF Link
  <2>3. Len(decoded) < total /\ cursor < written
    BY <1>1, <1>2, <2>2
  <2>4. layout # "block" => ~Complete
    BY <1>1, <1>2, <2>3 DEF Complete
  <2>5. whole => ~Complete
    BY <1>1, <1>2, <2>3 DEF Complete
  <2> QED
    BY <2>1, <2>3, <2>4, <2>5
<1> QED
  BY <1>3, <1>4

LEMMA FinishRound ==
  ASSUME IInv, EndOfRuns, NEW m, NEW l, NEW s, NEW M, Sent(m, l, s, M), Place(m, s, M)
  PROVE  RInv'
<1>1. /\ pc = "token" /\ Complete /\ pc' = "done"
      /\ result' = (IF Sound THEN "ok" ELSE "CorruptedEntropyStream")
      /\ UNCHANGED <<layout, writeVars, cursor, total, split, decoded>>
  BY DEF EndOfRuns, Return, headVars
<1>2. CASE cursor = written /\ Len(decoded) = total /\ whole
  <2>1. /\ total = Len(combined) /\ (layout = "lengths" => split = m)
        /\ Agrees(decoded, combined)
    BY <1>1 DEF Place
  <2>2. Given /\ Trimmed(m, l) /\ layout \in {"block", "lengths", "norms"}
    BY SentFacts
  <2>3. Output = tables /\ (layout = "norms" => SumOf(decoded) = TableSize)
    BY <1>2, <2>1, <2>2, OutputIsInput
  <2>4. Sound
    BY <1>2, <2>2, <2>3 DEF Sound
  <2>5. result' = "ok"
    BY <1>1, <2>4
  <2>6. UNCHANGED <<tables, whole, written>>
    BY <1>1 DEF writeVars
  <2>7. Output' = Output
    BY <1>1 DEF Output, FirstSize, Padded
  <2>8. Outcome'
    BY <1>1, <1>2, <2>3, <2>5, <2>6, <2>7 DEF Outcome
  <2>9. Place(m, s, M)'
    BY <1>1, <2>8 DEF Place
  <2>10. Sent(m, l, s, M)'
    BY <1>1, SentStays
  <2> QED
    BY <1>1, <2>9, <2>10 DEF RInv, Reading
<1>3. CASE Len(decoded) < total /\ layout = "block" /\ ~whole
  <2>1. Len(decoded) # total
    BY <1>3, SentFacts DEF IInv, TypeOK
  <2>2. ~Sound
    BY <1>3, <2>1 DEF Sound
  <2> QED
    BY <1>1, <1>3, <2>2, ErrorRound
<1> QED
  BY <1>1, <1>2, <1>3, AtMark

LEMMA TornByteRound ==
  ASSUME IInv, TornByte, NEW m, NEW l, NEW s, NEW M, Sent(m, l, s, M), Place(m, s, M)
  PROVE  RInv'
<1>1. /\ \/ pc = "header" /\ Len(bytes) < HeaderSize
         \/ pc \in {"count", "high", "run"} /\ cursor = Len(bytes)
         \/ pc = "token" /\ ~Complete /\ cursor = Len(bytes)
      /\ pc' = "done" /\ result' = "UnexpectedEof"
      /\ UNCHANGED <<layout, writeVars, total>>
  BY DEF TornByte, Return, headVars
<1>2. /\ written \in Nat /\ Len(bytes) \in Nat /\ cursor \in Nat /\ whole \in BOOLEAN
      /\ whole => written <= Len(bytes)
  BY SentFacts
<1>3. CASE ~whole
  BY <1>1, <1>3, ErrorRound
<1>4. CASE whole
  <2>1. CASE pc = "header" /\ Len(bytes) < HeaderSize
    <3>1. Written(m, l, s, M, written, Len(combined))
      BY DEF Sent
    <3>2. layout # "block"
      BY <2>1 DEF Place
    <3>3. HeadSize = HeaderSize /\ HeadSize <= written /\ HeadSize \in Nat
      BY <3>1, <3>2, WrittenFacts DEF HeadSize
    <3> QED
      BY <1>2, <1>4, <2>1, <3>3
  <2>2. CASE pc \in {"count", "high", "run"} /\ cursor = Len(bytes)
    <3>1. cursor < written
      <4>1. CASE pc = "count"
        BY <4>1 DEF Place, AtCount
      <4>2. CASE pc = "high"
        BY <4>2 DEF Place, AtHigh
      <4>3. CASE pc = "run"
        <5>1. PICK p \in Nat, z \in Nat : z <= written /\ cursor \in p .. z - 1
          BY <4>3 DEF Place, AtRun
        <5> QED
          BY <1>2, <5>1
      <4> QED
        BY <2>2, <4>1, <4>2, <4>3
    <3> QED
      BY <1>2, <1>4, <2>2, <3>1
  <2>3. CASE pc = "token" /\ ~Complete /\ cursor = Len(bytes)
    <3>1. cursor < written
      BY <2>3, AtMark
    <3> QED
      BY <1>2, <1>4, <2>3, <3>1
  <2> QED
    BY <1>1, <2>1, <2>2, <2>3
<1> QED
  BY <1>2, <1>3, <1>4

-----------------------------------------------------------------------------
LEMMA AgreesAppend ==
  ASSUME NEW S, decoded \in Seq(S), NEW b \in S, NEW C, Agrees(decoded, C),
         Len(decoded) + 1 <= Len(C), b = C[Len(decoded) + 1]
  PROVE  Agrees(Append(decoded, b), C) /\ Len(Append(decoded, b)) = Len(decoded) + 1
<1>1. /\ Len(decoded) \in Nat /\ Len(Append(decoded, b)) = Len(decoded) + 1
      /\ \A i \in 1 .. Len(decoded) : Append(decoded, b)[i] = decoded[i]
      /\ Append(decoded, b)[Len(decoded) + 1] = b
  BY LenProperties, AppendProperties
<1>2. ASSUME NEW i \in 1 .. Len(decoded) + 1 PROVE Append(decoded, b)[i] = C[i]
  <2>1. CASE i \in 1 .. Len(decoded)
    BY <1>1, <2>1 DEF Agrees
  <2>2. CASE i \notin 1 .. Len(decoded)
    <3>1. i = Len(decoded) + 1
      BY <1>1, <2>2
    <3> QED
      BY <1>1, <3>1
  <2> QED
    BY <2>1, <2>2
<1> QED
  BY <1>1, <1>2 DEF Agrees

LEMMA AgreesResized ==
  ASSUME NEW n \in Nat, Len(decoded) \in Nat, NEW C, Agrees(decoded, C),
         Len(decoded) + n <= Len(C), Same(C, Len(decoded), n), value = C[Len(decoded) + 1],
         Len(Resized(Len(decoded) + n)) = Len(decoded) + n
  PROVE  Agrees(Resized(Len(decoded) + n), C)
<1> DEFINE c == Len(decoded)
<1>1. ASSUME NEW i \in 1 .. c + n PROVE Resized(c + n)[i] = C[i]
  <2>1. Resized(c + n)[i] = IF i <= c THEN decoded[i] ELSE value
    BY DEF Resized
  <2>2. CASE i <= c
    <3>1. i \in 1 .. c
      BY <2>2
    <3> QED
      BY <2>1, <2>2, <3>1 DEF Agrees
  <2>3. CASE ~(i <= c)
    <3>1. i - c \in 1 .. n /\ c + (i - c) = i
      BY <2>3
    <3>2. C[c + (i - c)] = C[c + 1]
      BY <3>1 DEF Same
    <3> QED
      BY <2>1, <2>3, <3>1, <3>2
  <2> QED
    BY <2>2, <2>3
<1> QED
  BY <1>1 DEF Agrees

LEMMA ByteArrived ==
  ASSUME IInv, NEW m, NEW l, NEW s, NEW M, Sent(m, l, s, M), cursor < Len(bytes), cursor < written
  PROVE  bytes[cursor + 1] = s[cursor + 1] /\ bytes[cursor + 1] \in Byte
<1>1. written \in Nat /\ Len(bytes) \in Nat /\ cursor \in Nat
  BY SentFacts
<1>2. cursor + 1 \in 1 .. Len(bytes) /\ cursor + 1 <= written
  BY <1>1
<1> QED
  BY <1>2, NextByte DEF Sent

LEMMA ReadValueRound ==
  ASSUME IInv, ReadValue, NEW m, NEW l, NEW s, NEW M, Sent(m, l, s, M), Place(m, s, M)
  PROVE  RInv'
<1>1. PICK b, c, d : b = bytes[cursor + 1] /\ c = cursor /\ d = Len(decoded)
  OBVIOUS
<1>2. /\ pc = "token" /\ ~Complete /\ cursor < Len(bytes) /\ cursor' = c + 1
      /\ UNCHANGED <<layout, writeVars, total, split>>
  BY <1>1 DEF ReadValue, headVars
<1>3. UNCHANGED <<layout, tables, combined, taken, bytes, whole, written>>
  BY <1>2 DEF writeVars
<1>4. \/ layout = "block" /\ Await("run", b) /\ run' = 0 /\ weight' = 1
      \/ layout = "lengths" /\ (b = 0 \/ b >= LengthSpan) /\ Await("count", b % LengthSpan)
      \/ layout = "norms" /\ b = 0 /\ Await("count", 0)
      \/ layout = "norms" /\ b >= Half /\ Await("high", b)
      \/ /\ b \in 1 .. (IF layout = "lengths" THEN LengthSpan ELSE Half) - 1 /\ layout # "block"
         /\ Continue(Append(decoded, b))
  BY <1>1 DEF ReadValue
<1>5. PICK n \in Nat, z \in Nat :
        Link(layout, combined, s, M, written, Len(combined), cursor, Len(decoded), n, z)
  BY <1>2, AtMark
<1>6. cursor < written
  BY <1>2, AtMark
<1>7. b = s[c + 1] /\ b \in Byte
  BY <1>1, <1>2, <1>6, ByteArrived
<1>8. PICK v : v = combined[d + 1]
  OBVIOUS
<1>9. /\ written \in Nat /\ Len(combined) \in Nat /\ c \in Nat /\ d \in Nat
      /\ n > 0 /\ c < z /\ z <= written /\ d + n <= Len(combined) /\ <<z, d + n>> \in M
      /\ Same(combined, d, n) /\ Spelled(layout, s, c, z, v, n)
  BY <1>1, <1>5, <1>8, SentFacts DEF Link
<1>10. /\ total = Len(combined) /\ (layout = "lengths" => split = m) /\ Agrees(decoded, combined)
  BY <1>2 DEF Place
<1>11. /\ Half \in Nat /\ LengthSpan \in Nat /\ LengthSpan >= 1 /\ Half >= 2 /\ b \in Nat
       /\ TableSize \in Nat
  BY <1>7, ByteFacts
<1>12. Sent(m, l, s, M)'
  BY <1>2, SentStays
<1>13. SUFFICES Place(m, s, M)' /\ pc' \in Reading
  BY <1>12 DEF RInv
<1>14. CASE AsRun(layout, s, c, z, v, n)
  <2>1. layout = "block" /\ b = v
    BY <1>7, <1>14 DEF AsRun
  <2>2. Await("run", b) /\ run' = 0 /\ weight' = 1
    BY <1>4, <2>1
  <2>3. PICK q : Closed(s, q, c + 1, z) /\ q[c + 1] = n
    BY <1>14 DEF AsRun
  <2>4. PICK p \in Nat : p = c + 1
    BY <1>9
  <2>5. Closed(s, q, p, z) /\ q[p] = n /\ cursor' = p
    BY <1>2, <2>3, <2>4
  <2>6. p \in p .. z - 1
    BY <1>9, <2>5 DEF Closed
  <2>7. 0 + 1 * n = n
    OBVIOUS
  <2>8. decoded' = decoded /\ value' = v /\ Len(decoded') = d /\ combined' = combined
        /\ written' = written
    BY <1>1, <1>3, <2>1, <2>2 DEF Await
  <2>9. AtRun(s, M)'
    <3>1. run' + weight' * q[cursor'] = n /\ cursor' \in p .. z - 1
      BY <2>2, <2>5, <2>6, <2>7
    <3>2. /\ n > 0 /\ z <= written' /\ Closed(s, q, p, z)
          /\ <<z, Len(decoded') + n>> \in M /\ Len(decoded') + n <= Len(combined')
          /\ Same(combined', Len(decoded'), n) /\ value' = combined'[Len(decoded') + 1]
      BY <1>8, <1>9, <2>5, <2>8
    <3> QED
      BY <3>1, <3>2 DEF AtRun
  <2> QED
    BY <1>2, <1>3, <1>10, <2>1, <2>2, <2>8, <2>9 DEF Place, Await, Reading, Agrees
<1>15. CASE AsValue(layout, s, c, z, v, n)
  <2>1. /\ layout # "block" /\ b = v /\ n = 1 /\ z = c + 1
        /\ v \in 1 .. (IF layout = "lengths" THEN LengthSpan ELSE Half) - 1
    BY <1>7, <1>15 DEF AsValue
  <2>2. Continue(Append(decoded, b))
    <3>1. b # 0 /\ (layout = "lengths" => ~(b >= LengthSpan)) /\ (layout = "norms" => ~(b >= Half))
      BY <1>11, <2>1
    <3> QED
      BY <1>4, <2>1, <3>1
  <2>3. b \in ValuesOf[layout] /\ decoded \in Seq(ValuesOf[layout])
    BY <1>11, <2>1, ValuesFacts, ByteFacts, SMTT(30) DEF IInv, TypeOK
  <2>4. Agrees(Append(decoded, b), combined) /\ Len(Append(decoded, b)) = d + 1
    BY <1>1, <1>8, <1>9, <1>10, <2>1, <2>3, AgreesAppend
  <2>5. pc' = "token" /\ decoded' = Append(decoded, b) /\ <<cursor', Len(decoded')>> \in M
    BY <1>2, <1>9, <2>1, <2>2, <2>4 DEF Continue
  <2> QED
    BY <1>2, <1>3, <1>10, <2>4, <2>5 DEF Place, Reading
<1>16. CASE AsCount(layout, s, c, z, v, n)
  <2>1. /\ layout # "block" /\ z = c + 2 /\ n \in 1 .. MaxRun /\ s[c + 2] = n
        /\ \/ v = 0 /\ b = 0
           \/ layout = "lengths" /\ v \in 1 .. LengthSpan - 1 /\ b = LengthSpan + v
    BY <1>7, <1>16 DEF AsCount
  <2>2. Await("count", v)
    <3>1. CASE v = 0 /\ b = 0
      <4>1. 0 % LengthSpan = 0
        BY <1>11
      <4>2. b \notin 1 .. (IF layout = "lengths" THEN LengthSpan ELSE Half) - 1
        BY <3>1
      <4>3. ~(b >= Half)
        BY <1>11, <3>1
      <4> QED
        BY <1>4, <2>1, <3>1, <4>1, <4>2, <4>3
    <3>2. CASE layout = "lengths" /\ v \in 1 .. LengthSpan - 1 /\ b = LengthSpan + v
      <4>1. b % LengthSpan = v
        <5>1. 1 * LengthSpan + v = LengthSpan + v /\ v \in 0 .. LengthSpan - 1
          BY <1>11, <3>2
        <5>2. (1 * LengthSpan + v) % LengthSpan = v
          BY <1>11, <5>1, Remainder
        <5> QED
          BY <3>2, <5>1, <5>2
      <4>2. b \notin 1 .. LengthSpan - 1
        BY <1>11, <3>2
      <4> QED
        BY <1>4, <3>2, <4>1, <4>2
    <3> QED
      BY <2>1, <3>1, <3>2
  <2>3. decoded' = decoded /\ value' = v /\ pc' = "count" /\ Len(decoded') = d
        /\ combined' = combined /\ written' = written
    BY <1>1, <1>3, <2>2 DEF Await
  <2>4. AtCount(s, M)'
    <3>1. cursor' + 1 = c + 2 /\ cursor' < written
      BY <1>2, <1>9, <2>1
    <3> QED
      BY <1>8, <1>9, <2>1, <2>3, <3>1 DEF AtCount
  <2> QED
    BY <1>2, <1>3, <1>10, <2>3, <2>4 DEF Place, Reading, Agrees
<1>17. CASE AsHigh(layout, s, c, z, v, n)
  <2>1. /\ layout = "norms" /\ z = c + 2 /\ n = 1 /\ v \in Half .. TableSize
        /\ b = Half + (v % Half) /\ s[c + 2] = v \div Half
    BY <1>7, <1>17 DEF AsHigh
  <2>2. v \in Nat /\ b >= Half
    <3>1. v \in Nat /\ Half \in Nat \ {0}
      BY <1>11, <2>1
    <3>2. v % Half \in 0 .. Half - 1
      BY <3>1, ModBounds
    <3> QED
      BY <1>11, <2>1, <3>1, <3>2
  <2>3. Await("high", b)
    <3>1. b # 0 /\ b \notin 1 .. (IF layout = "lengths" THEN LengthSpan ELSE Half) - 1
      BY <1>11, <2>1, <2>2
    <3> QED
      BY <1>4, <2>1, <3>1
  <2>4. decoded' = decoded /\ value' = b /\ pc' = "high" /\ Len(decoded') = d
        /\ combined' = combined /\ written' = written
    BY <1>1, <1>3, <2>3 DEF Await
  <2>5. AtHigh(s, M)'
    <3>1. cursor' + 1 = c + 2 /\ cursor' < written
      BY <1>2, <1>9, <2>1
    <3> QED
      BY <1>8, <1>9, <2>1, <2>4, <3>1 DEF AtHigh
  <2> QED
    BY <1>2, <1>3, <1>10, <2>4, <2>5 DEF Place, Reading, Agrees
<1> QED
  BY <1>9, <1>14, <1>15, <1>16, <1>17 DEF Spelled

LEMMA ReadCountRound ==
  ASSUME IInv, ReadCount, NEW m, NEW l, NEW s, NEW M, Sent(m, l, s, M), Place(m, s, M)
  PROVE  RInv'
<1>1. PICK c, d : c = cursor /\ d = Len(decoded)
  OBVIOUS
<1>2. /\ pc = "count" /\ cursor < Len(bytes) /\ cursor' = c + 1
      /\ UNCHANGED <<layout, writeVars, total, split>>
  BY <1>1 DEF ReadCount, headVars
<1>3. UNCHANGED <<layout, tables, combined, taken, bytes, whole, written>>
  BY <1>2 DEF writeVars
<1>4. PICK n \in 1 .. MaxRun :
        /\ cursor < written /\ s[c + 1] = n /\ <<c + 1, d + n>> \in M
        /\ d + n <= Len(combined)
        /\ Same(combined, d, n) /\ value = combined[d + 1]
  BY <1>1, <1>2 DEF Place, AtCount
<1>5. bytes[cursor + 1] = n
  BY <1>1, <1>2, <1>4, ByteArrived
<1>6. n \in Nat /\ n # 0 /\ d \in Nat
  BY <1>1, <1>4, SentFacts
<1>7. /\ total = Len(combined) /\ (layout = "lengths" => split = m) /\ Agrees(decoded, combined)
  BY <1>2 DEF Place
<1>8. Room(n)
  BY <1>1, <1>4, <1>7 DEF Room
<1>9. pc' = "token" /\ decoded' = Resized(d + n)
  BY <1>1, <1>5, <1>6, <1>8 DEF ReadCount, Continue
<1>10. Len(Resized(d + n)) = d + n
  <2>1. value \in ValuesOf[layout] /\ decoded \in Seq(ValuesOf[layout])
    BY <1>2 DEF IInv, TypeOK
  <2>2. d + n \in Nat
    BY <1>6
  <2> QED
    BY <2>1, <2>2, ResizedOK
<1>11. Agrees(Resized(d + n), combined)
  BY <1>1, <1>4, <1>6, <1>7, <1>10, AgreesResized
<1>12. Sent(m, l, s, M)'
  BY <1>2, SentStays
<1>13. Place(m, s, M)'
  BY <1>2, <1>3, <1>4, <1>7, <1>9, <1>10, <1>11 DEF Place
<1> QED
  BY <1>9, <1>12, <1>13 DEF RInv, Reading

LEMMA ReadHighRound ==
  ASSUME IInv, ReadHigh, NEW m, NEW l, NEW s, NEW M, Sent(m, l, s, M), Place(m, s, M)
  PROVE  RInv'
<1>1. PICK c, d : c = cursor /\ d = Len(decoded)
  OBVIOUS
<1>2. /\ pc = "high" /\ cursor < Len(bytes) /\ cursor' = c + 1
      /\ UNCHANGED <<layout, writeVars, total, split>>
  BY <1>1 DEF ReadHigh, headVars
<1>3. UNCHANGED <<layout, tables, combined, taken, bytes, whole, written>>
  BY <1>2 DEF writeVars
<1>4. PICK v \in Half .. TableSize :
        /\ cursor < written /\ s[c + 1] = v \div Half /\ value = Half + (v % Half)
        /\ <<c + 1, d + 1>> \in M
        /\ d + 1 <= Len(combined) /\ v = combined[d + 1]
  BY <1>1, <1>2 DEF Place, AtHigh
<1>5. bytes[cursor + 1] = v \div Half
  BY <1>1, <1>2, <1>4, ByteArrived
<1>6. Half \in Nat \ {0} /\ TableSize \in Nat /\ v \in Nat /\ v <= TableSize /\ d \in Nat
  BY <1>1, <1>4, SentFacts, ByteFacts, SMTT(30)
<1>7. (value % Half) + Half * bytes[cursor + 1] = v
  <2> DEFINE h == v % Half
             w == v \div Half
  <2>1. h \in 0 .. Half - 1 /\ w \in Nat /\ v = Half * w + h
    BY <1>6, ModBounds
  <2> HIDE DEF h, w
  <2>2. (1 * Half + h) % Half = h /\ 1 * Half + h = Half + h
    BY <1>6, <2>1, Remainder
  <2>3. value % Half = h /\ bytes[cursor + 1] = w
    BY <1>4, <1>5, <2>2 DEF h, w
  <2>4. Half * w \in Nat /\ h \in Nat
    BY <1>6, <2>1
  <2>5. h + Half * w = v
    BY <2>1, <2>4
  <2> QED
    BY <2>3, <2>5
<1>8. ~TooManySlots(v)
  BY <1>6 DEF TooManySlots
<1>9. pc' = "token" /\ decoded' = Append(decoded, v)
  BY <1>7, <1>8 DEF ReadHigh, Continue
<1>10. /\ total = Len(combined) /\ (layout = "lengths" => split = m) /\ Agrees(decoded, combined)
  BY <1>2 DEF Place
<1>11. v \in ValuesOf[layout] /\ decoded \in Seq(ValuesOf[layout])
  BY <1>2, <1>6, <1>8, SlotsOK DEF IInv, TypeOK
<1>12. Agrees(Append(decoded, v), combined) /\ Len(Append(decoded, v)) = d + 1
  BY <1>1, <1>4, <1>10, <1>11, AgreesAppend
<1>13. Sent(m, l, s, M)'
  BY <1>2, SentStays
<1>14. Place(m, s, M)'
  BY <1>2, <1>3, <1>4, <1>9, <1>10, <1>12 DEF Place
<1> QED
  BY <1>9, <1>13, <1>14 DEF RInv, Reading

(* A run length that has a byte more stays within the weights.             *)
LEMMA WeightLeft ==
  ASSUME IInv, NEW m, NEW l, NEW s, NEW M, Sent(m, l, s, M), layout = "block",
         NEW q \in Nat, q >= Half, NEW n \in Nat, run + weight * q = n, n <= Len(combined)
  PROVE  Half * weight \in Weights
<1>1. weight \in Weights /\ weight \in Nat /\ run \in Nat /\ Half \in Nat
  BY IInvTypes, ByteFacts DEF IInv, TypeOK
<1>2. tables[1] \in Blocks /\ Len(combined) = Len(tables[1])
  BY SentFacts, BlockIsWhole DEF Given
<1>3. PICK w \in Weights : Len(tables[1]) < Half * w
  BY <1>2, WeightsAssumption
<1>4. w \in Nat /\ Len(combined) \in Nat /\ Len(combined) < Half * w
  BY <1>2, <1>3, WidthAssumption, SentFacts
<1>5. weight < w
  <2>1. SUFFICES ASSUME w <= weight PROVE FALSE
    BY <1>1, <1>4
  <2>2. Half * w <= Half * weight
    BY <1>1, <1>4, <2>1
  <2>3. Half * weight <= q * weight
    BY <1>1
  <2>4. Half * w \in Nat /\ Half * weight \in Nat /\ q * weight \in Nat /\ weight * q = q * weight
    BY <1>1, <1>4
  <2> QED
    BY <1>1, <1>4, <2>2, <2>3, <2>4
<1> QED
  BY <1>1, <1>3, <1>5, WeightsAssumption

(* A byte of a run length shifts the rest of it down.                      *)
LEMMA DigitSum ==
  ASSUME NEW r \in Nat, NEW w \in Nat, NEW q \in Nat,
         NEW n, n = r + w * q, NEW x, x = r + (q % Half) * w
  PROVE  n = x + (Half * w) * (q \div Half) /\ (q < Half => n = x)
<1> DEFINE u == q % Half
           d == q \div Half
<1>1. Half \in Nat \ {0}
  BY ByteFacts
<1>2. u \in Nat /\ d \in Nat /\ q = Half * d + u /\ x = r + u * w
  BY <1>1, ModBounds
<1>3. q < Half => u = q
  BY <1>1
<1> HIDE DEF u, d
<1>4. w * q = w * (Half * d) + w * u
  BY <1>1, <1>2
<1>5. w * (Half * d) = (Half * w) * d /\ w * u = u * w
  BY <1>1, <1>2
<1>6. w * (Half * d) \in Nat /\ w * u \in Nat
  BY <1>1, <1>2
<1>7. n = x + (Half * w) * d
  BY <1>2, <1>4, <1>5, <1>6
<1>8. q < Half => n = x
  BY <1>2, <1>3, <1>5
<1> QED
  BY <1>7, <1>8 DEF d

LEMMA ReadRunLengthRound ==
  ASSUME IInv, ReadRunLength, NEW m, NEW l, NEW s, NEW M, Sent(m, l, s, M), Place(m, s, M)
  PROVE  RInv' /\ [Extended]_decoded
<1>1. PICK b, j, d, r, w : /\ b = bytes[cursor + 1] /\ j = cursor /\ d = Len(decoded)
                           /\ r = run + (b % Half) * weight /\ w = weight
  OBVIOUS
<1>2. pc = "run" /\ layout = "block" /\ cursor < Len(bytes) /\ UNCHANGED <<layout, writeVars>>
      /\ UNCHANGED <<total, split, value>> /\ cursor' = j + 1
  BY <1>1 DEF ReadRunLength, headVars, IInv
<1>3. UNCHANGED <<tables, combined, taken, bytes, whole, written>>
  BY <1>2 DEF writeVars
<1>17. PICK p \in Nat, z \in Nat, n \in Nat : \E q :
        /\ n > 0 /\ z <= written /\ Closed(s, q, p, z) /\ j \in p .. z - 1
        /\ run + weight * q[j] = n
        /\ <<z, d + n>> \in M /\ d + n <= Len(combined)
        /\ Same(combined, d, n) /\ value = combined[d + 1]
  BY <1>1, <1>2 DEF Place, AtRun
<1>6. PICK q :
        /\ n > 0 /\ z <= written /\ Closed(s, q, p, z) /\ j \in p .. z - 1
        /\ run + weight * q[j] = n
        /\ <<z, d + n>> \in M /\ d + n <= Len(combined)
        /\ Same(combined, d, n) /\ value = combined[d + 1]
  BY <1>17
<1>7. total = Len(combined) /\ Agrees(decoded, combined)
  BY <1>2 DEF Place
<1>8. /\ Half \in Nat \ {0} /\ w \in Nat /\ run \in Nat /\ j \in Nat /\ d \in Nat
      /\ total \in Nat /\ written \in Nat
  BY <1>1, IInvTypes, SentFacts, ByteFacts DEF IInv, TypeOK
<1>9. b = s[j + 1]
  <2>1. cursor < written
    BY <1>1, <1>6, <1>8
  <2> QED
    BY <1>1, <1>2, <2>1, ByteArrived
<1>10. q[j] \in Nat /\ b = Digit(q[j])
  <2>1. q \in [p .. z - 1 -> Nat]
    BY <1>6 DEF Closed, Begun
  <2>2. CASE j = z - 1
    <3>1. j + 1 = z
      BY <1>6, <1>8, <2>2
    <3> QED
      BY <1>6, <1>9, <2>1, <2>2, <3>1 DEF Closed
  <2>3. CASE j # z - 1
    <3>1. j \in p .. (z - 1) - 1
      BY <1>6, <1>8, <2>3
    <3> QED
      BY <1>6, <1>9, <2>1, <3>1 DEF Closed, Begun
  <2> QED
    BY <2>2, <2>3
<1>11. PICK k \in Nat : k = q[j]
  BY <1>10
<1>12. /\ b % Half = k % Half
       /\ b >= Half <=> k >= Half
       /\ b < Half <=> k < Half
  <2>1. b \in Byte /\ b % Half = k % Half /\ (b >= Half <=> k >= Half)
    BY <1>10, <1>11, DigitOK
  <2> QED
    BY <1>8, <1>11, <2>1, ByteFacts
<1>13. n = r + (Half * w) * (k \div Half) /\ (k < Half => n = r)
  <2>1. n = run + w * k /\ w \in Nat /\ run \in Nat
    BY <1>1, <1>6, <1>8, <1>11
  <2>2. r = run + (k % Half) * w
    BY <1>1, <1>12
  <2> QED
    BY <2>1, <2>2, DigitSum
<1>4. Wrap(run + (b % Half) * weight) = r /\ Wrap(d + r) = d + r /\ r \in Nat
  <2>1. r \in Nat
    <3>1. k % Half \in Nat
      BY <1>8, ModBounds
    <3>2. (k % Half) * w \in Nat
      BY <1>8, <3>1
    <3> QED
      BY <1>1, <1>8, <1>12, <3>2
  <2>2. (Half * w) * (k \div Half) \in Nat
    <3>1. k \div Half \in Nat
      BY <1>8, ModBounds
    <3> QED
      BY <1>8, <3>1
  <2>3. r <= d + r /\ d + r \in Nat /\ d + r <= total
    BY <1>6, <1>7, <1>8, <1>13, <2>1, <2>2
  <2>4. usize \in Nat \ {0} /\ total < usize
    BY <1>2, SizeFits DEF IInv, TypeOK
  <2>5. r < usize /\ d + r < usize
    BY <1>8, <2>1, <2>3, <2>4
  <2> QED
    BY <1>1, <2>1, <2>3, <2>4, <2>5, WrapBounds
<1>5. \/ /\ b >= Half /\ Half * w \in Weights
         /\ run' = r /\ weight' = Half * w /\ UNCHANGED <<pc, decoded>>
      \/ b >= Half /\ Half * w \notin Weights
      \/ b < Half /\ r = 0
      \/ b < Half /\ r > 0 /\ d + r > total
      \/ b < Half /\ r > 0 /\ d + r <= total /\ Continue(Resized(d + r))
  BY <1>1, <1>4 DEF ReadRunLength
<1>14. Sent(m, l, s, M)'
  BY <1>2, SentStays
<1>15. CASE k >= Half
  <2>1. j \in p .. (z - 1) - 1
    <3>1. j # z - 1
      BY <1>6, <1>11, <1>15, <1>8, SMTT(30) DEF Closed
    <3> QED
      BY <1>6, <1>8, <3>1
  <2>2. q[j + 1] = k \div Half
    BY <1>6, <1>11, <2>1 DEF Closed, Begun
  <2>3. n <= Len(combined)
    BY <1>6, <1>7, <1>8
  <2>4. Half * w \in Weights
    BY <1>1, <1>2, <1>6, <1>11, <1>15, <2>3, WeightLeft
  <2>5. /\ b >= Half /\ run' = r /\ weight' = Half * w /\ UNCHANGED <<pc, decoded>>
    <3>1. ~(b < Half)
      BY <1>8, <1>12, <1>15
    <3> QED
      BY <1>5, <2>4, <3>1
  <2>6. r + (Half * w) * q[j + 1] = n /\ j + 1 \in p .. z - 1
    BY <1>8, <1>13, <2>1, <2>2
  <2>7. AtRun(s, M)'
    BY <1>1, <1>2, <1>3, <1>6, <2>5, <2>6 DEF AtRun
  <2>8. Place(m, s, M)'
    BY <1>2, <1>3, <1>7, <2>5, <2>7 DEF Place
  <2> QED
    BY <1>2, <1>14, <2>5, <2>8 DEF RInv, Reading
<1>16. CASE k < Half
  <2>1. j = z - 1
    <3>1. SUFFICES ASSUME j # z - 1 PROVE FALSE
      OBVIOUS
    <3>2. j \in p .. (z - 1) - 1
      BY <1>6, <1>8, <3>1
    <3>3. k >= Half
      BY <1>6, <1>11, <3>2 DEF Closed, Begun
    <3> QED
      BY <1>8, <1>16, <3>3
  <2>2. n = r /\ r > 0 /\ d + r <= total /\ b < Half /\ ~(b >= Half) /\ z = j + 1
    <3>1. b \in Nat
      BY <1>1, <1>2, NextByte, ByteFacts
    <3> QED
      BY <1>6, <1>7, <1>8, <1>12, <1>13, <1>16, <2>1, <3>1
  <2>3. pc' = "token" /\ decoded' = Resized(d + n)
    <3>1. ~(r = 0) /\ ~(d + r > total)
      BY <1>4, <1>8, <2>2
    <3> QED
      BY <1>5, <2>2, <3>1 DEF Continue
  <2>4. Len(Resized(d + n)) = d + n
    <3>1. value \in ValuesOf[layout] /\ decoded \in Seq(ValuesOf[layout])
      BY <1>2, ValuesFacts DEF IInv, TypeOK
    <3>2. d + n \in Nat
      BY <1>6, <1>8
    <3> QED
      BY <3>1, <3>2, ResizedOK
  <2>5. Agrees(Resized(d + n), combined)
    BY <1>1, <1>6, <1>7, <1>8, <2>4, AgreesResized
  <2>6. Place(m, s, M)'
    BY <1>2, <1>3, <1>6, <1>7, <2>2, <2>3, <2>4, <2>5 DEF Place
  <2>7. Extended
    BY <1>1, <1>6, <1>8, <2>3, <2>4, ResizedExtends
  <2> QED
    BY <1>14, <2>3, <2>6, <2>7 DEF RInv, Reading
<1> QED
  BY <1>8, <1>15, <1>16

-----------------------------------------------------------------------------
(* A decoder of bytes that no encoder wrote has no round to complete.      *)
LEMMA StrayRound ==
  ASSUME Decode, ~Encoded, whole, pc \in Reading
  PROVE  RInv'
<1>1. UNCHANGED writeVars
  BY DEF Decode, ReadHeader, EndOfRuns, TornByte, ReadValue, ReadCount, ReadHigh, ReadRunLength
<1>2. pc' \in Reading
  BY DEF Reading, Decode, ReadHeader, EndOfRuns, TornByte, ReadValue, ReadCount, ReadHigh,
         ReadRunLength, Return, Continue, Await
<1> QED
  BY <1>1, <1>2 DEF writeVars, Encoded, RInv

LEMMA DecodeRound ==
  ASSUME IInv, Decode, NEW m, NEW l, NEW s, NEW M, Sent(m, l, s, M), Place(m, s, M)
  PROVE  RInv'
BY ReadHeaderRound, FinishRound, TornByteRound, ReadValueRound, ReadCountRound, ReadHighRound,
   ReadRunLengthRound
DEF Decode

LEMMA StutterRound == RInv /\ UNCHANGED vars => RInv'
<1> SUFFICES ASSUME RInv, UNCHANGED vars PROVE RInv'
  OBVIOUS
<1>1. /\ UNCHANGED <<pc, layout, cursor, total, split, value, run, weight, decoded, result>>
      /\ UNCHANGED <<layout, writeVars>>
      /\ UNCHANGED <<tables, combined, taken, bytes, whole, written>>
  BY DEF vars, writeVars, headVars, runVars
<1>2. Encoded' = Encoded /\ Given' = Given
  BY <1>1 DEF Encoded, Given
<1>3. CASE ~Encoded /\ whole /\ pc \in Reading
  BY <1>1, <1>2, <1>3 DEF RInv
<1>4. CASE pc = "head" /\ Given /\ whole
  BY <1>1, <1>2, <1>4 DEF RInv
<1>5. CASE pc = "encode" /\ whole /\ \E m, n, M : Written(m, n, bytes, M, Len(bytes), taken)
  <2>1. PICK m, n, M : Written(m, n, bytes, M, Len(bytes), taken)
    BY <1>5
  <2>2. PICK s, e, a : s = bytes /\ e = Len(bytes) /\ a = taken
    OBVIOUS
  <2>3. Written(m, n, s, M, e, a)'
    BY <1>1, <2>1, <2>2, WrittenStays
  <2>4. Written(m, n, bytes, M, Len(bytes), taken)'
    BY <1>1, <2>2, <2>3
  <2> QED
    BY <1>1, <1>5, <2>4 DEF RInv
<1>6. CASE /\ pc = "runLength" /\ whole
           /\ \E m, n, M, p, c, q : Written(m, n, bytes, M, p, c) /\ Counting(p, c, q)
  <2>1. PICK m, n, M, p, c, q : Written(m, n, bytes, M, p, c) /\ Counting(p, c, q)
    BY <1>6
  <2>2. PICK s : s = bytes
    OBVIOUS
  <2>3. Written(m, n, s, M, p, c)'
    BY <1>1, <2>1, <2>2, WrittenStays
  <2>4. Written(m, n, bytes, M, p, c)' /\ Counting(p, c, q)'
    BY <1>1, <2>1, <2>2, <2>3 DEF Counting
  <2> QED
    BY <1>1, <1>6, <2>4 DEF RInv
<1>7. CASE pc \in Reading /\ \E m, n, s, M : Sent(m, n, s, M) /\ Place(m, s, M)
  <2>1. PICK m, n, s, M : Sent(m, n, s, M) /\ Place(m, s, M)
    BY <1>7
  <2>2. Sent(m, n, s, M)'
    BY <1>1, <2>1, SentStays
  <2>3. AtCount(s, M)' = AtCount(s, M) /\ AtHigh(s, M)' = AtHigh(s, M)
        /\ AtRun(s, M)' = AtRun(s, M)
    BY <1>1 DEF AtCount, AtHigh, AtRun
  <2>4. Outcome' = Outcome
    BY <1>1 DEF Outcome, Output, FirstSize, Padded
  <2>5. Place(m, s, M)'
    BY <1>1, <2>1, <2>3, <2>4 DEF Place
  <2> QED
    BY <1>1, <1>7, <2>2, <2>5 DEF RInv
<1> QED
  BY <1>3, <1>4, <1>5, <1>6, <1>7 DEF RInv

LEMMA NextRInv == IInv /\ RInv /\ [Next]_vars /\ IInv' => RInv'
<1> SUFFICES ASSUME IInv, RInv, [Next]_vars, IInv' PROVE RInv'
  OBVIOUS
<1>1. CASE UNCHANGED vars
  BY <1>1, StutterRound
<1>2. CASE ~Encoded /\ whole /\ pc \in Reading
  <2>1. ~Encode
    BY <1>2 DEF Reading, Encode, WriteHeader, WriteRun, WriteRunLength, Deliver
  <2> QED
    BY <1>1, <1>2, <2>1, StrayRound DEF Next, Done
<1>3. CASE pc = "head" /\ Given /\ whole
  <2>1. WriteHeader \/ UNCHANGED vars
    BY <1>3 DEF Next, Done, Encode, WriteRun, WriteRunLength, Deliver, Decode, ReadHeader, EndOfRuns,
                TornByte, ReadValue, ReadCount, ReadHigh, ReadRunLength
  <2> QED
    BY <1>1, <1>3, <2>1, WriteHeaderRound
<1>4. CASE pc = "encode" /\ whole /\ \E m, n, M : Written(m, n, bytes, M, Len(bytes), taken)
  <2>1. WriteRun \/ Deliver \/ UNCHANGED vars
    BY <1>4 DEF Next, Done, Encode, WriteHeader, WriteRunLength, Decode, ReadHeader, EndOfRuns,
                TornByte, ReadValue, ReadCount, ReadHigh, ReadRunLength
  <2> QED
    BY <1>1, <1>4, <2>1, WriteRunRound, DeliverRound
<1>5. CASE /\ pc = "runLength" /\ whole
           /\ \E m, n, M, p, c, q : Written(m, n, bytes, M, p, c) /\ Counting(p, c, q)
  <2>1. WriteRunLength \/ UNCHANGED vars
    BY <1>5 DEF Next, Done, Encode, WriteHeader, WriteRun, Deliver, Decode, ReadHeader, EndOfRuns,
                TornByte, ReadValue, ReadCount, ReadHigh, ReadRunLength
  <2> QED
    BY <1>1, <1>5, <2>1, WriteRunLengthRound
<1>6. CASE pc \in Reading /\ \E m, n, s, M : Sent(m, n, s, M) /\ Place(m, s, M)
  <2>1. ~Encode
    BY <1>6 DEF Reading, Encode, WriteHeader, WriteRun, WriteRunLength, Deliver
  <2> QED
    BY <1>1, <1>6, <2>1, DecodeRound DEF Next, Done
<1> QED
  BY <1>2, <1>3, <1>4, <1>5, <1>6 DEF RInv

LEMMA SpecRInv == Spec => []RInv
BY InitRInv, NextRInv, NextIInv, SpecIInv, PTL DEF Spec

LEMMA DoneRound == IInv /\ RInv /\ pc = "done" => (~Encoded /\ whole) \/ Outcome
BY DEF RInv, Place

(* Losslessness: what was written and arrives whole is read back as it     *)
(* was, whatever the block, the tables and the bytes behind them.          *)
THEOREM RunRoundTrip == Spec => []RoundTrip
<1>1. IInv /\ RInv => RoundTrip
  BY DoneRound DEF RoundTrip, Outcome
<1> QED
  BY <1>1, SpecIInv, SpecRInv, PTL

(* Of what was written, no beginning passes for the whole.                 *)
THEOREM RunTruncationIsNoticed == Spec => []TruncationIsNoticed
<1>1. IInv /\ RInv => TruncationIsNoticed
  BY DoneRound DEF TruncationIsNoticed, Outcome
<1> QED
  BY <1>1, SpecIInv, SpecRInv, PTL

-----------------------------------------------------------------------------
LEMMA NextExtends == IInv /\ RInv /\ [Next]_vars => [Roomy \/ Encoded => Extended]_decoded
<1> SUFFICES ASSUME IInv, RInv, Next, decoded' # decoded, Roomy \/ Encoded PROVE Extended
  BY DEF vars
<1> DEFINE b == bytes[cursor + 1]
<1>1. Decode
  BY DEF Next, Encode, WriteHeader, WriteRun, WriteRunLength, Deliver, Done, vars
<1>2. /\ decoded \in Seq(ValuesOf[layout]) /\ Len(decoded) \in Nat
      /\ layout \in {"block", "lengths", "norms"} /\ Byte = 0 .. Base - 1
  BY IInvTypes, ByteFacts DEF IInv, TypeOK
<1>3. CASE ReadHeader \/ EndOfRuns \/ TornByte
  BY <1>3 DEF ReadHeader, EndOfRuns, TornByte, Return, Continue
<1>4. CASE ReadValue
  <2>1. b \in 1 .. (IF layout = "lengths" THEN LengthSpan ELSE Half) - 1 /\ layout # "block"
        /\ decoded' = Append(decoded, b)
    BY <1>4 DEF ReadValue, Await, Continue
  <2>2. b \in ValuesOf[layout]
    BY <1>2, <2>1, ValuesFacts, ByteFacts
  <2> QED
    BY <1>2, <2>1, <2>2, AppendExtends
<1>5. CASE ReadCount
  <2>1. decoded' = Resized(Len(decoded) + b) /\ cursor < Len(bytes) /\ pc = "count"
    BY <1>5 DEF ReadCount, Return, Continue
  <2>2. Len(decoded) + b \in Nat /\ Len(decoded) + b >= Len(decoded)
    BY <1>2, <2>1, NextByte, ByteFacts
  <2>3. Len(Resized(Len(decoded) + b)) = Len(decoded) + b
    BY <1>2, <2>1, <2>2, ResizedOK DEF IInv, TypeOK
  <2> QED
    BY <1>2, <2>1, <2>2, <2>3, ResizedExtends
<1>6. CASE ReadHigh
  <2> DEFINE n == (value % Half) + Half * b
  <2>1. decoded' = Append(decoded, n) /\ ~TooManySlots(n) /\ cursor < Len(bytes) /\ pc = "high"
    BY <1>6 DEF ReadHigh, Return, Continue
  <2>2. b \in Nat /\ Half \in Nat \ {0} /\ value \in Nat /\ layout = "norms"
    BY <2>1, NextByte, ByteFacts, SMTT(30) DEF IInv, TypeOK
  <2>3. value % Half \in Nat /\ Half * b \in Nat
    <3>1. value % Half \in Nat
      BY <2>2, ModBounds
    <3>2. ASSUME NEW h \in Nat, NEW c \in Nat PROVE h * c \in Nat
      OBVIOUS
    <3> QED
      BY <2>2, <3>1, <3>2
  <2>4. n \in ValuesOf[layout]
    <3>1. n \in Nat
      BY <2>3
    <3> HIDE DEF n
    <3> QED
      BY <2>1, <2>2, <3>1, SlotsOK
  <2> HIDE DEF n
  <2> QED
    BY <1>2, <2>1, <2>4, AppendExtends
<1>7. CASE ReadRunLength /\ Roomy
  <2> DEFINE sofar == Wrap(run + (b % Half) * weight)
             end == Wrap(Len(decoded) + sofar)
  <2>1. decoded' = Resized(end) /\ cursor < Len(bytes) /\ pc = "run"
    BY <1>7 DEF ReadRunLength, Return, Continue
  <2>2. sofar \in Nat /\ end = Len(decoded) + sofar
    BY <1>7, <2>1, RunLengthBounds
  <2> HIDE DEF sofar, end
  <2>3. end \in Nat /\ end >= Len(decoded)
    BY <1>2, <2>2
  <2>4. value \in ValuesOf[layout]
    BY <2>1, ValuesFacts DEF IInv, TypeOK
  <2>5. Len(Resized(end)) = end
    BY <1>2, <2>3, <2>4, ResizedOK
  <2> QED
    BY <1>2, <2>1, <2>3, <2>5, ResizedExtends
<1>8. CASE ReadRunLength /\ Encoded
  <2>1. pc = "run"
    BY <1>8 DEF ReadRunLength
  <2>2. PICK m, l, s, M : Sent(m, l, s, M) /\ Place(m, s, M)
    BY <1>8, <2>1 DEF RInv
  <2> QED
    BY <1>8, <2>2, ReadRunLengthRound
<1> QED
  BY <1>1, <1>3, <1>4, <1>5, <1>6, <1>7, <1>8 DEF Decode

(* No run cuts or changes what is before it: whatever the bytes are where  *)
(* usize has room for any run length that can be spelled, and where it has *)
(* not, as in 32 bits, if an encoder wrote them.                           *)
THEOREM RunsNeverCut == Spec => RunsOnlyAdd
<1>1. Spec => [][Roomy \/ Encoded => Extended]_decoded
  BY NextExtends, SpecIInv, SpecRInv, PTL DEF Spec
<1> QED
  BY <1>1 DEF RunsOnlyAdd
=============================================================================
