---------------------------- MODULE ComponentProofs ---------------------------
(***************************************************************************)
(* Proofs about three components that have nothing in common but the       *)
(* lemmas on slices: the LZ layer of LZH and LZA, the stream hash and the  *)
(* programs in front of the library.                                       *)
(***************************************************************************)
EXTENDS LzSymbols, StreamHash, FrontEnds, SliceLemmas, FiniteSetTheorems

-----------------------------------------------------------------------------
(***************************************************************************)
(* The LZ layer of LZH and LZA, for any data, any symbols, any hash        *)
(* function and any limits within the tables of classes: the bounds of the *)
(* tokenizer and of the decoding loop, and that the loop restores what the *)
(* tokenizer was given.                                                    *)
(***************************************************************************)

(* Every symbol has a class that the tables know; before the decoder       *)
(* starts nothing is read nor produced, and a result is what ends a call.  *)
IInv ==
  /\ TypeOK
  /\ SearchLooksBack
  /\ DecoderStaysInBounds
  /\ \A k \in 1 .. Len(symbols) : Readable(symbols[k])
  /\ Readable(padding.symbol) /\ Readable(padding.distance)
  /\ pc \in {"tokenize", "decode"} => cursor = 0 /\ decoded = <<>>
  /\ pc # "done" => result = "none"

-----------------------------------------------------------------------------
(* The tables grow, and a class ends where its extra bits do at the latest.*)
LEMMA LengthTable ==
  /\ Len(LengthBase) = 29 /\ LengthBase \in [1 .. 29 -> Nat]
  /\ \A i, j \in 1 .. 29 : i <= j => LengthBase[i] <= LengthBase[j]
  /\ \A i \in 1 .. 29 : LengthBase[i] >= 3
<1>1. Len(LengthBase) = 29 /\ LengthBase \in [1 .. 29 -> Nat]
  BY DEF LengthBase
<1>2. \A i, j \in 1 .. 29 : i <= j => LengthBase[i] <= LengthBase[j]
  BY DEF LengthBase
<1>3. \A i \in 1 .. 29 : LengthBase[i] >= 3
  BY SMTT(30) DEF LengthBase
<1> QED
  BY <1>1, <1>2, <1>3

LEMMA DistanceTable ==
  /\ Len(DistanceBase) = 32 /\ DistanceBase \in [1 .. 32 -> Nat]
  /\ \A i, j \in 1 .. 32 : i <= j => DistanceBase[i] <= DistanceBase[j]
  /\ \A i \in 1 .. 32 : DistanceBase[i] >= 1
<1>1. Len(DistanceBase) = 32 /\ DistanceBase \in [1 .. 32 -> Nat]
  BY DEF DistanceBase
<1>2. \A i, j \in 1 .. 32 : i <= j => DistanceBase[i] <= DistanceBase[j]
  BY DEF DistanceBase
<1>3. \A i \in 1 .. 32 : DistanceBase[i] >= 1
  BY DEF DistanceBase
<1> QED
  BY <1>1, <1>2, <1>3

Power == <<1, 2, 4, 8, 16, 32, 64, 128, 256, 512, 1024, 2048, 4096, 8192,
           16384, 32768, 65536>>

LEMMA PowersOf2 == ASSUME NEW k \in 0 .. 16 PROVE 2 ^ k = Power[k + 1]
<1>0. CASE k = 0
  BY <1>0 DEF Power
<1>1. CASE k = 1
  BY <1>1 DEF Power
<1>2. CASE k = 2
  BY <1>2 DEF Power
<1>3. CASE k = 3
  BY <1>3 DEF Power
<1>4. CASE k = 4
  BY <1>4 DEF Power
<1>5. CASE k = 5
  BY <1>5 DEF Power
<1>6. CASE k = 6
  BY <1>6 DEF Power
<1>7. CASE k = 7
  BY <1>7 DEF Power
<1>8. CASE k = 8
  BY <1>8 DEF Power
<1>9. CASE k = 9
  BY <1>9 DEF Power
<1>10. CASE k = 10
  BY <1>10 DEF Power
<1>11. CASE k = 11
  BY <1>11 DEF Power
<1>12. CASE k = 12
  BY <1>12 DEF Power
<1>13. CASE k = 13
  BY <1>13 DEF Power
<1>14. CASE k = 14
  BY <1>14 DEF Power
<1>15. CASE k = 15
  BY <1>15 DEF Power
<1>16. CASE k = 16
  BY <1>16 DEF Power
<1> QED
  BY <1>0, <1>1, <1>2, <1>3, <1>4, <1>5, <1>6, <1>7, <1>8, <1>9, <1>10, <1>11, <1>12, <1>13, <1>14, <1>15, <1>16

LEMMA PowerPositive == \A k \in 0 .. 16 : Power[k + 1] \in Nat \ {0}
BY DEF Power

LEMMA FarthestNat == Farthest \in Nat
BY DEF Farthest

LEMMA LengthWidths ==
  /\ \A c \in 1 .. 29 : LengthExtraBits[c] \in 0 .. 16
  /\ \A c \in 1 .. 28 : LengthBase[c + 1] <= LengthBase[c] + Power[LengthExtraBits[c] + 1]
  /\ Farthest < LengthBase[29] + Power[LengthExtraBits[29] + 1]
<1>1. \A c \in 1 .. 29 : LengthExtraBits[c] \in 0 .. 16
  BY DEF LengthExtraBits
<1>2. \A c \in 1 .. 28 : LengthBase[c + 1] <= LengthBase[c] + Power[LengthExtraBits[c] + 1]
  BY DEF Power, LengthBase, LengthExtraBits
<1>3. Farthest < LengthBase[29] + Power[LengthExtraBits[29] + 1]
  BY SMT DEF Power, LengthBase, LengthExtraBits, Farthest
<1> QED
  BY <1>1, <1>2, <1>3

LEMMA DistanceWidths ==
  /\ \A c \in 1 .. 32 : DistanceExtraBits[c] \in 0 .. 16
  /\ \A c \in 1 .. 31 : DistanceBase[c + 1] <= DistanceBase[c] + Power[DistanceExtraBits[c] + 1]
  /\ Farthest < DistanceBase[32] + Power[DistanceExtraBits[32] + 1]
<1>1. \A c \in 1 .. 32 : DistanceExtraBits[c] \in 0 .. 16
  BY DEF DistanceExtraBits
<1>2. \A c \in 1 .. 31 : DistanceBase[c + 1] <= DistanceBase[c] + Power[DistanceExtraBits[c] + 1]
  BY DEF Power, DistanceBase, DistanceExtraBits
<1>3. Farthest < DistanceBase[32] + Power[DistanceExtraBits[32] + 1]
  BY SMT DEF Power, DistanceBase, DistanceExtraBits, Farthest
<1> QED
  BY <1>1, <1>2, <1>3

(* `partition_point` on a table that grows: the class is the last entry    *)
(* that is reached.                                                        *)
LEMMA ClassIs ==
  ASSUME NEW base, NEW c \in 1 .. Len(base), NEW n \in Nat,
         Len(base) \in Nat, base \in [1 .. Len(base) -> Nat],
         \A i, j \in 1 .. Len(base) : i <= j => base[i] <= base[j],
         base[c] <= n, c < Len(base) => n < base[c + 1]
  PROVE  Class(base, n) = c
<1>1. ASSUME NEW i \in 1 .. Len(base) PROVE base[i] <= n <=> i <= c
  <2>1. base[i] \in Nat /\ base[c] \in Nat
    OBVIOUS
  <2>2. CASE i <= c
    <3>1. base[i] <= base[c]
      BY <2>2
    <3> QED
      BY <2>1, <2>2, <3>1
  <2>3. CASE ~(i <= c)
    <3>1. c + 1 \in 1 .. Len(base) /\ c + 1 <= i
      BY <2>3
    <3>2. base[c + 1] <= base[i] /\ n < base[c + 1] /\ base[c + 1] \in Nat
      BY <3>1
    <3> QED
      BY <2>1, <2>3, <3>2
  <2> QED
    BY <2>2, <2>3
<1>2. {i \in 1 .. Len(base) : base[i] <= n} = 1 .. c
  BY <1>1
<1>3. Cardinality(1 .. c) = c
  BY FS_Interval
<1> QED
  BY <1>2, <1>3 DEF Class

LEMMA SmallMod ==
  ASSUME NEW w \in Nat \ {0}, NEW x \in 0 .. w - 1
  PROVE  x % w = x
OBVIOUS

(* The extra bits tell a value from the others of its class.               *)
LEMMA ClassOf ==
  ASSUME NEW m \in Nat, NEW base \in [1 .. m -> Nat], Len(base) = m,
         NEW width \in [1 .. m -> Nat \ {0}], NEW n \in Nat,
         \A i, j \in 1 .. m : i <= j => base[i] <= base[j],
         \A c \in 1 .. m - 1 : base[c + 1] <= base[c] + width[c],
         \E c \in 1 .. m : base[c] <= n /\ (c < m => n < base[c + 1]),
         n < base[m] + width[m]
  PROVE  \E c \in 1 .. m : Class(base, n) = c /\ (n - base[c]) % width[c] = n - base[c]
                              /\ base[c] <= n
<1>1. PICK c \in 1 .. m : base[c] <= n /\ (c < m => n < base[c + 1])
  OBVIOUS
<1>2. Class(base, n) = c
  BY <1>1, ClassIs
<1>3. base[c] \in Nat /\ width[c] \in Nat \ {0}
  OBVIOUS
<1>4. n - base[c] < width[c]
  <2>1. CASE c < m
    <3>1. c \in 1 .. m - 1 /\ c + 1 \in 1 .. m
      BY <2>1
    <3>2. base[c + 1] <= base[c] + width[c] /\ base[c + 1] \in Nat
      BY <3>1
    <3>3. n < base[c + 1]
      BY <1>1, <2>1
    <3> DEFINE a == base[c]
               b == base[c + 1]
               w == width[c]
    <3>4. a \in Nat /\ b \in Nat /\ w \in Nat /\ b <= a + w /\ n < b
      BY <1>3, <3>2, <3>3
    <3> HIDE DEF a, b, w
    <3>5. n - a < w
      BY <3>4
    <3> QED
      BY <3>5 DEF a, w
  <2>2. CASE c = m
    BY <1>3, <2>2
  <2> QED
    BY <2>1, <2>2
<1>5. n - base[c] \in 0 .. width[c] - 1
  BY <1>1, <1>3, <1>4, SMTT(30)
<1>6. (n - base[c]) % width[c] = n - base[c]
  BY <1>3, <1>5, SmallMod
<1> QED
  BY <1>1, <1>2, <1>6

(* What a symbol says when it is decoded.                                  *)
LengthOf(s) == LengthBase[s.value] + s.extra
DistanceOf(s) == DistanceBase[s.value] + s.extra

(* A length, or a distance, survives its symbol.                           *)
LEMMA LengthExact ==
  ASSUME NEW n \in 3 .. Farthest
  PROVE  /\ LengthSymbol(n) \in Symbol /\ Readable(LengthSymbol(n))
         /\ LengthSymbol(n).kind = "length" /\ LengthOf(LengthSymbol(n)) = n
<1> DEFINE width == [c \in 1 .. 29 |-> Power[LengthExtraBits[c] + 1]]
<1>0. n \in Nat /\ n >= 3 /\ n <= Farthest /\ Farthest \in Nat
  BY FarthestNat
<1>1. \E c \in 1 .. 29 : LengthBase[c] <= n /\ (c < 29 => n < LengthBase[c + 1])
  BY <1>0 DEF LengthBase
<1>2. /\ width \in [1 .. 29 -> Nat \ {0}]
      /\ \A c \in 1 .. 29 - 1 : LengthBase[c + 1] <= LengthBase[c] + width[c]
      /\ Farthest < LengthBase[29] + width[29] /\ LengthBase[29] + width[29] \in Nat
  <2>1. \A c \in 1 .. 29 : Power[LengthExtraBits[c] + 1] \in Nat \ {0}
    BY LengthWidths, PowerPositive
  <2>2. width \in [1 .. 29 -> Nat \ {0}] /\ width[29] = Power[LengthExtraBits[29] + 1]
    BY <2>1
  <2>3. \A c \in 1 .. 29 - 1 : LengthBase[c + 1] <= LengthBase[c] + width[c]
    BY LengthWidths
  <2> HIDE DEF width
  <2>4. LengthBase[29] + width[29] \in Nat
    BY <2>2, LengthTable
  <2> QED
    BY <2>2, <2>3, <2>4, LengthWidths
<1>3. \A c \in 1 .. 29 : width[c] = 2 ^ LengthExtraBits[c]
  BY LengthWidths, PowersOf2
<1> HIDE DEF width
<1>4. PICK c \in 1 .. 29 : /\ Class(LengthBase, n) = c
                           /\ (n - LengthBase[c]) % width[c] = n - LengthBase[c]
                           /\ LengthBase[c] <= n
  <2>1. 29 \in Nat /\ n < LengthBase[29] + width[29]
    BY <1>0, <1>2, SMT
  <2> QED
    BY <1>0, <1>1, <1>2, <2>1, LengthTable, ClassOf
<1>5. LengthBase[c] \in Nat
  BY LengthTable
<1>6. LengthSymbol(n) = [kind |-> "length", value |-> c, extra |-> n - LengthBase[c]]
  BY <1>3, <1>4 DEF LengthSymbol
<1>7. n - LengthBase[c] \in Nat /\ c \in Nat /\ LengthBase[c] + (n - LengthBase[c]) = n
  BY <1>0, <1>4, <1>5
<1> QED
  BY <1>6, <1>7 DEF Symbol, Kinds, Readable, LengthOf

LEMMA DistanceExact ==
  ASSUME NEW n \in 1 .. Farthest
  PROVE  /\ DistanceSymbol(n) \in Symbol /\ Readable(DistanceSymbol(n))
         /\ DistanceSymbol(n).kind = "distance" /\ DistanceOf(DistanceSymbol(n)) = n
<1> DEFINE width == [c \in 1 .. 32 |-> Power[DistanceExtraBits[c] + 1]]
<1>0. n \in Nat /\ n >= 1 /\ n <= Farthest /\ Farthest \in Nat
  BY FarthestNat
<1>1. \E c \in 1 .. 32 : DistanceBase[c] <= n /\ (c < 32 => n < DistanceBase[c + 1])
  BY <1>0 DEF DistanceBase
<1>2. /\ width \in [1 .. 32 -> Nat \ {0}]
      /\ \A c \in 1 .. 32 - 1 : DistanceBase[c + 1] <= DistanceBase[c] + width[c]
      /\ Farthest < DistanceBase[32] + width[32] /\ DistanceBase[32] + width[32] \in Nat
  <2>1. \A c \in 1 .. 32 : Power[DistanceExtraBits[c] + 1] \in Nat \ {0}
    BY DistanceWidths, PowerPositive
  <2>2. width \in [1 .. 32 -> Nat \ {0}] /\ width[32] = Power[DistanceExtraBits[32] + 1]
    BY <2>1
  <2>3. \A c \in 1 .. 32 - 1 : DistanceBase[c + 1] <= DistanceBase[c] + width[c]
    BY DistanceWidths
  <2> HIDE DEF width
  <2>4. DistanceBase[32] + width[32] \in Nat
    BY <2>2, DistanceTable
  <2> QED
    BY <2>2, <2>3, <2>4, DistanceWidths
<1>3. \A c \in 1 .. 32 : width[c] = 2 ^ DistanceExtraBits[c]
  BY DistanceWidths, PowersOf2
<1> HIDE DEF width
<1>4. PICK c \in 1 .. 32 : /\ Class(DistanceBase, n) = c
                           /\ (n - DistanceBase[c]) % width[c] = n - DistanceBase[c]
                           /\ DistanceBase[c] <= n
  <2>1. 32 \in Nat /\ n < DistanceBase[32] + width[32]
    BY <1>0, <1>2, SMT
  <2> QED
    BY <1>0, <1>1, <1>2, <2>1, DistanceTable, ClassOf
<1>5. DistanceBase[c] \in Nat
  BY DistanceTable
<1>6. DistanceSymbol(n) = [kind |-> "distance", value |-> c, extra |-> n - DistanceBase[c]]
  BY <1>3, <1>4 DEF DistanceSymbol
<1>7. n - DistanceBase[c] \in Nat /\ c \in Nat /\ DistanceBase[c] + (n - DistanceBase[c]) = n
  BY <1>0, <1>4, <1>5
<1> QED
  BY <1>6, <1>7 DEF Symbol, Kinds, Readable, DistanceOf

LEMMA DecodedLength ==
  ASSUME NEW s \in Symbol, s.kind = "length", Readable(s)
  PROVE  LengthOf(s) \in Nat
<1>1. s.value \in 1 .. 29 /\ s.extra \in Nat
  BY DEF Readable, Symbol
<1>2. LengthBase[s.value] \in Nat
  BY <1>1, LengthTable
<1> QED
  BY <1>1, <1>2 DEF LengthOf

LEMMA DecodedDistance ==
  ASSUME NEW s \in Symbol, s.kind = "distance", Readable(s)
  PROVE  DistanceOf(s) \in Nat \ {0}
<1>1. s.value \in 1 .. 32 /\ s.extra \in Nat
  BY DEF Readable, Symbol
<1>2. DistanceBase[s.value] \in Nat /\ DistanceBase[s.value] >= 1
  BY <1>1, DistanceTable
<1> QED
  BY <1>1, <1>2 DEF DistanceOf

LEMMA LiteralOK ==
  ASSUME NEW b \in Byte
  PROVE  Literal(b) \in Symbol /\ Readable(Literal(b))
BY ByteAssumption DEF Literal, Symbol, Kinds, Readable

LEMMA BareOK ==
  ASSUME NEW k \in {"eob", "invalid", "torn"}
  PROVE  Bare(k) \in Symbol /\ Readable(Bare(k))
BY DEF Bare, Symbol, Kinds, Readable

(* Readable symbols stay so when readable ones are appended.               *)
LEMMA AppendReadable ==
  ASSUME NEW s \in Seq(Symbol), NEW t \in Seq(Symbol),
         \A k \in 1 .. Len(s) : Readable(s[k]),
         \A k \in 1 .. Len(t) : Readable(t[k])
  PROVE  s \o t \in Seq(Symbol) /\ \A k \in 1 .. Len(s \o t) : Readable((s \o t)[k])
<1>1. /\ s \o t \in Seq(Symbol) /\ Len(s \o t) = Len(s) + Len(t)
      /\ Len(s) \in Nat /\ Len(t) \in Nat
  BY ConcatProperties, LenProperties
<1>2. ASSUME NEW k \in 1 .. Len(s) + Len(t) PROVE Readable((s \o t)[k])
  <2>1. (s \o t)[k] = IF k <= Len(s) THEN s[k] ELSE t[k - Len(s)]
    BY ConcatProperties
  <2>2. CASE k <= Len(s)
    BY <1>1, <2>1, <2>2
  <2>3. CASE ~(k <= Len(s))
    <3>1. k - Len(s) \in 1 .. Len(t)
      BY <1>1, <2>3
    <3> QED
      BY <2>1, <2>3, <3>1
  <2> QED
    BY <2>2, <2>3
<1> QED
  BY <1>1, <1>2

LEMMA AppendOne ==
  ASSUME NEW S, NEW s \in Seq(S), NEW x \in S
  PROVE  /\ Append(s, x) = s \o <<x>>
         /\ <<x>> \in Seq(S) /\ Len(<<x>>) = 1 /\ <<x>>[1] = x
<1>1. Append(s, x) = s \o <<x>>
  BY AppendIsConcat, Zenon
<1> QED
  BY <1>1

(* The slot that a search looks into, and what it leaves there.            *)
LEMMA SlotOK ==
  ASSUME TypeOK, NEW i \in Nat, i + 4 <= Len(data)
  PROVE  HashAt(i) \in Slot /\ table[HashAt(i)] \in Nat
<1>1. \A k \in 1 .. 4 : data[i + k] \in Byte
  <2>1. \A k \in 1 .. 4 : i + k \in 1 .. Len(data)
    OBVIOUS
  <2> QED
    BY <2>1, ElementOfSeq DEF TypeOK
<1>2. [k \in 1 .. 4 |-> data[i + k]] \in [1 .. 4 -> Byte]
  BY <1>1
<1>3. HashAt(i) \in Slot
  BY <1>2, HashAssumption DEF HashAt
<1> QED
  BY <1>3 DEF TypeOK

LEMMA RememberedOK ==
  ASSUME TypeOK, SearchLooksBack, CanSearch, NEW n \in Nat, n > ip
  PROVE  Remembered \in [Slot -> Nat] /\ \A h \in Slot : Remembered[h] <= n
<1>1. Remembered = [table EXCEPT ![HashAt(ip)] = ip + 1]
  BY DEF Remembered
<1>2. ip \in Nat /\ ip + 1 \in Nat /\ table \in [Slot -> Nat]
  BY DEF TypeOK
<1>3. Remembered \in [Slot -> Nat]
  BY <1>1, <1>2, Zenon
<1>4. ASSUME NEW h \in Slot PROVE Remembered[h] <= n
  <2>1. table[h] <= ip /\ table[h] \in Nat
    BY <1>2 DEF SearchLooksBack
  <2>2. Remembered[h] = ip + 1 \/ Remembered[h] = table[h]
    BY <1>1, <1>2
  <2> QED
    BY <1>2, <2>1, <2>2
<1> QED
  BY <1>3, <1>4

(* A copy takes its bytes from what is decoded already, also one that runs *)
(* into itself.                                                            *)
LEMMA CopyOK ==
  ASSUME TypeOK, NEW distance \in 1 .. Len(decoded)
  PROVE  CopyFrom(distance) \in Seq(Byte) /\ Len(CopyFrom(distance)) = length
<1>1. Len(decoded) \in Nat /\ length \in Nat
  BY LenProperties DEF TypeOK
<1>2. ASSUME NEW i \in 1 .. length
      PROVE  decoded[Len(decoded) - distance + 1 + ((i - 1) % distance)] \in Byte
  <2>0. i - 1 \in Nat /\ distance \in Nat \ {0}
    BY <1>1
  <2>1. (i - 1) % distance \in 0 .. distance - 1
    BY <2>0
  <2>2. Len(decoded) - distance + 1 + ((i - 1) % distance) \in 1 .. Len(decoded)
    BY <1>1, <2>1
  <2> QED
    BY <2>2, ElementOfSeq DEF TypeOK
<1>3. CopyFrom(distance) \in [1 .. length -> Byte]
  BY <1>2 DEF CopyFrom
<1> QED
  BY <1>1, <1>3, SeqDef

LEMMA SymOK ==
  ASSUME IInv
  PROVE  Sym \in Symbol /\ Readable(Sym) /\ Consumed \in 0 .. Len(symbols)
<1>1. Len(symbols) \in Nat /\ cursor \in 0 .. Len(symbols)
  BY LenProperties DEF IInv, TypeOK
<1>2. cursor < Len(symbols) => symbols[cursor + 1] \in Symbol /\ Readable(symbols[cursor + 1])
  <2>1. cursor < Len(symbols) => cursor + 1 \in 1 .. Len(symbols)
    BY <1>1
  <2> QED
    BY <2>1, ElementOfSeq DEF IInv, TypeOK
<1>3. /\ padding.symbol \in Symbol /\ Readable(padding.symbol)
      /\ padding.distance \in Symbol /\ Readable(padding.distance)
  BY DEF IInv, TypeOK
<1>4. Sym \in Symbol /\ Readable(Sym)
  BY <1>2, <1>3 DEF Sym
<1> QED
  BY <1>1, <1>4 DEF Consumed

-----------------------------------------------------------------------------
LEMMA InitIInv == Init => IInv
<1> SUFFICES ASSUME Init PROVE IInv
  OBVIOUS
<1>1. data \in Seq(Byte) /\ expected \in Nat /\ Len(data) \in Nat
  <2>1. data \in Seq(Byte)
    BY CallsAssumption, EmptySeq DEF Init
  <2>2. Len(data) \in Nat
    BY <2>1, LenProperties
  <2> QED
    BY <2>1, <2>2, CallsAssumption DEF Init
<1>2. decoded \in Seq(Byte) /\ Len(decoded) = 0 /\ decoded = <<>>
  BY EmptySeq DEF Init
<1>3. symbols \in Seq(Symbol) /\ \A k \in 1 .. Len(symbols) : Readable(symbols[k])
  <2>1. CASE symbols = <<>>
    BY <2>1, EmptySeq
  <2>2. CASE symbols \in Payloads
    BY <2>2, CallsAssumption
  <2> QED
    BY <2>1, <2>2 DEF Init
<1>4. /\ padding \in [symbol : Symbol, distance : Symbol]
      /\ Readable(padding.symbol) /\ Readable(padding.distance)
  <2>1. CASE padding = NoPadding
    BY <2>1, BareOK DEF NoPadding
  <2>2. CASE padding \in Paddings
    BY <2>2, CallsAssumption
  <2> QED
    BY <2>1, <2>2 DEF Init
<1>5. TypeOK
  <2>1. table \in [Slot -> Nat]
    BY DEF Init
  <2>2. Len(symbols) \in Nat
    BY <1>3, LenProperties
  <2> QED
    BY <1>1, <1>2, <1>3, <1>4, <2>1, <2>2 DEF Init, TypeOK
<1>6. SearchLooksBack
  BY <1>1 DEF Init, SearchLooksBack
<1>7. DecoderStaysInBounds
  BY <1>1, <1>2 DEF Init, DecoderStaysInBounds
<1> QED
  BY <1>2, <1>3, <1>4, <1>5, <1>6, <1>7 DEF Init, IInv

(* The length of the match that a search finds.                            *)
LEMMA MatchLengthOK ==
  ASSUME TypeOK, NEW i \in Nat, i <= Len(data), NEW m \in MatchLengths(i)
  PROVE  m \in 3 .. Farthest /\ m \in Nat /\ i + m <= Len(data)
<1>1. Len(data) \in Nat
  BY LenProperties DEF TypeOK
<1>2. MaxMatchLen \in Nat /\ MaxMatchLen <= Farthest /\ Farthest \in Nat
  BY LimitsAssumption, FarthestNat
<1>3. \/ m \in 3 .. Len(data) - i /\ Len(data) - i < MaxMatchLen
      \/ m \in 3 .. MaxMatchLen /\ ~(Len(data) - i < MaxMatchLen)
  BY DEF MatchLengths
<1> QED
  BY <1>1, <1>2, <1>3

(* What a match says of the data.                                          *)
LEMMA MatchOK ==
  ASSUME TypeOK, SearchLooksBack, CanSearch, Matches(ip, Previous)
  PROVE  /\ Previous \in Nat /\ Previous < ip
         /\ ip - Previous \in 1 .. Farthest
<1>1. table[HashAt(ip)] \in Nat /\ ip \in Nat
  BY SlotOK DEF TypeOK, CanSearch
<1>2. Previous \in Nat /\ Previous < ip
  BY <1>1 DEF Previous, Matches
<1>3. MaxOffset \in Nat /\ MaxOffset <= Farthest /\ Farthest \in Nat
  BY LimitsAssumption, FarthestNat
<1>4. ip - Previous <= MaxOffset
  BY DEF Matches
<1> QED
  BY <1>1, <1>2, <1>3, <1>4

(* The tokenizer appends readable symbols, and nothing is read from them   *)
(* yet.                                                                    *)
LEMMA EncodeIInv == IInv /\ Encode => IInv'
<1> SUFFICES ASSUME IInv, Encode PROVE IInv'
  OBVIOUS
<1>0. TypeOK /\ SearchLooksBack /\ DecoderStaysInBounds
  BY DEF IInv
<1>1. pc = "tokenize" /\ UNCHANGED <<data, codec, padding, expected, cursor, length, decoded, result>>
  BY DEF Encode, TokenizeMatch, TokenizeLazily, TokenizeLiteral, TokenizeTail, EndBlock,
    CanSearch, callVars, decoderVars
<1>2. cursor = 0 /\ decoded = <<>> /\ result = "none"
  BY <1>1 DEF IInv
<1>3. Len(data) \in Nat /\ ip \in Nat /\ ip <= Len(data) /\ symbols \in Seq(Symbol) /\ data \in Seq(Byte)
  BY <1>0, LenProperties DEF TypeOK, SearchLooksBack
<1> DEFINE Good(s) == s \in Seq(Symbol) /\ \A k \in 1 .. Len(s) : Readable(s[k])
<1>4. SUFFICES /\ pc' \in {"tokenize", "decode"}
               /\ ip' \in Nat
               /\ table' \in [Slot -> Nat]
               /\ Good(symbols')
               /\ SearchLooksBack'
  <2>1. Len(symbols') \in Nat
    BY <1>4, LenProperties
  <2>2. DecoderStaysInBounds'
    BY <1>0, <1>1, <1>2, <1>4 DEF DecoderStaysInBounds
  <2>3. TypeOK'
    BY <1>0, <1>1, <1>2, <1>4, <2>1 DEF TypeOK
  <2>4. (\A k \in 1 .. Len(symbols) : Readable(symbols[k]))'
    BY <1>4
  <2>5. (Readable(padding.symbol) /\ Readable(padding.distance))'
    BY <1>1 DEF IInv
  <2> QED
    BY <1>1, <1>2, <1>4, <2>2, <2>3, <2>4, <2>5 DEF IInv
<1>5. Good(symbols)
  BY DEF IInv, TypeOK
<1>6. ASSUME NEW x \in Symbol, Readable(x) PROVE Good(Append(symbols, x))
  <2>1. <<x>> \in Seq(Symbol) /\ \A k \in 1 .. Len(<<x>>) : Readable(<<x>>[k])
    BY <1>6, AppendOne
  <2>2. Good(symbols \o <<x>>)
    BY <1>5, <2>1, AppendReadable
  <2> QED
    BY <2>2, <1>3, AppendOne
<1>7. ASSUME ip < Len(data) PROVE Good(Append(symbols, Literal(data[ip + 1])))
  <2>1. data[ip + 1] \in Byte
    BY <1>3, <1>7, ElementOfSeq
  <2> QED
    BY <1>6, <2>1, LiteralOK
<1> HIDE DEF Good
<1>8. CASE TokenizeMatch
  <2>1. PICK m \in MatchLengths(ip) :
          /\ symbols' = symbols \o <<LengthSymbol(m), DistanceSymbol(ip - Previous)>>
          /\ ip' = ip + m
    BY <1>8 DEF TokenizeMatch
  <2>2. m \in 3 .. Farthest /\ m \in Nat /\ ip + m <= Len(data)
    BY <1>0, <1>3, <2>1, MatchLengthOK
  <2>3. CanSearch /\ Matches(ip, Previous) /\ pc' = "tokenize" /\ table' = Remembered
    BY <1>1, <1>8 DEF TokenizeMatch
  <2>4. ip - Previous \in 1 .. Farthest
    BY <1>0, <2>3, MatchOK
  <2> DEFINE l == LengthSymbol(m)
             d == DistanceSymbol(ip - Previous)
  <2>5. l \in Symbol /\ Readable(l) /\ d \in Symbol /\ Readable(d)
    BY <2>2, <2>4, LengthExact, DistanceExact
  <2> HIDE DEF l, d
  <2>6. <<l, d>> \in Seq(Symbol) /\ \A k \in 1 .. Len(<<l, d>>) : Readable(<<l, d>>[k])
    BY <2>5
  <2>7. Good(symbols \o <<l, d>>)
    BY <1>5, <2>6, AppendReadable DEF Good
  <2>8. Good(symbols')
    BY <2>1, <2>7 DEF l, d
  <2>9. m > 0 /\ ip + m > ip /\ ip + m \in Nat
    BY <1>3, <2>2, FarthestNat
  <2>10. Remembered \in [Slot -> Nat] /\ \A h \in Slot : Remembered[h] <= ip + m
    BY <1>0, <2>3, <2>9, RememberedOK
  <2> QED
    BY <1>1, <2>1, <2>2, <2>3, <2>8, <2>9, <2>10 DEF SearchLooksBack
<1>9. CASE TokenizeLazily \/ TokenizeLiteral
  <2>1. /\ CanSearch /\ pc' = "tokenize" /\ table' = Remembered /\ ip' = ip + 1
        /\ symbols' = Append(symbols, Literal(data[ip + 1]))
    BY <1>1, <1>9 DEF TokenizeLazily, TokenizeLiteral
  <2>2. ip + 1 \in Nat /\ ip + 1 > ip /\ ip + 1 <= Len(data) /\ ip < Len(data)
    BY <1>3, <2>1 DEF CanSearch
  <2>3. Remembered \in [Slot -> Nat] /\ \A h \in Slot : Remembered[h] <= ip + 1
    BY <1>0, <2>1, <2>2, RememberedOK
  <2> QED
    BY <1>1, <1>7, <2>1, <2>2, <2>3 DEF SearchLooksBack
<1>10. CASE TokenizeTail
  <2>1. /\ ip < Len(data) /\ pc' = "tokenize" /\ table' = table /\ ip' = ip + 1
        /\ symbols' = Append(symbols, Literal(data[ip + 1]))
    BY <1>1, <1>10 DEF TokenizeTail
  <2>2. table \in [Slot -> Nat] /\ \A h \in Slot : table[h] <= ip + 1
    BY <1>0, <1>3 DEF TypeOK, SearchLooksBack
  <2>3. ip + 1 \in Nat /\ ip + 1 <= Len(data)
    BY <1>3, <2>1
  <2> QED
    BY <1>1, <1>7, <2>1, <2>2, <2>3 DEF SearchLooksBack
<1>11. CASE EndBlock
  <2>1. pc' = "decode" /\ table' = table /\ ip' = ip
    BY <1>11 DEF EndBlock
  <2>2. Bare("eob") \in Symbol /\ Readable(Bare("eob"))
    BY BareOK
  <2>3. Good(Append(symbols, Bare("eob")))
    BY <1>6, <2>2
  <2>4. Good(<<>>)
    BY EmptySeq DEF Good
  <2>5. Good(symbols')
    BY <1>11, <2>3, <2>4, Zenon DEF EndBlock
  <2> QED
    BY <1>0, <1>1, <1>3, <2>1, <2>5 DEF SearchLooksBack, TypeOK
<1> QED
  BY <1>8, <1>9, <1>10, <1>11 DEF Encode

(* A step of the decoder consumes a symbol that it has room for; each case *)
(* shows what such a step must preserve.                                   *)
LEMMA DecodeIInv == IInv /\ Decode => IInv'
<1> SUFFICES ASSUME IInv, Decode PROVE IInv'
  OBVIOUS
<1>0. TypeOK /\ SearchLooksBack /\ DecoderStaysInBounds
  BY DEF IInv
<1>1. pc \in {"decode", "symbol", "distance"} /\ UNCHANGED <<data, ip, table, symbols, codec, padding, expected>>
  BY DEF Decode, DecodeStarts, ReadLiteral, ReadEndOfBlock, ReadLength, ReadDistance,
    ReadMisplaced, ReadTorn, Read, encoderVars, callVars
<1>2. result = "none"
  BY <1>1 DEF IInv
<1>3. /\ Len(symbols) \in Nat /\ Len(decoded) \in Nat /\ expected \in Nat
      /\ cursor \in 0 .. Len(symbols) /\ length \in Nat /\ decoded \in Seq(Byte)
      /\ Len(decoded) <= expected
  BY <1>0, LenProperties DEF TypeOK, DecoderStaysInBounds
<1>4. Sym \in Symbol /\ Readable(Sym) /\ Consumed \in 0 .. Len(symbols)
  BY SymOK
<1> DEFINE Errors == {"UnexpectedEof", "InvalidMatchLength", "InvalidOffset",
                      "CorruptedEntropyStream"}
           Bounded ==
      /\ \/ pc' \in {"symbol", "distance"} /\ result' = "none"
         \/ pc' = "done" /\ result' \in {"ok"} \cup Errors
      /\ cursor' \in 0 .. Len(symbols)
      /\ decoded' \in Seq(Byte) /\ Len(decoded') <= expected
      /\ length' \in Nat
      /\ pc' = "distance" => length' <= expected - Len(decoded')
      /\ result' = "ok" => Len(decoded') = expected
<1>5. SUFFICES Bounded
  <2>1. TypeOK'
    BY <1>0, <1>1, <1>5 DEF TypeOK
  <2>2. DecoderStaysInBounds'
    BY <1>1, <1>5 DEF DecoderStaysInBounds, Remaining
  <2>3. SearchLooksBack'
    BY <1>0, <1>1 DEF SearchLooksBack
  <2>4. /\ (\A k \in 1 .. Len(symbols) : Readable(symbols[k]))'
        /\ (Readable(padding.symbol) /\ Readable(padding.distance))'
    BY <1>1 DEF IInv
  <2> QED
    BY <1>5, <2>1, <2>2, <2>3, <2>4 DEF IInv
<1>6. CASE DecodeStarts
  <2>1. cursor = 0 /\ decoded = <<>> /\ Len(decoded) = 0
    BY <1>6, EmptySeq DEF IInv, DecodeStarts
  <2> QED
    BY <1>2, <1>3, <1>6, <2>1 DEF DecodeStarts, Return
<1>7. CASE ReadLiteral
  <2>1. cursor' = Consumed /\ length' = length /\ Sym.value \in Byte /\ pc = "symbol"
    BY <1>4, <1>7 DEF ReadLiteral, Read, Readable
  <2>2. CASE Remaining = 0
    BY <1>3, <1>4, <1>7, <2>1, <2>2 DEF ReadLiteral, Return
  <2>3. CASE Remaining # 0
    <3>1. decoded' = Append(decoded, Sym.value) /\ pc' = pc /\ result' = result
      BY <1>7, <2>3 DEF ReadLiteral
    <3>2. decoded' \in Seq(Byte) /\ Len(decoded') = Len(decoded) + 1
      BY <1>3, <2>1, <3>1, AppendProperties
    <3>3. Len(decoded) + 1 <= expected
      BY <1>3, <2>3 DEF Remaining
    <3> QED
      BY <1>2, <1>4, <2>1, <1>3, <3>1, <3>2, <3>3
  <2> QED
    BY <2>2, <2>3
<1>8. CASE ReadEndOfBlock
  BY <1>3, <1>4, <1>8 DEF ReadEndOfBlock, Read, Return
<1>9. CASE ReadLength
  <2>1. /\ cursor' = Consumed /\ decoded' = decoded /\ length' = LengthOf(Sym)
        /\ IF LengthOf(Sym) > Remaining THEN Return("InvalidMatchLength")
           ELSE pc' = "distance" /\ UNCHANGED result
    BY <1>9 DEF ReadLength, Read, LengthOf
  <2>2. LengthOf(Sym) \in Nat
    BY <1>4, <1>9, DecodedLength DEF ReadLength, Read
  <2> QED
    BY <1>2, <1>3, <1>4, <2>1, <2>2 DEF Return, Remaining
<1>10. CASE ReadDistance
  <2>1. /\ cursor' = Consumed /\ length' = length /\ pc = "distance"
        /\ IF DistanceOf(Sym) > Len(decoded)
             THEN Return("InvalidOffset") /\ UNCHANGED decoded
             ELSE decoded' = decoded \o CopyFrom(DistanceOf(Sym)) /\ pc' = "symbol"
                    /\ UNCHANGED result
    BY <1>10 DEF ReadDistance, Read, DistanceOf
  <2>2. DistanceOf(Sym) \in Nat \ {0}
    BY <1>4, <1>10, DecodedDistance DEF ReadDistance, Read
  <2>3. length <= expected - Len(decoded)
    BY <1>0, <2>1 DEF DecoderStaysInBounds, Remaining
  <2>4. CASE DistanceOf(Sym) > Len(decoded)
    BY <1>3, <1>4, <2>1, <2>4 DEF Return
  <2>5. CASE ~(DistanceOf(Sym) > Len(decoded))
    <3>1. DistanceOf(Sym) \in 1 .. Len(decoded)
      BY <1>3, <2>2, <2>5
    <3>2. CopyFrom(DistanceOf(Sym)) \in Seq(Byte) /\ Len(CopyFrom(DistanceOf(Sym))) = length
      BY <1>0, <3>1, CopyOK
    <3>3. decoded' \in Seq(Byte) /\ Len(decoded') = Len(decoded) + length
      BY <1>3, <2>1, <2>5, <3>2, ConcatProperties
    <3> QED
      BY <1>2, <1>3, <1>4, <2>1, <2>3, <2>5, <3>3
  <2> QED
    BY <2>4, <2>5
<1>11. CASE ReadMisplaced \/ ReadTorn
  BY <1>3, <1>4, <1>11 DEF ReadMisplaced, ReadTorn, Read, Return
<1> QED
  BY <1>6, <1>7, <1>8, <1>9, <1>10, <1>11 DEF Decode

LEMMA SpecIInv == Spec => []IInv
<1>1. IInv /\ [Next]_vars => IInv'
  <2> SUFFICES ASSUME IInv, Next \/ UNCHANGED vars PROVE IInv'
    OBVIOUS
  <2>1. CASE Done \/ UNCHANGED vars
    BY <2>1 DEF Done, vars, encoderVars, callVars, decoderVars, IInv, TypeOK,
      SearchLooksBack, DecoderStaysInBounds, Remaining
  <2> QED
    BY <2>1, EncodeIInv, DecodeIInv DEF Next
<1> QED
  BY <1>1, InitIInv, PTL DEF Spec

(* The tokenizer's `ip - ref_pos` and the lazy step's `(ip + 1) - ref_next`*)
(* never underflow, for any data, hash function and limits.                *)
THEOREM LzSearchLooksBack == Spec => []SearchLooksBack
BY SpecIInv, PTL DEF IInv

(* decode's output never exceeds expected_len, at any moment and on any    *)
(* symbols, and is accepted only when it has exactly that length.          *)
THEOREM LzDecoderStaysInBounds == Spec => []DecoderStaysInBounds
BY SpecIInv, PTL DEF IInv
-----------------------------------------------------------------------------
(* What the tokenizer emits stands for its input: there are positions pos, *)
(* the k-th symbol covers the data from pos[k] to pos[k + 1], and a length *)
(* covers nothing but is followed by the distance that it belongs to.      *)
Covers(pos, k) ==
  LET s == symbols[k] IN
  \/ /\ s.kind = "literal"
     /\ pos[k] < Len(data) /\ s.value = data[pos[k] + 1]
     /\ pos[k + 1] = pos[k] + 1
  \/ /\ s.kind = "length"
     /\ k < Len(symbols) /\ symbols[k + 1].kind = "distance"
     /\ pos[k + 1] = pos[k]
  \/ /\ s.kind = "distance"
     /\ k > 1 /\ symbols[k - 1].kind = "length"
     /\ LET len == LengthOf(symbols[k - 1])
            distance == DistanceOf(s)
        IN /\ distance <= pos[k]
           /\ pos[k + 1] = pos[k] + len /\ pos[k + 1] <= Len(data)
           /\ \A j \in 1 .. len : data[pos[k] - distance + j] = data[pos[k] + j]
  \/ /\ s.kind = "eob"
     /\ pc # "tokenize" /\ k = Len(symbols)
     /\ pos[k] = Len(data) /\ pos[k + 1] = pos[k]

Parse(pos) ==
  /\ pos \in [1 .. Len(symbols) + 1 -> 0 .. Len(data)]
  /\ pos[1] = 0
  /\ \A k \in 1 .. Len(symbols) : Covers(pos, k)

(* The tokenizer has covered its input up to ip, and the decoder restored  *)
(* it up to the symbol that it reads next.                                 *)
InStep(pos) ==
  /\ pc = "tokenize" => pos[Len(symbols) + 1] = ip
  /\ pc # "tokenize" => symbols # <<>> /\ symbols[Len(symbols)].kind = "eob"
  /\ pc \in {"decode", "symbol"} =>
       cursor < Len(symbols) /\ symbols[cursor + 1].kind # "distance"
  /\ pc = "distance" =>
       /\ cursor \in 1 .. Len(symbols) - 1 /\ symbols[cursor].kind = "length"
       /\ length = LengthOf(symbols[cursor])
  /\ pc \in {"decode", "symbol", "distance"} => decoded = SubSeq(data, 1, pos[cursor + 1])
  /\ pc = "done" => result = "ok" /\ decoded = data

RInv ==
  /\ IInv
  /\ data # <<>> => expected = Len(data) /\ \E pos : Parse(pos) /\ InStep(pos)

(* Symbols that are appended leave the ones before them where they were.   *)
LEMMA StillCovers ==
  ASSUME TypeOK, pc = "tokenize", data' = data,
         NEW t \in Seq(Symbol), symbols' = symbols \o t,
         NEW pos, Parse(pos),
         NEW q, \A k \in 1 .. Len(symbols) + 1 : q[k] = pos[k],
         NEW k \in 1 .. Len(symbols)
  PROVE  Covers(q, k)'
<1>1. /\ Len(symbols) \in Nat /\ Len(t) \in Nat /\ symbols \in Seq(Symbol)
      /\ Len(symbols') = Len(symbols) + Len(t)
  BY LenProperties, ConcatProperties DEF TypeOK
<1>2. \A i \in 1 .. Len(symbols) : symbols'[i] = symbols[i]
  BY <1>1, ConcatProperties
<1>3. symbols'[k] = symbols[k] /\ q[k] = pos[k] /\ q[k + 1] = pos[k + 1]
  <2>1. k \in 1 .. Len(symbols) + 1 /\ k + 1 \in 1 .. Len(symbols) + 1
    BY <1>1
  <2> QED
    BY <1>2, <2>1
<1>4. k < Len(symbols) => k < Len(symbols') /\ symbols'[k + 1] = symbols[k + 1]
  BY <1>1, <1>2
<1>5. k > 1 => symbols'[k - 1] = symbols[k - 1]
  BY <1>1, <1>2
<1>6. Covers(pos, k)
  BY DEF Parse
<1> QED
  BY <1>3, <1>4, <1>5, <1>6 DEF Covers, LengthOf, DistanceOf

LEMMA InitRInv == Init => RInv
<1> SUFFICES ASSUME Init, data # <<>>
             PROVE  expected = Len(data) /\ \E pos : Parse(pos) /\ InStep(pos)
  BY InitIInv DEF RInv
<1>1. /\ pc = "tokenize" /\ expected = Len(data) /\ symbols = <<>> /\ ip = 0
      /\ Len(symbols) = 0
  BY EmptySeq DEF Init
<1>2. Len(data) \in Nat
  BY LenProperties, InitIInv DEF IInv, TypeOK
<1> DEFINE pos == [k \in 1 .. 1 |-> 0]
<1>3. Parse(pos)
  BY <1>1, <1>2 DEF Parse
<1>4. InStep(pos)
  BY <1>1 DEF InStep
<1> QED
  BY <1>1, <1>3, <1>4

LEMMA EncodeRInv == RInv /\ Encode => RInv'
<1> SUFFICES ASSUME RInv, Encode, data' # <<>>
             PROVE  (expected = Len(data))' /\ \E pos : Parse(pos)' /\ InStep(pos)'
  BY EncodeIInv DEF RInv
<1>0. IInv /\ IInv' /\ TypeOK /\ SearchLooksBack
  BY EncodeIInv DEF RInv, IInv
<1>1. pc = "tokenize" /\ UNCHANGED <<data, expected, cursor, decoded>>
  BY DEF Encode, TokenizeMatch, TokenizeLazily, TokenizeLiteral, TokenizeTail, EndBlock,
    CanSearch, callVars, decoderVars
<1>2. cursor = 0 /\ decoded = <<>>
  BY <1>0, <1>1 DEF IInv
<1>3. /\ Len(data) \in Nat /\ ip \in Nat /\ ip <= Len(data)
      /\ symbols \in Seq(Symbol) /\ data \in Seq(Byte) /\ Len(symbols) \in Nat
  BY <1>0, LenProperties DEF TypeOK, SearchLooksBack
<1>4. PICK pos : Parse(pos) /\ InStep(pos)
  BY <1>1 DEF RInv
<1>5. expected' = Len(data')
  BY <1>1 DEF RInv
<1>6. /\ pos \in [1 .. Len(symbols) + 1 -> 0 .. Len(data)]
      /\ pos[1] = 0 /\ pos[Len(symbols) + 1] = ip
  BY <1>1, <1>4 DEF Parse, InStep
<1>n. PICK n \in Nat : n = Len(symbols)
  BY <1>3
(* A symbol x that takes the data up to position to.                       *)
<1>7. ASSUME NEW x \in Symbol, symbols' = Append(symbols, x), NEW to \in 0 .. Len(data),
             NEW q, q = [k \in 1 .. n + 2 |-> IF k <= n + 1 THEN pos[k] ELSE to]
      PROVE  /\ Len(symbols') = n + 1 /\ symbols'[n + 1] = x
             /\ q[1] = 0 /\ q[n + 1] = ip /\ q[n + 2] = to
             /\ Covers(q, n + 1)' => Parse(q)'
  <2>1. symbols' = symbols \o <<x>> /\ <<x>> \in Seq(Symbol)
    BY <1>3, <1>7, AppendOne
  <2>2. Len(symbols') = n + 1 /\ symbols'[n + 1] = x
    BY <1>3, <1>n, <1>7, AppendProperties
  <2>3. /\ q \in [1 .. n + 2 -> 0 .. Len(data)]
        /\ \A k \in 1 .. n + 1 : q[k] = pos[k]
        /\ q[n + 2] = to
    BY <1>3, <1>n, <1>6, <1>7
  <2>4. n + 1 \in 1 .. n + 1 /\ 1 \in 1 .. n + 1
    BY <1>3
  <2>5. q[n + 1] = ip /\ q[1] = 0
    BY <1>6, <1>n, <2>3, <2>4
  <2>6. ASSUME NEW k \in 1 .. n PROVE Covers(q, k)'
    BY <1>0, <1>1, <1>4, <1>n, <2>1, <2>3, StillCovers
  <2>7. ASSUME Covers(q, n + 1)' PROVE Parse(q)'
    <3>1. \A k \in 1 .. n + 1 : Covers(q, k)'
      <4>1. \A k \in 1 .. n + 1 : k \in 1 .. n \/ k = n + 1
        BY <1>3
      <4> QED
        BY <2>6, <2>7, <4>1
    <3>2. n + 2 = n + 1 + 1
      BY <1>3
    <3> QED
      BY <1>1, <2>2, <2>3, <2>5, <3>1, <3>2 DEF Parse
  <2> QED
    BY <2>2, <2>3, <2>5, <2>7
<1>8. CASE TokenizeMatch
  <2>1. PICK m \in MatchLengths(ip) :
          /\ IsMatchLength(ip, Previous, m)
          /\ symbols' = symbols \o <<LengthSymbol(m), DistanceSymbol(ip - Previous)>>
          /\ ip' = ip + m
    BY <1>8 DEF TokenizeMatch
  <2>2. m \in 3 .. Farthest /\ m \in Nat /\ ip + m <= Len(data)
    BY <1>0, <1>3, <2>1, MatchLengthOK
  <2>3. CanSearch /\ Matches(ip, Previous) /\ pc' = "tokenize"
    BY <1>1, <1>8 DEF TokenizeMatch
  <2>4. Previous \in Nat /\ Previous < ip /\ ip - Previous \in 1 .. Farthest
    BY <1>0, <2>3, MatchOK
  <2> DEFINE l == LengthSymbol(m)
             d == DistanceSymbol(ip - Previous)
             t == <<l, d>>
  <2>5. /\ l \in Symbol /\ l.kind = "length" /\ LengthOf(l) = m
        /\ d \in Symbol /\ d.kind = "distance" /\ DistanceOf(d) = ip - Previous
    BY <2>2, <2>4, LengthExact, DistanceExact
  <2> HIDE DEF l, d
  <2>6. t \in Seq(Symbol) /\ Len(t) = 2 /\ t[1] = l /\ t[2] = d
    BY <2>5
  <2>7. symbols' = symbols \o t
    BY <2>1 DEF l, d
  <2> HIDE DEF t
  <2>8. Len(symbols') = n + 2 /\ symbols'[n + 1] = l /\ symbols'[n + 2] = d
    <3>1. /\ Len(symbols') = Len(symbols) + Len(t)
          /\ \A i \in 1 .. Len(symbols) + Len(t) :
               symbols'[i] = IF i <= Len(symbols) THEN symbols[i] ELSE t[i - Len(symbols)]
      BY <1>3, <2>6, <2>7, ConcatProperties
    <3>2. /\ n + 1 \in 1 .. Len(symbols) + Len(t) /\ ~(n + 1 <= Len(symbols))
          /\ n + 2 \in 1 .. Len(symbols) + Len(t) /\ ~(n + 2 <= Len(symbols))
          /\ n + 1 - Len(symbols) = 1 /\ n + 2 - Len(symbols) = 2
      BY <1>n, <2>6
    <3> QED
      BY <2>6, <3>1, <3>2
  <2>q. PICK q : q = [k \in 1 .. n + 3 |-> IF k <= n + 1 THEN pos[k]
                                          ELSE IF k = n + 2 THEN ip ELSE ip + m]
    OBVIOUS
  <2>9. /\ q \in [1 .. n + 3 -> 0 .. Len(data)]
        /\ \A k \in 1 .. n + 1 : q[k] = pos[k]
        /\ q[n + 2] = ip /\ q[n + 3] = ip + m
    BY <1>3, <1>6, <1>n, <2>2, <2>q
  <2>10. q[1] = 0 /\ q[n + 1] = ip
    <3>1. n + 1 \in 1 .. n + 1 /\ 1 \in 1 .. n + 1
      BY <1>3
    <3> QED
      BY <1>6, <1>n, <2>9, <3>1
  <2>11. ASSUME NEW k \in 1 .. n PROVE Covers(q, k)'
    BY <1>0, <1>1, <1>4, <1>n, <2>6, <2>7, <2>9, StillCovers
  <2>12. n + 1 + 1 = n + 2 /\ n + 2 - 1 = n + 1 /\ n + 2 + 1 = n + 3 /\ n + 2 > 1 /\ n + 1 < n + 2
    BY <1>3
  <2>13. Covers(q, n + 1)'
    BY <2>5, <2>8, <2>9, <2>10, <2>12 DEF Covers
  <2>14. Covers(q, n + 2)'
    <3>1. ip - (ip - Previous) = Previous
      BY <1>3, <2>4
    <3>2. \A j \in 1 .. m : data[ip - (ip - Previous) + j] = data[ip + j]
      BY <2>1, <3>1 DEF IsMatchLength
    <3>3. ip - Previous <= ip
      BY <1>3, <2>4
    <3> QED
      BY <1>1, <2>2, <2>5, <2>8, <2>9, <2>12, <3>2, <3>3 DEF Covers
  <2>15. Parse(q)'
    <3>1. \A k \in 1 .. n + 2 : k \in 1 .. n \/ k = n + 1 \/ k = n + 2
      BY <1>3
    <3> QED
      BY <1>1, <2>8, <2>9, <2>10, <2>11, <2>12, <2>13, <2>14, <3>1 DEF Parse
  <2>16. InStep(q)'
    BY <2>1, <2>3, <2>8, <2>9, <2>12 DEF InStep
  <2> QED
    BY <1>5, <2>15, <2>16
<1>9. CASE TokenizeLazily \/ TokenizeLiteral \/ TokenizeTail
  <2>1. /\ pc' = "tokenize" /\ ip' = ip + 1 /\ ip < Len(data)
        /\ symbols' = Append(symbols, Literal(data[ip + 1]))
    BY <1>1, <1>3, <1>9 DEF TokenizeLazily, TokenizeLiteral, TokenizeTail, CanSearch
  <2>2. data[ip + 1] \in Byte
    BY <1>3, <2>1, ElementOfSeq
  <2> DEFINE x == Literal(data[ip + 1])
  <2>q. PICK q : q = [k \in 1 .. n + 2 |-> IF k <= n + 1 THEN pos[k] ELSE ip + 1]
    OBVIOUS
  <2>3. x \in Symbol /\ x.kind = "literal" /\ x.value = data[ip + 1]
    BY <2>2, LiteralOK DEF Literal
  <2>4. ip + 1 \in 0 .. Len(data)
    BY <1>3, <2>1
  <2>5. symbols' = Append(symbols, x)
    BY <2>1
  <2> HIDE DEF x
  <2>6. /\ Len(symbols') = n + 1 /\ symbols'[n + 1] = x
        /\ q[n + 1] = ip /\ q[n + 2] = ip + 1
        /\ Covers(q, n + 1)' => Parse(q)'
    BY <1>7, <2>3, <2>4, <2>5, <2>q
  <2>7. n + 1 + 1 = n + 2
    BY <1>3
  <2>8. Covers(q, n + 1)'
    BY <1>1, <2>1, <2>3, <2>6, <2>7 DEF Covers
  <2>9. InStep(q)'
    BY <2>1, <2>6, <2>7 DEF InStep
  <2> QED
    BY <1>5, <2>6, <2>8, <2>9
<1>10. CASE EndBlock
  <2> DEFINE x == Bare("eob")
  <2>q. PICK q : q = [k \in 1 .. n + 2 |-> IF k <= n + 1 THEN pos[k] ELSE ip]
    OBVIOUS
  <2>1. pc' = "decode" /\ ip = Len(data) /\ symbols' = Append(symbols, x)
    BY <1>1, <1>10 DEF EndBlock
  <2>2. x \in Symbol /\ x.kind = "eob"
    BY BareOK DEF Bare
  <2>3. ip \in 0 .. Len(data)
    BY <1>3
  <2> HIDE DEF x
  <2>4. /\ Len(symbols') = n + 1 /\ symbols'[n + 1] = x
        /\ q[1] = 0 /\ q[n + 1] = ip /\ q[n + 2] = ip
        /\ Covers(q, n + 1)' => Parse(q)'
    BY <1>7, <2>1, <2>2, <2>3, <2>q, SMTT(30)
  <2>6. n + 1 + 1 = n + 2
    BY <1>3
  <2>7. Covers(q, n + 1)'
    BY <1>1, <2>1, <2>2, <2>4, <2>6 DEF Covers
  <2>8. Parse(q)'
    BY <2>4, <2>7
  <2>9. symbols' # <<>> /\ cursor' < Len(symbols') /\ symbols'[cursor' + 1].kind # "distance"
    <3>1. symbols' # <<>>
      BY <1>3, <2>1, <2>2, AppendProperties
    <3>2. cursor' = 0 /\ 0 < Len(symbols') /\ 1 \in 1 .. Len(symbols') /\ 0 + 1 = 1
      BY <1>1, <1>2, <1>3, <2>4
    <3>3. Covers(q, 1)'
      BY <2>8, <3>2 DEF Parse
    <3>4. symbols'[1].kind # "distance"
      BY <3>3 DEF Covers
    <3> QED
      BY <3>1, <3>2, <3>4
  <2>10. decoded' = SubSeq(data', 1, q[cursor' + 1])
    <3>1. cursor' + 1 = 1 /\ decoded' = <<>>
      BY <1>1, <1>2
    <3> QED
      BY <2>4, <3>1, SubSeqEmpty
  <2>11. InStep(q)'
    BY <2>1, <2>2, <2>4, <2>9, <2>10 DEF InStep
  <2> QED
    BY <1>5, <2>8, <2>11
<1> QED
  BY <1>8, <1>9, <1>10 DEF Encode

(* The decoder is never in want of a symbol, rejects none, and restores    *)
(* what the symbol covers.                                                 *)
LEMMA DecodeRInv == RInv /\ Decode => RInv'
<1> SUFFICES ASSUME RInv, Decode, data' # <<>>
             PROVE  (expected = Len(data))' /\ \E pos : Parse(pos)' /\ InStep(pos)'
  BY DecodeIInv DEF RInv
<1>0. IInv /\ TypeOK /\ DecoderStaysInBounds
  BY DEF RInv, IInv
<1>1. /\ pc \in {"decode", "symbol", "distance"}
      /\ pc' \in {"symbol", "distance", "done"}
      /\ UNCHANGED <<data, symbols, expected>>
  BY DEF Decode, DecodeStarts, ReadLiteral, ReadEndOfBlock, ReadLength, ReadDistance,
    ReadMisplaced, ReadTorn, Read, Return, encoderVars, callVars
<1>2. PICK pos : Parse(pos) /\ InStep(pos)
  BY <1>1 DEF RInv
<1>3. expected = Len(data) /\ expected' = Len(data')
  BY <1>1 DEF RInv
<1>4. /\ Len(data) \in Nat /\ data \in Seq(Byte)
      /\ symbols \in Seq(Symbol) /\ Len(symbols) \in Nat
      /\ cursor \in Nat /\ length \in Nat /\ decoded \in Seq(Byte) /\ Len(decoded) \in Nat
  BY <1>0, LenProperties DEF TypeOK
<1>5. PICK k \in Nat \ {0} : k = cursor + 1
  BY <1>4
<1>6. /\ k \in 1 .. Len(symbols) /\ cursor < Len(symbols) /\ cursor = k - 1
      /\ decoded = SubSeq(data, 1, pos[k])
  BY <1>1, <1>2, <1>4, <1>5 DEF InStep
<1>7. /\ pos \in [1 .. Len(symbols) + 1 -> 0 .. Len(data)] /\ pos[1] = 0
      /\ \A i \in 1 .. Len(symbols) : Covers(pos, i)
  BY <1>2 DEF Parse
<1>8. Parse(pos)'
  <2>1. ASSUME NEW i \in 1 .. Len(symbols) PROVE Covers(pos, i)'
    <3>1. Covers(pos, i)
      BY <1>7
    <3>2. pc' # "tokenize" /\ data' = data /\ symbols' = symbols
      BY <1>1
    <3> QED
      BY <3>1, <3>2 DEF Covers, LengthOf, DistanceOf
  <2> QED
    BY <1>1, <1>7, <2>1 DEF Parse
<1>9. pos[k] \in 0 .. Len(data) /\ pos[k + 1] \in 0 .. Len(data) /\ Len(decoded) = pos[k]
  <2>1. k \in 1 .. Len(symbols) + 1 /\ k + 1 \in 1 .. Len(symbols) + 1
    BY <1>4, <1>6
  <2>2. pos[k] \in 0 .. Len(data) /\ pos[k + 1] \in 0 .. Len(data)
    BY <1>7, <2>1
  <2>3. pos[k] \in 0 .. pos[k]
    BY <2>2
  <2> QED
    BY <1>4, <1>6, <2>2, <2>3, PrefixOfPrefix
<1>10. Sym = symbols[k] /\ Consumed = k /\ Covers(pos, k)
  BY <1>5, <1>6, <1>7 DEF Sym, Consumed
<1>11. symbols # <<>> /\ symbols[Len(symbols)].kind = "eob"
  BY <1>1, <1>2 DEF InStep
<1>12. k < Len(symbols) => Covers(pos, k + 1) /\ k + 1 \in 1 .. Len(symbols) /\ k + 1 - 1 = k
  <2>1. k < Len(symbols) => k + 1 \in 1 .. Len(symbols) /\ k + 1 - 1 = k
    BY <1>4, <1>6
  <2> QED
    BY <1>7, <2>1
(* What follows a symbol that is neither a length nor the end.             *)
<1>13. ASSUME symbols[k].kind \notin {"length", "eob"}
       PROVE  k < Len(symbols) /\ symbols[k + 1].kind # "distance"
  <2>1. k # Len(symbols)
    BY <1>11, <1>13
  <2>2. k < Len(symbols)
    BY <1>4, <1>6, <2>1
  <2> QED
    BY <1>12, <1>13, <2>2 DEF Covers
(* The data that a symbol restores.                                        *)
<1>14. ASSUME NEW t \in Seq(Byte), pos[k] + Len(t) <= Len(data),
              \A i \in 1 .. Len(t) : t[i] = data[pos[k] + i]
       PROVE  decoded \o t = SubSeq(data, 1, pos[k] + Len(t))
  BY <1>4, <1>6, <1>9, <1>14, PrefixGrows
<1> SUFFICES InStep(pos)'
  BY <1>3, <1>8
<1>15. CASE DecodeStarts
  <2>1. pc = "decode" /\ cursor' = cursor /\ decoded' = decoded
    BY <1>15 DEF DecodeStarts
  <2>2. expected > 0
    BY <1>1, <1>3, <1>4, EmptySeq
  <2>3. pc' = "symbol"
    BY <1>3, <1>4, <1>11, <1>15, <2>2 DEF DecodeStarts
  <2> QED
    BY <1>1, <1>2, <2>1, <2>3 DEF InStep
<1>16. CASE ReadLiteral
  <2>1. pc = "symbol" /\ symbols[k].kind = "literal" /\ cursor' = k
    BY <1>10, <1>16 DEF ReadLiteral, Read
  <2>2. pos[k] < Len(data) /\ symbols[k].value = data[pos[k] + 1] /\ pos[k + 1] = pos[k] + 1
    BY <1>10, <2>1 DEF Covers
  <2>3. Remaining # 0
    BY <1>3, <1>4, <1>9, <2>2 DEF Remaining
  <2>4. decoded' = Append(decoded, symbols[k].value) /\ pc' = "symbol"
    BY <1>10, <1>16, <2>1, <2>3 DEF ReadLiteral
  <2> DEFINE x == symbols[k].value
             t == <<x>>
  <2>5. x \in Byte
    <3>1. pos[k] + 1 \in 1 .. Len(data)
      BY <1>4, <1>9, <2>2
    <3> QED
      BY <1>4, <2>2, <3>1, ElementOfSeq
  <2>6. x = data[pos[k] + 1] /\ decoded' = Append(decoded, x)
    BY <2>2, <2>4
  <2> HIDE DEF x
  <2>7. decoded' = decoded \o t /\ t \in Seq(Byte) /\ Len(t) = 1 /\ t[1] = x
    BY <1>4, <2>5, <2>6, AppendOne
  <2> HIDE DEF t
  <2>8. /\ pos[k] + Len(t) <= Len(data)
        /\ \A i \in 1 .. Len(t) : t[i] = data[pos[k] + i]
    BY <1>4, <1>9, <2>2, <2>6, <2>7
  <2>9. decoded' = SubSeq(data, 1, pos[k + 1])
    <3>1. decoded \o t = SubSeq(data, 1, pos[k] + Len(t))
      BY <1>14, <2>7, <2>8
    <3> QED
      BY <2>2, <2>7, <3>1
  <2>10. k < Len(symbols) /\ symbols[k + 1].kind # "distance"
    BY <1>13, <2>1
  <2> QED
    BY <1>1, <1>11, <2>1, <2>4, <2>9, <2>10 DEF InStep
<1>17. CASE ReadEndOfBlock
  <2>1. /\ symbols[k].kind = "eob" /\ decoded' = decoded
        /\ Return(IF Len(decoded) = expected THEN "ok" ELSE "UnexpectedEof")
    BY <1>10, <1>17 DEF ReadEndOfBlock, Read
  <2>2. pos[k] = Len(data)
    BY <1>10, <2>1 DEF Covers
  <2>3. pc' = "done" /\ result' = "ok"
    BY <1>3, <1>9, <2>1, <2>2 DEF Return
  <2>4. decoded = data
    BY <1>4, <1>6, <2>2, SubSeqFull
  <2> QED
    BY <1>1, <1>11, <2>1, <2>3, <2>4 DEF InStep
<1>18. CASE ReadLength
  <2>1. /\ pc = "symbol" /\ symbols[k].kind = "length" /\ cursor' = k
        /\ decoded' = decoded /\ length' = LengthOf(symbols[k])
        /\ IF LengthOf(symbols[k]) > Remaining THEN Return("InvalidMatchLength")
           ELSE pc' = "distance" /\ UNCHANGED result
    BY <1>10, <1>18 DEF ReadLength, Read, LengthOf
  <2>2. k < Len(symbols) /\ symbols[k + 1].kind = "distance" /\ pos[k + 1] = pos[k]
    BY <1>10, <2>1 DEF Covers
  <2>3. pos[k + 1 + 1] = pos[k + 1] + LengthOf(symbols[k]) /\ pos[k + 1 + 1] <= Len(data)
    BY <1>12, <2>2 DEF Covers
  <2>4. LengthOf(symbols[k]) \in Nat
    <3>1. symbols[k] \in Symbol /\ Readable(symbols[k])
      BY <1>0, <1>4, <1>6, ElementOfSeq DEF IInv
    <3> QED
      BY <2>1, <3>1, DecodedLength
  <2>5. ~(LengthOf(symbols[k]) > Remaining)
    BY <1>3, <1>4, <1>9, <2>2, <2>3, <2>4 DEF Remaining
  <2>6. pc' = "distance"
    BY <2>1, <2>5
  <2>7. k \in 1 .. Len(symbols) - 1
    BY <1>4, <1>5, <2>2
  <2> QED
    BY <1>1, <1>6, <1>11, <2>1, <2>2, <2>6, <2>7 DEF InStep, LengthOf
<1>19. CASE ReadDistance
  <2>1. /\ pc = "distance" /\ symbols[k].kind = "distance" /\ cursor' = k
        /\ IF DistanceOf(symbols[k]) > Len(decoded)
             THEN Return("InvalidOffset") /\ UNCHANGED decoded
             ELSE decoded' = decoded \o CopyFrom(DistanceOf(symbols[k])) /\ pc' = "symbol"
                    /\ UNCHANGED result
    BY <1>10, <1>19 DEF ReadDistance, Read, DistanceOf
  <2> DEFINE distance == DistanceOf(symbols[k])
             t == CopyFrom(distance)
  <2>2. length = LengthOf(symbols[k - 1])
    BY <1>2, <1>6, <2>1 DEF InStep
  <2>3. /\ distance <= pos[k]
        /\ pos[k + 1] = pos[k] + length /\ pos[k + 1] <= Len(data)
        /\ \A j \in 1 .. length : data[pos[k] - distance + j] = data[pos[k] + j]
    BY <1>10, <2>1, <2>2 DEF Covers
  <2>4. distance \in Nat \ {0}
    <3>1. symbols[k] \in Symbol /\ Readable(symbols[k])
      BY <1>0, <1>4, <1>6, ElementOfSeq DEF IInv
    <3> QED
      BY <2>1, <3>1, DecodedDistance
  <2>5. ~(distance > Len(decoded)) /\ distance \in 1 .. Len(decoded)
    BY <1>4, <1>9, <2>3, <2>4
  <2>6. decoded' = decoded \o t /\ pc' = "symbol"
    BY <2>1, <2>5
  <2> HIDE DEF distance
  <2>7. t \in Seq(Byte) /\ Len(t) = length
    BY <1>0, <2>5, CopyOK
  <2>8. \A j \in 1 .. length : data[pos[k] + j] = data[pos[k] - distance + 1 + ((j - 1) % distance)]
    <3>1. pos[k] \in Nat /\ length \in Nat
      BY <1>4, <1>9
    <3>2. EqualsBefore(data, pos[k], distance, length)
      BY <2>3 DEF EqualsBefore
    <3> QED
      BY <2>4, <3>1, <3>2, Repeats
  <2>9. ASSUME NEW i \in 1 .. length PROVE t[i] = data[pos[k] + i]
    <3> DEFINE r == (i - 1) % distance
    <3>1. t[i] = decoded[pos[k] - distance + 1 + r]
      BY <1>9, <2>9 DEF CopyFrom
    <3>2. r \in 0 .. distance - 1
      <4>1. i - 1 \in Nat
        BY <1>4
      <4> QED
        BY <2>4, <4>1
    <3>5. data[pos[k] + i] = data[pos[k] - distance + 1 + r]
      BY <2>8
    <3> HIDE DEF r
    <3>3. pos[k] - distance + 1 + r \in 1 .. pos[k]
      <4>1. pos[k] \in Nat /\ distance <= pos[k]
        BY <1>9, <2>3
      <4> QED
        BY <2>4, <3>2, <4>1
    <3>4. \A j \in 1 .. pos[k] : decoded[j] = data[j]
      BY <1>4, <1>6, <1>9, PrefixElements
    <3> QED
      BY <3>1, <3>3, <3>4, <3>5
  <2> HIDE DEF t
  <2>10. decoded' = SubSeq(data, 1, pos[k + 1])
    <3>1. pos[k] + Len(t) <= Len(data) /\ \A i \in 1 .. Len(t) : t[i] = data[pos[k] + i]
      BY <2>3, <2>7, <2>9
    <3>2. decoded \o t = SubSeq(data, 1, pos[k] + Len(t))
      BY <1>14, <2>7, <3>1
    <3> QED
      BY <2>3, <2>6, <2>7, <3>2
  <2>11. k < Len(symbols) /\ symbols[k + 1].kind # "distance"
    BY <1>13, <2>1
  <2> QED
    BY <1>1, <1>11, <2>1, <2>6, <2>10, <2>11 DEF InStep
<1>20. CASE ReadMisplaced
  <2>1. CASE pc = "distance"
    <3>1. symbols[k].kind = "distance"
      <4>1. /\ cursor \in 1 .. Len(symbols) - 1 /\ symbols[cursor].kind = "length"
            /\ cursor \in 1 .. Len(symbols)
        BY <1>2, <1>4, <2>1 DEF InStep
      <4>2. Covers(pos, cursor)
        BY <1>7, <4>1
      <4> QED
        BY <1>5, <4>1, <4>2 DEF Covers
    <3> QED
      BY <1>10, <1>20, <2>1, <3>1 DEF ReadMisplaced, Read
  <2>2. CASE pc = "symbol"
    <3>1. symbols[k].kind \notin {"distance", "invalid"}
      BY <1>2, <1>5, <1>10, <2>2 DEF InStep, Covers
    <3> QED
      BY <1>10, <1>20, <2>2, <3>1 DEF ReadMisplaced, Read
  <2>3. pc \in {"symbol", "distance"}
    BY <1>20 DEF ReadMisplaced, Read
  <2> QED
    BY <2>1, <2>2, <2>3
<1>21. CASE ReadTorn
  <2>1. symbols[k].kind # "torn"
    BY <1>10 DEF Covers
  <2> QED
    BY <1>10, <1>21, <2>1 DEF ReadTorn, Read
<1> QED
  BY <1>15, <1>16, <1>17, <1>18, <1>19, <1>20, <1>21 DEF Decode

(* What the tokenizer emits decodes to its input, for any data, hash       *)
(* function and limits, whichever matches the tokenizer takes.             *)
THEOREM LzRoundTrip == Spec => []RoundTrip
<1>1. RInv /\ [Next]_vars => RInv'
  <2> SUFFICES ASSUME RInv, Next \/ UNCHANGED vars PROVE RInv'
    OBVIOUS
  <2>1. CASE Done \/ UNCHANGED vars
    <3>1. UNCHANGED vars
      BY <2>1 DEF Done
    <3>2. IInv'
      BY <3>1 DEF vars, encoderVars, callVars, decoderVars, RInv, IInv, TypeOK,
        SearchLooksBack, DecoderStaysInBounds, Remaining
    <3>3. ASSUME NEW pos, Parse(pos), InStep(pos) PROVE Parse(pos)' /\ InStep(pos)'
      BY <3>1, <3>3 DEF vars, encoderVars, callVars, decoderVars, Parse, InStep, Covers,
        LengthOf, DistanceOf
    <3> QED
      BY <3>1, <3>2, <3>3 DEF RInv, vars, encoderVars, callVars
  <2> QED
    BY <2>1, EncodeRInv, DecodeRInv DEF Next
<1>2. RInv => RoundTrip
  BY DEF RInv, RoundTrip, InStep
<1> QED
  BY <1>1, <1>2, InitRInv, PTL DEF Spec
-----------------------------------------------------------------------------
(***************************************************************************)
(* The digest of the stream hash does not depend on how its fed was cut:   *)
(* for every size of a word, every fed and every slicing of it.            *)
(***************************************************************************)

(* The words mixed so far, the bytes in the buffer and the rest of the     *)
(* running update are the fed, in this order; the buffer is empty by the   *)
(* time whole words are taken from what was not used up to fill it.        *)
HashAccounting ==
  /\ totalLen = Len(fed)
  /\ Len(words) * WordSize + bufLen + Len(rest) = Len(fed)
  /\ SubSeq(buf, 1, bufLen) \o rest = SubSeq(fed, Len(words) * WordSize + 1, Len(fed))
  /\ \A j \in 1 .. Len(words) :
       words[j] = SubSeq(fed, (j - 1) * WordSize + 1, j * WordSize)
  /\ hpc = "idle" => rest = <<>>
  /\ hpc = "words" => bufLen = 0 \/ rest = <<>>
  /\ hpc = "fill" => bufLen > 0

HashIInv == HashTypeOK /\ HashAccounting

-----------------------------------------------------------------------------
LEMMA HashLengths ==
  ASSUME HashTypeOK
  PROVE  /\ WordSize \in Nat \ {0} /\ bufLen \in 0 .. WordSize - 1
         /\ Len(words) \in Nat /\ Len(words) * WordSize \in Nat
         /\ (Len(words) + 1) * WordSize = Len(words) * WordSize + WordSize
         /\ Len(rest) \in Nat /\ Len(fed) \in Nat
         /\ words \in Seq(Seq(HashByte)) /\ rest \in Seq(HashByte) /\ fed \in Seq(HashByte)
<1>1. WordSize \in Nat \ {0} /\ Len(words) \in Nat
  BY WordAssumption, LenProperties DEF HashTypeOK
<1>2. /\ Len(words) * WordSize \in Nat
      /\ (Len(words) + 1) * WordSize = Len(words) * WordSize + WordSize
  BY <1>1
<1> QED
  BY <1>1, <1>2, LenProperties DEF HashTypeOK

LEMMA BufferIsSeq ==
  ASSUME HashTypeOK
  PROVE  buf \in Seq(HashByte) /\ Len(buf) = WordSize
<1>1. buf \in [1 .. WordSize -> HashByte] /\ WordSize \in Nat
  BY WordAssumption DEF HashTypeOK
<1> QED
  BY <1>1, SeqDef

LEMMA FromOK ==
  ASSUME NEW s \in Seq(HashByte), NEW n \in 0 .. Len(s)
  PROVE  /\ From(s, n) \in Seq(HashByte) /\ Len(From(s, n)) = Len(s) - n
         /\ SubSeq(s, 1, n) \in Seq(HashByte) /\ Len(SubSeq(s, 1, n)) = n
         /\ SubSeq(s, 1, n) \o From(s, n) = s
<1>1. /\ Len(s) \in Nat /\ n + 1 \in Nat \ {0} /\ Len(s) \in 0 .. Len(s) /\ 1 \in Nat \ {0}
      /\ 1 \in 1 .. Len(s) + 1 /\ n \in 1 - 1 .. Len(s) /\ Len(s) \in n .. Len(s)
  BY LenProperties
<1>2. /\ From(s, n) \in Seq(HashByte)
      /\ Len(From(s, n)) = IF n + 1 <= Len(s) THEN Len(s) - (n + 1) + 1 ELSE 0
  BY <1>1, SliceType DEF From
<1>3. SubSeq(s, 1, n) \in Seq(HashByte) /\ Len(SubSeq(s, 1, n)) = IF 1 <= n THEN n - 1 + 1 ELSE 0
  BY <1>1, SliceType
<1>4. SubSeq(s, 1, n) \o From(s, n) = SubSeq(s, 1, Len(s))
  BY <1>1, ConcatAdjacentSubSeq DEF From
<1>5. SubSeq(s, 1, Len(s)) = s
  BY SubSeqFull
<1>6. Len(From(s, n)) = Len(s) - n
  BY <1>1, <1>2
<1>7. Len(SubSeq(s, 1, n)) = n
  BY <1>1, <1>3, SMTT(30)
<1>8. SubSeq(s, 1, n) \o From(s, n) = s
  BY <1>4, <1>5
<1> QED
  BY <1>2, <1>3, <1>6, <1>7, <1>8

(* What is stored behind the first bytes of the buffer continues them.     *)
LEMMA StoredOK ==
  ASSUME HashTypeOK, NEW o \in Nat, NEW s \in Seq(HashByte), NEW n \in 0 .. Len(s), o + n <= WordSize
  PROVE  /\ Stored(o, s, n) \in [1 .. WordSize -> HashByte]
         /\ SubSeq(Stored(o, s, n), 1, o + n) = SubSeq(buf, 1, o) \o SubSeq(s, 1, n)
<1> DEFINE b == Stored(o, s, n)
           l == SubSeq(b, 1, o + n)
           x == SubSeq(buf, 1, o)
           y == SubSeq(s, 1, n)
           r == x \o y
<1>1. /\ WordSize \in Nat \ {0} /\ Len(s) \in Nat /\ n \in Nat
      /\ buf \in [1 .. WordSize -> HashByte]
  BY WordAssumption, LenProperties DEF HashTypeOK
<1>2. b \in [1 .. WordSize -> HashByte]
  <2> SUFFICES ASSUME NEW i \in 1 .. WordSize
               PROVE (IF i \in o + 1 .. o + n THEN s[i - o] ELSE buf[i]) \in HashByte
    BY DEF Stored
  <2>1. CASE i \in o + 1 .. o + n
    <3>1. i - o \in 1 .. Len(s)
      BY <1>1, <2>1
    <3> QED
      BY <2>1, <3>1, ElementOfSeq
  <2>2. CASE i \notin o + 1 .. o + n
    BY <1>1, <2>2
  <2> QED
    BY <2>1, <2>2
<1>3. \A i \in 1 .. WordSize : b[i] = IF i \in o + 1 .. o + n THEN s[i - o] ELSE buf[i]
  BY DEF Stored
<1> HIDE DEF b
<1>4. l \in Seq(HashByte) /\ Len(l) = o + n /\ \A i \in 1 .. o + n : l[i] = b[i]
  <2>1. \A i \in 1 .. o + n : b[i] \in HashByte
    BY <1>1, <1>2
  <2> QED
    BY <1>1, <2>1, SubSeqProperties
<1>5. x \in Seq(HashByte) /\ Len(x) = o /\ \A i \in 1 .. o : x[i] = buf[i]
  <2>1. \A i \in 1 .. o : buf[i] \in HashByte
    BY <1>1
  <2> QED
    BY <1>1, <2>1, SubSeqProperties
<1>6. y \in Seq(HashByte) /\ Len(y) = n /\ \A i \in 1 .. n : y[i] = s[i]
  <2>1. \A i \in 1 .. n : s[i] \in HashByte
    BY <1>1, ElementOfSeq
  <2> QED
    BY <1>1, <2>1, SubSeqProperties
<1> HIDE DEF l, x, y
<1>7. /\ r \in Seq(HashByte) /\ Len(r) = o + n
      /\ \A i \in 1 .. o + n : r[i] = IF i <= o THEN x[i] ELSE y[i - o]
  BY <1>5, <1>6, ConcatProperties, ZenonT(30)
<1> HIDE DEF r
<1>8. ASSUME NEW i \in 1 .. Len(l) PROVE l[i] = r[i]
  <2>1. i \in 1 .. o + n /\ i \in 1 .. WordSize
    BY <1>1, <1>4
  <2>2. CASE i <= o
    <3>1. i \notin o + 1 .. o + n /\ i \in 1 .. o
      BY <1>1, <2>1, <2>2
    <3> QED
      BY <1>3, <1>4, <1>5, <1>7, <2>1, <2>2, <3>1
  <2>3. CASE ~(i <= o)
    <3>1. i \in o + 1 .. o + n /\ i - o \in 1 .. n
      BY <1>1, <2>1, <2>3
    <3> QED
      BY <1>3, <1>4, <1>6, <1>7, <2>1, <2>3, <3>1
  <2> QED
    BY <2>2, <2>3
<1>9. l = r
  BY <1>4, <1>7, <1>8, SeqEqual
<1> QED
  BY <1>2, <1>9 DEF l, r, x, y, b

(* One more word, taken from the front of what is not mixed yet.           *)
LEMMA AnotherWord ==
  ASSUME HashIInv, NEW w \in Seq(HashByte), NEW d \in Seq(HashByte), Len(w) = WordSize,
         Len(words) * WordSize + Len(w) + Len(d) = Len(fed),
         w \o d = SubSeq(fed, Len(words) * WordSize + 1, Len(fed)),
         words' = Append(words, w), fed' = fed, rest' = d,
         bufLen' = 0, totalLen' = totalLen, hpc' = "words"
  PROVE  HashAccounting' /\ words' \in Seq(Seq(HashByte))
<1> DEFINE n == Len(words)
           p == n * WordSize
           q == (n + 1) * WordSize
<1>1. HashTypeOK /\ HashAccounting
  BY DEF HashIInv
<1>2. /\ n \in Nat /\ p \in Nat /\ q = p + WordSize /\ WordSize \in Nat \ {0}
      /\ Len(d) \in Nat /\ words \in Seq(Seq(HashByte)) /\ fed \in Seq(HashByte) /\ Len(fed) \in Nat
  BY <1>1, HashLengths, LenProperties
<1>3. /\ p + Len(w) + Len(d) = Len(fed) /\ w \o d = SubSeq(fed, p + 1, Len(fed))
      /\ w \in Seq(HashByte) /\ d \in Seq(HashByte) /\ fed \in Seq(HashByte) /\ p \in Nat
  BY <1>2
<1>4. /\ words' \in Seq(Seq(HashByte)) /\ Len(words') = n + 1 /\ words'[n + 1] = w
      /\ \A j \in 1 .. n : words'[j] = words[j]
  BY <1>2, AppendProperties
<1>5. \A j \in 1 .. n : words[j] = SubSeq(fed, (j - 1) * WordSize + 1, j * WordSize)
  BY <1>1 DEF HashAccounting
<1> HIDE DEF p, q
<1>6. w = SubSeq(fed, p + 1, p + Len(w)) /\ d = SubSeq(fed, p + Len(w) + 1, Len(fed))
  BY <1>3, SplitSuffix, Zenon
<1>7. w = SubSeq(fed, p + 1, q) /\ d = SubSeq(fed, q + 1, Len(fed)) /\ q + Len(d) = Len(fed)
  BY <1>2, <1>3, <1>6
<1>8. ASSUME NEW j \in 1 .. n + 1
      PROVE  words'[j] = SubSeq(fed, (j - 1) * WordSize + 1, j * WordSize)
  <2>1. CASE j \in 1 .. n
    BY <1>4, <1>5, <2>1
  <2>2. CASE j = n + 1
    <3>1. (j - 1) * WordSize = p /\ j * WordSize = q
      BY <1>2, <2>2 DEF p, q
    <3> QED
      BY <1>4, <1>7, <2>2, <3>1
  <2> QED
    BY <1>2, <2>1, <2>2
<1>9. SubSeq(buf', 1, bufLen') \o rest' = d
  <2>1. SubSeq(buf', 1, 0) = <<>>
    BY SubSeqEmpty
  <2> QED
    BY <2>1, ConcatEmptySeq
<1>10. Len(words') * WordSize = q
  BY <1>4 DEF q
<1>11. q + bufLen' + Len(rest') = Len(fed')
  <2>1. q \in Nat /\ Len(d) \in Nat
    BY <1>2
  <2>2. bufLen' = 0 /\ Len(rest') = Len(d) /\ Len(fed') = Len(fed)
    OBVIOUS
  <2>3. q + Len(d) = Len(fed)
    BY <1>7
  <2> QED
    BY <2>1, <2>2, <2>3
<1> HIDE DEF n
<1>12. totalLen' = Len(fed')
  BY <1>1 DEF HashAccounting
<1> QED
  BY <1>4, <1>7, <1>8, <1>9, <1>10, <1>11, <1>12 DEF HashAccounting

LEMMA InitHashIInv == HashInit => HashIInv
<1> SUFFICES ASSUME HashInit PROVE HashIInv
  OBVIOUS
<1>1. WordSize \in Nat \ {0} /\ Zero \in HashByte /\ 0 * WordSize = 0
  BY WordAssumption
<1>2. <<>> \in Seq(HashByte) /\ <<>> \in Seq(Seq(HashByte)) /\ Len(<<>>) = 0
  BY EmptySeq
<1>3. HashTypeOK
  BY <1>1, <1>2 DEF HashInit, HashTypeOK
<1>4. SubSeq(buf, 1, 0) = <<>> /\ SubSeq(<<>>, 1, 0) = <<>> /\ <<>> \o <<>> = <<>>
  BY <1>2, SubSeqEmpty, ConcatEmptySeq
<1>5. HashAccounting
  BY <1>1, <1>2, <1>4 DEF HashInit, HashAccounting
<1> QED
  BY <1>3, <1>5 DEF HashIInv

LEMMA UpdateIInv ==
  ASSUME HashIInv, NEW n \in Nat, NEW slice \in [1 .. n -> HashByte], Update(slice)
  PROVE  HashIInv'
<1> DEFINE p == Len(words) * WordSize
<1>1. HashTypeOK /\ HashAccounting
  BY DEF HashIInv
<1>2. slice \in Seq(HashByte) /\ Len(slice) = n
  BY SeqDef
<1>3. /\ hpc = "idle" /\ rest = <<>> /\ totalLen' = totalLen + Len(slice) /\ rest' = slice
      /\ hpc' = IF bufLen > 0 THEN "fill" ELSE "words"
      /\ fed' = fed \o slice
      /\ UNCHANGED <<words, buf, bufLen>>
  BY <1>1 DEF Update, HashAccounting
<1>4. /\ p \in Nat /\ bufLen \in 0 .. WordSize - 1 /\ fed \in Seq(HashByte) /\ Len(fed) \in Nat
      /\ WordSize \in Nat \ {0}
  BY <1>1, HashLengths
<1>5. fed' \in Seq(HashByte) /\ Len(fed') = Len(fed) + Len(slice)
  BY <1>2, <1>3, <1>4, ConcatProperties
<1>6. /\ p + bufLen = Len(fed)
      /\ SubSeq(buf, 1, bufLen) = SubSeq(fed, p + 1, Len(fed))
  <2>1. /\ p + bufLen + Len(rest) = Len(fed)
        /\ SubSeq(buf, 1, bufLen) \o rest = SubSeq(fed, p + 1, Len(fed))
    BY <1>1 DEF HashAccounting
  <2>2. SubSeq(buf, 1, bufLen) \in Seq(HashByte)
    BY <1>1, <1>4, BufferIsSeq, SliceType
  <2> QED
    BY <1>3, <1>4, <2>1, <2>2, EmptySeq, ConcatEmptySeq
<1>7. SubSeq(buf, 1, bufLen) \o slice = SubSeq(fed', p + 1, Len(fed'))
  <2>1. p \in 0 .. Len(fed)
    BY <1>4, <1>6
  <2> QED
    BY <1>2, <1>3, <1>4, <1>5, <1>6, <2>1, SuffixConcat
<1>8. ASSUME NEW j \in 1 .. Len(words)
      PROVE  words[j] = SubSeq(fed', (j - 1) * WordSize + 1, j * WordSize)
  <2>1. /\ (j - 1) * WordSize \in Nat /\ j * WordSize \in Nat
        /\ j * WordSize = (j - 1) * WordSize + WordSize /\ j * WordSize <= p
    <3>1. Len(words) \in Nat
      BY <1>1, HashLengths
    <3> QED
      BY <1>4, <3>1, Multiples
  <2> DEFINE lo == (j - 1) * WordSize
             hi == j * WordSize
  <2>2. lo + 1 \in 1 .. Len(fed) /\ hi \in 1 .. Len(fed)
    <3>1. lo \in Nat /\ hi \in Nat /\ hi = lo + WordSize /\ hi <= Len(fed)
      <4>1. hi \in Nat /\ hi <= p
        BY <2>1
      <4> HIDE DEF hi, p
      <4>2. hi <= Len(fed)
        BY <1>4, <1>6, <4>1
      <4> QED
        BY <2>1, <4>2 DEF hi
    <3> HIDE DEF lo, hi
    <3> QED
      BY <1>4, <3>1
  <2> HIDE DEF lo, hi
  <2>3. SubSeq(fed', lo + 1, hi) = SubSeq(fed, lo + 1, hi)
    <3>1. fed \in Seq(HashByte) /\ slice \in Seq(HashByte) /\ fed' = fed \o slice
      BY <1>2, <1>3, <1>4
    <3>2. SubSeq(fed \o slice, lo + 1, hi) = SubSeq(fed, lo + 1, hi)
      BY <2>2, <3>1, SubSeqOfConcat1, Zenon
    <3> QED
      BY <3>1, <3>2
  <2> USE DEF lo, hi
  <2> QED
    BY <1>1, <2>3 DEF HashAccounting
<1>9. HashAccounting'
  <2>1. totalLen' = Len(fed') /\ p + bufLen + Len(slice) = Len(fed')
    BY <1>1, <1>2, <1>3, <1>4, <1>5, <1>6 DEF HashAccounting
  <2>2. hpc' \in {"fill", "words"} /\ (hpc' = "words" => bufLen = 0) /\ (hpc' = "fill" => bufLen > 0)
    BY <1>3, <1>4
  <2> QED
    BY <1>3, <1>7, <1>8, <2>1, <2>2 DEF HashAccounting
<1>10. HashTypeOK'
  BY <1>1, <1>2, <1>3, <1>5 DEF HashTypeOK
<1> QED
  BY <1>9, <1>10 DEF HashIInv

LEMMA FillBufferIInv ==
  ASSUME HashIInv, FillBuffer
  PROVE  HashIInv'
<1> DEFINE needed == WordSize - bufLen
           c == IF Len(rest) < needed THEN Len(rest) ELSE needed
           p == Len(words) * WordSize
           old == SubSeq(buf, 1, bufLen)
           front == SubSeq(rest, 1, c)
<1>1. HashTypeOK /\ HashAccounting
  BY DEF HashIInv
<1>2. /\ p \in Nat /\ bufLen \in 0 .. WordSize - 1 /\ fed \in Seq(HashByte) /\ Len(fed) \in Nat
      /\ WordSize \in Nat \ {0} /\ rest \in Seq(HashByte) /\ Len(rest) \in Nat
  BY <1>1, HashLengths
<1>3. c \in 0 .. Len(rest) /\ bufLen + c <= WordSize /\ (bufLen + c < WordSize => c = Len(rest))
  BY <1>2
<1>4. /\ buf' = Stored(bufLen, rest, c) /\ rest' = From(rest, c)
      /\ IF bufLen + c = WordSize
           THEN words' = Append(words, buf') /\ bufLen' = 0
           ELSE bufLen' = bufLen + c /\ UNCHANGED words
      /\ hpc' = "words" /\ UNCHANGED <<totalLen, fed>>
  BY DEF FillBuffer, IsWord
<1> HIDE DEF c
<1>5. /\ rest' \in Seq(HashByte) /\ Len(rest') = Len(rest) - c
      /\ front \in Seq(HashByte) /\ front \o rest' = rest
  BY <1>2, <1>3, <1>4, FromOK
<1>6. buf' \in [1 .. WordSize -> HashByte] /\ SubSeq(buf', 1, bufLen + c) = old \o front
  <2>1. bufLen \in Nat
    BY <1>2
  <2> QED
    BY <1>1, <1>2, <1>3, <1>4, <2>1, StoredOK
<1>7. buf' \in Seq(HashByte) /\ Len(buf') = WordSize
  BY <1>2, <1>6, SeqDef
<1>8. old \in Seq(HashByte)
  <2>1. 1 \in Nat \ {0} /\ bufLen \in 0 .. Len(buf) /\ buf \in Seq(HashByte)
    BY <1>1, <1>2, BufferIsSeq
  <2> QED
    BY <2>1, SliceType
<1> HIDE DEF old, front
<1>9. SubSeq(buf', 1, bufLen + c) \o rest' = SubSeq(fed, p + 1, Len(fed))
  <2>1. (old \o front) \o rest' = old \o (front \o rest')
    <3>1. old \in Seq(HashByte) /\ front \in Seq(HashByte) /\ rest' \in Seq(HashByte)
      BY <1>5, <1>8
    <3> QED
      BY <3>1, Associative
  <2>2. old \o rest = SubSeq(fed, p + 1, Len(fed))
    BY <1>1 DEF HashAccounting, old
  <2> QED
    BY <1>5, <1>6, <2>1, <2>2
<1>10. p + bufLen + Len(rest) = Len(fed)
  BY <1>1 DEF HashAccounting
<1>11. CASE bufLen + c = WordSize
  <2>1. SubSeq(buf', 1, bufLen + c) = buf'
    BY <1>7, <1>11, SubSeqFull
  <2>2. p + Len(buf') + Len(rest') = Len(fed)
    <3>1. /\ p \in Nat /\ bufLen \in Nat /\ c \in Nat /\ Len(rest) \in Nat
          /\ Len(buf') = bufLen + c
      BY <1>2, <1>3, <1>7, <1>11
    <3>2. Len(rest') = Len(rest) - c
      BY <1>5
    <3> HIDE DEF p
    <3> QED
      BY <1>10, <3>1, <3>2
  <2>3. HashAccounting' /\ words' \in Seq(Seq(HashByte))
    BY <1>4, <1>5, <1>7, <1>9, <1>11, <2>1, <2>2, AnotherWord
  <2> QED
    BY <1>1, <1>2, <1>4, <1>5, <1>6, <1>11, <2>3 DEF HashIInv, HashTypeOK
<1>12. CASE bufLen + c < WordSize
  <2>1. ~(bufLen + c = WordSize) /\ bufLen + c \in 0 .. WordSize - 1
    BY <1>2, <1>3, <1>12
  <2>2. bufLen' = bufLen + c /\ words' = words
    BY <1>4, <2>1
  <2>3. Len(rest') = 0 /\ rest' = <<>>
    BY <1>2, <1>3, <1>5, <1>12, EmptySeq
  <2>4. p + bufLen' + Len(rest') = Len(fed)
    BY <1>2, <1>3, <1>10, <1>12, <2>2, <2>3
  <2>5. SubSeq(buf', 1, bufLen') \o rest' = SubSeq(fed, p + 1, Len(fed))
    BY <1>9, <2>2
  <2>6. HashAccounting'
    BY <1>1, <1>4, <2>2, <2>3, <2>4, <2>5 DEF HashAccounting
  <2>7. HashTypeOK'
    BY <1>1, <1>4, <1>5, <1>6, <2>1, <2>2 DEF HashTypeOK
  <2> QED
    BY <2>6, <2>7 DEF HashIInv
<1> QED
  BY <1>2, <1>3, <1>11, <1>12

LEMMA MixWordIInv ==
  ASSUME HashIInv, MixWord
  PROVE  HashIInv'
<1> DEFINE w == SubSeq(rest, 1, WordSize)
           p == Len(words) * WordSize
<1>1. HashTypeOK /\ HashAccounting
  BY DEF HashIInv
<1>2. /\ p \in Nat /\ WordSize \in Nat \ {0} /\ rest \in Seq(HashByte) /\ Len(rest) \in Nat
      /\ bufLen \in Nat /\ Len(fed) \in Nat
  BY <1>1, HashLengths
<1>3. /\ hpc = "words" /\ Len(rest) >= WordSize /\ words' = Append(words, w)
      /\ rest' = From(rest, WordSize) /\ UNCHANGED <<totalLen, buf, bufLen, hpc, fed>>
  BY DEF MixWord
<1>4. bufLen = 0
  BY <1>1, <1>2, <1>3, EmptySeq DEF HashAccounting
<1>5. w \in Seq(HashByte) /\ Len(w) = WordSize /\ rest' \in Seq(HashByte)
      /\ Len(rest') = Len(rest) - WordSize /\ w \o rest' = rest
  <2>1. WordSize \in 0 .. Len(rest)
    BY <1>2, <1>3
  <2> QED
    BY <1>2, <1>3, <2>1, FromOK
<1> HIDE DEF w
<1>6. rest = SubSeq(fed, p + 1, Len(fed)) /\ p + Len(rest) = Len(fed)
  <2>1. /\ SubSeq(buf, 1, bufLen) \o rest = SubSeq(fed, p + 1, Len(fed))
        /\ p + bufLen + Len(rest) = Len(fed)
    BY <1>1 DEF HashAccounting
  <2>2. SubSeq(buf, 1, 0) = <<>>
    BY SubSeqEmpty
  <2>3. SubSeq(buf, 1, bufLen) \o rest = rest
    BY <1>2, <1>4, <2>2, ConcatEmptySeq
  <2> QED
    BY <1>2, <1>4, <2>1, <2>3
<1>7. p + Len(w) + Len(rest') = Len(fed)
  <2>1. p \in Nat /\ WordSize \in Nat /\ Len(rest) \in Nat
    BY <1>2
  <2>2. Len(w) = WordSize /\ Len(rest') = Len(rest) - WordSize
    BY <1>5
  <2>3. p + Len(rest) = Len(fed)
    BY <1>6
  <2> HIDE DEF p
  <2> QED
    BY <2>1, <2>2, <2>3
<1>8. HashAccounting' /\ words' \in Seq(Seq(HashByte))
  BY <1>3, <1>4, <1>5, <1>6, <1>7, AnotherWord
<1> QED
  BY <1>1, <1>3, <1>5, <1>8 DEF HashIInv, HashTypeOK

LEMMA StoreTailIInv ==
  ASSUME HashIInv, StoreTail
  PROVE  HashIInv'
<1> DEFINE p == Len(words) * WordSize
<1>1. HashTypeOK /\ HashAccounting
  BY DEF HashIInv
<1>2. /\ p \in Nat /\ WordSize \in Nat \ {0} /\ rest \in Seq(HashByte) /\ Len(rest) \in Nat
      /\ bufLen \in 0 .. WordSize - 1 /\ Len(fed) \in Nat
  BY <1>1, HashLengths
<1>3. /\ hpc = "words" /\ Len(rest) < WordSize /\ rest' = <<>> /\ hpc' = "idle"
      /\ IF rest # <<>> THEN buf' = Stored(0, rest, Len(rest)) /\ bufLen' = Len(rest)
         ELSE UNCHANGED <<buf, bufLen>>
      /\ UNCHANGED <<words, totalLen, fed>>
  BY DEF StoreTail, HasTail
<1>4. rest' \in Seq(HashByte) /\ Len(rest') = 0
  BY <1>3, EmptySeq
<1>5. /\ SubSeq(buf, 1, bufLen) \o rest = SubSeq(fed, p + 1, Len(fed))
      /\ p + bufLen + Len(rest) = Len(fed)
  BY <1>1 DEF HashAccounting
<1>6. CASE rest = <<>>
  <2>1. buf' = buf /\ bufLen' = bufLen /\ rest' = rest
    BY <1>3, <1>6
  <2> QED
    BY <1>1, <1>3, <1>4, <1>5, <1>6, <2>1 DEF HashIInv, HashTypeOK, HashAccounting
<1>7. CASE rest # <<>>
  <2>1. bufLen = 0 /\ buf' = Stored(0, rest, Len(rest)) /\ bufLen' = Len(rest)
    BY <1>1, <1>3, <1>7 DEF HashAccounting
  <2>2. /\ buf' \in [1 .. WordSize -> HashByte]
        /\ SubSeq(buf', 1, 0 + Len(rest)) = SubSeq(buf, 1, 0) \o SubSeq(rest, 1, Len(rest))
    <3>1. 0 \in Nat /\ Len(rest) \in 0 .. Len(rest) /\ 0 + Len(rest) <= WordSize
      BY <1>2, <1>3
    <3> QED
      BY <1>1, <1>2, <2>1, <3>1, StoredOK
  <2>3. SubSeq(buf, 1, 0) = <<>> /\ SubSeq(rest, 1, Len(rest)) = rest /\ <<>> \o rest = rest
    BY <1>2, SubSeqEmpty, SubSeqFull, ConcatEmptySeq
  <2>4. SubSeq(buf', 1, bufLen') = rest
    <3>1. 0 + Len(rest) = Len(rest)
      BY <1>2
    <3> QED
      BY <2>1, <2>2, <2>3, <3>1
  <2>5. SubSeq(buf', 1, bufLen') \o rest' = SubSeq(fed, p + 1, Len(fed))
    <3>1. SubSeq(buf', 1, bufLen') \o rest' = rest
      BY <1>2, <1>3, <2>4, ConcatEmptySeq
    <3>2. SubSeq(buf, 1, bufLen) \o rest = rest
      BY <2>1, <2>3
    <3> QED
      BY <1>5, <3>1, <3>2
  <2>6. p + bufLen' + Len(rest') = Len(fed)
    BY <1>2, <1>4, <1>5, <2>1
  <2>7. HashAccounting'
    BY <1>1, <1>3, <2>5, <2>6 DEF HashAccounting
  <2>8. HashTypeOK'
    BY <1>1, <1>2, <1>3, <1>4, <2>1, <2>2 DEF HashTypeOK
  <2> QED
    BY <2>7, <2>8 DEF HashIInv
<1> QED
  BY <1>6, <1>7

-----------------------------------------------------------------------------
LEMMA SpecHashIInv == HashSpec => []HashIInv
<1>1. HashIInv /\ [HashNext]_hashVars => HashIInv'
  <2> SUFFICES ASSUME HashIInv, HashNext \/ UNCHANGED hashVars PROVE HashIInv'
    OBVIOUS
  <2>1. CASE UNCHANGED hashVars
    BY <2>1 DEF hashVars, HashIInv, HashTypeOK, HashAccounting
  <2>2. ASSUME NEW n \in 0 .. MaxLength - Len(fed), NEW slice \in [1 .. n -> HashByte], Update(slice)
        PROVE HashIInv'
    <3>1. n \in Nat
      BY LengthAssumption, HashLengths DEF HashIInv
    <3> QED
      BY <2>2, <3>1, UpdateIInv
  <2> QED
    BY <2>1, <2>2, FillBufferIInv, MixWordIInv, StoreTailIInv DEF HashNext
<1> QED
  BY <1>1, InitHashIInv, PTL DEF HashSpec

LEMMA DigestFromIInv == HashIInv => DigestIsChunkInvariant
<1> SUFFICES ASSUME HashIInv, hpc = "idle" PROVE Finalized = DigestOf(fed)
  BY DEF DigestIsChunkInvariant
<1> DEFINE n == Len(words)
           tail == SubSeq(buf, 1, bufLen)
           div == Len(fed) \div WordSize
<1>1. HashTypeOK /\ HashAccounting /\ rest = <<>>
  BY DEF HashIInv, HashAccounting
<1>2. /\ n \in Nat /\ n * WordSize \in Nat /\ WordSize \in Nat \ {0}
      /\ bufLen \in 0 .. WordSize - 1 /\ Len(fed) \in Nat /\ words \in Seq(Seq(HashByte))
  BY <1>1, HashLengths
<1>3. tail \in Seq(HashByte)
  <2>1. 1 \in Nat \ {0} /\ bufLen \in 0 .. Len(buf) /\ buf \in Seq(HashByte)
    BY <1>1, <1>2, BufferIsSeq
  <2> QED
    BY <2>1, SliceType
<1> HIDE DEF tail
<1>4. tail = SubSeq(fed, n * WordSize + 1, Len(fed)) /\ n * WordSize + bufLen = Len(fed)
  <2>1. /\ tail \o rest = SubSeq(fed, n * WordSize + 1, Len(fed))
        /\ n * WordSize + bufLen + Len(rest) = Len(fed)
    BY <1>1 DEF HashAccounting, tail
  <2>2. Len(rest) = 0 /\ tail \o rest = tail
    BY <1>1, <1>3, EmptySeq, ConcatEmptySeq
  <2> QED
    BY <1>2, <2>1, <2>2, SMTT(30)
<1>5. div = n
  BY <1>2, <1>4, Quotient
<1>6. words = [j \in 1 .. n |-> SubSeq(fed, (j - 1) * WordSize + 1, j * WordSize)]
  <2>1. words = [j \in 1 .. n |-> words[j]]
    BY <1>2, LenProperties
  <2> QED
    BY <1>1, <2>1 DEF HashAccounting
<1>7. totalLen = Len(fed)
  BY <1>1 DEF HashAccounting
<1>8. DigestOf(fed) =
        [words  |-> [j \in 1 .. div |-> SubSeq(fed, (j - 1) * WordSize + 1, j * WordSize)],
         tail   |-> From(fed, div * WordSize), length |-> Len(fed)]
  BY Zenon DEF DigestOf
<1> HIDE DEF n, div
<1>9. From(fed, div * WordSize) = tail
  BY <1>4, <1>5 DEF From
<1> QED
  BY <1>5, <1>6, <1>7, <1>8, <1>9 DEF Finalized, tail

(* Every variable of the hasher keeps its type; its buffer never stays     *)
(* full between two steps of update.                                       *)
THEOREM HashTypes == HashSpec => []HashTypeOK
BY SpecHashIInv, PTL DEF HashIInv

(* finalize answers the digest of all that was given to update, however it *)
(* was cut, so that encoder and decoder agree on the same data.            *)
THEOREM HashIsChunkInvariant == HashSpec => []DigestIsChunkInvariant
BY SpecHashIInv, DigestFromIInv, PTL
-----------------------------------------------------------------------------
(***************************************************************************)
(* The programs in front of the library, for any data shorter than 64 KiB, *)
(* any stream headers, directories, commands and numbers of calls. Where   *)
(* the parts of a container lie in its bytes (Lies), which state a reader  *)
(* of it is in after how many of them (ReaderAt), what the files of a      *)
(* directory are whatever has been damaged, torn or stored (FileSound),    *)
(* and so what each call delivers, reports and frees.                      *)
(***************************************************************************)

(* Induction up to n.                                                      *)
LEMMA ForwardInduction ==
  ASSUME NEW n \in Nat, NEW Good, 0 \in Good,
         \A k \in 1 .. n : k - 1 \in Good => k \in Good
  PROVE  \A k \in 0 .. n : k \in Good
<1> DEFINE Back == {i \in 1 .. n + 1 : n + 1 - i \in Good}
<1>1. n + 1 \in Back
  BY Z3
<1>2. ASSUME NEW i \in 1 .. n, \A j \in i + 1 .. n + 1 : j \in Back PROVE i \in Back
  <2>1. i + 1 \in Back /\ n + 1 - i \in 1 .. n /\ n + 1 - i - 1 = n + 1 - (i + 1)
    BY <1>2
  <2> QED
    BY <2>1
<1>3. \A i \in 1 .. n + 1 : i \in Back
  <2> HIDE DEF Back
  <2> QED
    BY <1>1, <1>2, BackwardInduction
<1>4. \A k \in 0 .. n : n + 1 - k \in 1 .. n + 1 /\ n + 1 - (n + 1 - k) = k
  OBVIOUS
<1> QED
  BY <1>3, <1>4

-----------------------------------------------------------------------------
(* The bits of bytes and the registers of both CRCs.                       *)
Bits == {0, 1}

(* Eight bits are a byte, by induction over the sum.                       *)
LEMMA ByteOfType ==
  ASSUME NEW s, \A i \in 1 .. 8 : s[i] \in Bits
  PROVE  ByteOf(s) \in Octet
<1> DEFINE Body(f) == [i \in 0 .. 8 |-> IF i = 0 THEN 0 ELSE f[i - 1] + s[i] * 2 ^ (i - 1)]
           sum == CHOOSE f : f = Body(f)
           step == [i \in 1 .. 8 |-> [x \in Int |-> x + s[i] * 2 ^ (i - 1)]]
<1>1. ByteOf(s) = sum[8]
  BY DEF ByteOf
<1>2. \A i \in 1 .. 8 : s[i] * 2 ^ (i - 1) \in Int
  <2>1. \A i \in 1 .. 8 : i = 1 \/ i = 2 \/ i = 3 \/ i = 4 \/ i = 5 \/ i = 6 \/ i = 7 \/ i = 8
    OBVIOUS
  <2>2. \A i \in 1 .. 8 : 2 ^ (i - 1) \in Int
    BY <2>1
  <2> QED
    BY <2>2 DEF Bits
<1>3. step \in [1 .. 8 -> [Int -> Int]]
  BY <1>2
<1>4. \E f \in [0 .. 8 -> Int] : Climbs(f, 8, 0, step)
  <2>1. 8 \in Nat /\ 0 \in Int
    OBVIOUS
  <2> HIDE DEF step
  <2> QED
    BY <1>3, <2>1, ForwardRecursion
<1>5. PICK f \in [0 .. 8 -> Int] : Climbs(f, 8, 0, step)
  BY <1>4
<1>6. f = Body(f)
  <2>1. f[0] = 0 /\ \A i \in 1 .. 8 : f[i] = step[i][f[i - 1]]
    BY <1>5 DEF Climbs
  <2>2. \A i \in 1 .. 8 : i - 1 \in 0 .. 8 /\ f[i - 1] \in Int
    BY <1>5
  <2>3. \A i \in 1 .. 8 : f[i] = f[i - 1] + s[i] * 2 ^ (i - 1)
    BY <2>1, <2>2
  <2>4. \A i \in 0 .. 8 : i = 0 \/ i \in 1 .. 8
    OBVIOUS
  <2> QED
    BY <1>5, <2>1, <2>3, <2>4
<1>7. sum = Body(sum)
  <2> HIDE DEF Body
  <2> QED
    BY <1>6
<1>8. sum[0] = 0 /\ \A i \in 1 .. 8 : sum[i] = sum[i - 1] + s[i] * 2 ^ (i - 1)
  <2>1. \A g : Body(g)[0] = 0 /\ \A i \in 1 .. 8 : Body(g)[i] = g[i - 1] + s[i] * 2 ^ (i - 1)
    OBVIOUS
  <2> HIDE DEF Body, sum
  <2> QED
    BY <1>7, <2>1
<1> HIDE DEF sum, Body
<1>9. /\ sum[1] = s[1] /\ sum[2] = sum[1] + s[2] * 2 /\ sum[3] = sum[2] + s[3] * 4
      /\ sum[4] = sum[3] + s[4] * 8 /\ sum[5] = sum[4] + s[5] * 16
      /\ sum[6] = sum[5] + s[6] * 32 /\ sum[7] = sum[6] + s[7] * 64
      /\ sum[8] = sum[7] + s[8] * 128
  <2>1. \A i \in 1 .. 8 : s[i] \in Int
    BY DEF Bits
  <2> QED
    BY <1>8, <2>1
<1>10. /\ s[1] \in 0 .. 1 /\ s[2] \in 0 .. 1 /\ s[3] \in 0 .. 1 /\ s[4] \in 0 .. 1
       /\ s[5] \in 0 .. 1 /\ s[6] \in 0 .. 1 /\ s[7] \in 0 .. 1 /\ s[8] \in 0 .. 1
  BY DEF Bits
<1>11. sum[8] \in 0 .. 255
  BY <1>9, <1>10
<1> QED
  BY <1>1, <1>11 DEF Octet

(* A byte is eight bits.                                                   *)
LEMMA BitsOfType ==
  ASSUME NEW b \in Octet
  PROVE  BitsOf(b) \in [1 .. 8 -> Bits]
<1>1. \A i \in 1 .. 8 : i = 1 \/ i = 2 \/ i = 3 \/ i = 4 \/ i = 5 \/ i = 6 \/ i = 7 \/ i = 8
  OBVIOUS
<1>2. \A i \in 1 .. 8 : 2 ^ (i - 1) \in Nat \ {0}
  <2> SUFFICES ASSUME NEW i \in 1 .. 8 PROVE 2 ^ (i - 1) \in Nat \ {0}
    OBVIOUS
  <2>1. CASE i = 1
    BY <2>1
  <2>2. CASE i = 2
    BY <2>2
  <2>3. CASE i = 3
    BY <2>3
  <2>4. CASE i = 4
    BY <2>4
  <2>5. CASE i = 5
    BY <2>5
  <2>6. CASE i = 6
    BY <2>6
  <2>7. CASE i = 7
    BY <2>7
  <2>8. CASE i = 8
    BY <2>8
  <2> QED
    BY <1>1, <2>1, <2>2, <2>3, <2>4, <2>5, <2>6, <2>7, <2>8
<1>3. \A q \in Nat \ {0} : b \div q \in Int
  BY DEF Octet
<1>4. \A m \in Int : m % 2 \in Bits
  BY DEF Bits
<1> QED
  BY <1>2, <1>3, <1>4 DEF BitsOf

(* The other way round too.                                                *)
LEMMA Reverse8Type ==
  ASSUME NEW s \in [1 .. 8 -> Bits]
  PROVE  Reverse8(s) \in [1 .. 8 -> Bits]
BY DEF Reverse8

(* A register keeps its length when a bit goes in.                         *)
LEMMA ShiftType ==
  ASSUME NEW n \in Nat \ {0}, NEW r \in Seq(Bits), Len(r) = n,
         NEW poly \in [1 .. n -> Bits], NEW bit
  PROVE  Shift(r, bit, poly) \in Seq(Bits) /\ Len(Shift(r, bit, poly)) = n
<1> DEFINE moved == Append(Tail(r), 0)
           mixed == [i \in 1 .. Len(r) |-> (moved[i] + poly[i]) % 2]
<1>1. moved \in Seq(Bits) /\ Len(moved) = n
  BY DEF Bits
<1>2. mixed \in Seq(Bits) /\ Len(mixed) = n
  <2>1. \A i \in 1 .. n : moved[i] \in Bits
    BY <1>1, ElementOfSeq
  <2>2. \A i \in 1 .. n : (moved[i] + poly[i]) % 2 \in Bits
    BY <2>1 DEF Bits
  <2> HIDE DEF moved
  <2> QED
    BY <2>2
<1>3. SubSeq(mixed, 1, n) \in Seq(Bits) /\ Len(SubSeq(mixed, 1, n)) = n
  <2> HIDE DEF mixed
  <2>1. 1 \in Nat \ {0} /\ n \in 0 .. Len(mixed) /\ n - 1 + 1 = n /\ 1 <= n
    BY <1>2
  <2> QED
    BY <1>2, <2>1, SliceType
<1> HIDE DEF moved, mixed
<1>4. Shift(r, bit, poly) = IF r[1] = bit THEN moved ELSE SubSeq(mixed, 1, n)
  BY DEF Shift, moved, mixed
<1> QED
  BY <1>1, <1>3, <1>4

(* Registers of n bits.                                                    *)
Registers(n) == {r \in Seq(Bits) : Len(r) = n}

(* So it does for as many bits as there are.                               *)
LEMMA CrcType ==
  ASSUME NEW n \in Nat \ {0}, NEW init \in Registers(n), NEW poly \in [1 .. n -> Bits],
         NEW bits, Len(bits) \in Nat
  PROVE  Crc(init, poly, bits) \in Registers(n)
<1> DEFINE T == Registers(n)
           m == Len(bits)
           Body(f) == [k \in 0 .. Len(bits) |-> IF k = 0 THEN init ELSE Shift(f[k - 1], bits[k], poly)]
           reg == CHOOSE f : f = Body(f)
           step == [k \in 1 .. m |-> [x \in T |-> Shift(x, bits[k], poly)]]
<1>1. Crc(init, poly, bits) = reg[m]
  BY DEF Crc
<1>2. \A x \in T : \A bit : Shift(x, bit, poly) \in T
  BY ShiftType DEF Registers
<1> HIDE DEF T
<1>3. step \in [1 .. m -> [T -> T]] /\ init \in T
  BY <1>2 DEF T
<1>4. PICK f \in [0 .. m -> T] : Climbs(f, m, init, step)
  <2> HIDE DEF step
  <2> QED
    BY <1>3, ForwardRecursion
<1>5. f = Body(f)
  <2>1. f[0] = init /\ \A i \in 1 .. m : f[i] = step[i][f[i - 1]]
    BY <1>4 DEF Climbs
  <2>2. \A i \in 1 .. m : i - 1 \in 0 .. m /\ f[i - 1] \in T
    <3>1. \A i \in 1 .. m : i - 1 \in 0 .. m
      OBVIOUS
    <3> QED
      BY <1>4, <3>1
  <2>3. \A i \in 1 .. m : f[i] = Shift(f[i - 1], bits[i], poly)
    BY <2>1, <2>2
  <2>4. \A i \in 0 .. m : i = 0 \/ i \in 1 .. m
    OBVIOUS
  <2> QED
    BY <1>4, <2>1, <2>3, <2>4
<1>6. reg = Body(reg)
  <2> HIDE DEF Body
  <2> QED
    BY <1>5
<1>7. reg[0] = init /\ \A i \in 1 .. m : reg[i] = Shift(reg[i - 1], bits[i], poly)
  <2>1. \A g : Body(g)[0] = init /\ \A i \in 1 .. m : Body(g)[i] = Shift(g[i - 1], bits[i], poly)
    OBVIOUS
  <2> HIDE DEF Body, reg
  <2> QED
    BY <1>6, <2>1
<1> HIDE DEF reg, Body
<1>8. \A k \in 0 .. m : reg[k] \in T
  <2> DEFINE Good == {k \in 0 .. m : reg[k] \in T}
  <2>1. 0 \in Good
    BY <1>3, <1>7
  <2>2. ASSUME NEW k \in 1 .. m, k - 1 \in Good PROVE k \in Good
    BY <1>2, <1>7, <2>2
  <2>3. \A k \in 0 .. m : k \in Good
    <3> HIDE DEF Good
    <3> QED
      BY <2>1, <2>2, ForwardInduction
  <2> QED
    BY <2>3
<1>9. reg[m] \in T
  BY <1>8
<1> QED
  BY <1>1, <1>9 DEF T

(* Bytes as bits, one behind the other.                                    *)
Joins(c, e, n) == c[0] = <<>> /\ \A k \in 1 .. n : c[k] = c[k - 1] \o e[k]

(* Joining n times eight bits gives 8 n bits.                              *)
LEMMA JoinedBits ==
  ASSUME NEW n \in Nat, NEW e, \A k \in 1 .. n : e[k] \in [1 .. 8 -> Bits]
  PROVE  /\ \E c \in [0 .. n -> Seq(Bits)] : Joins(c, e, n)
         /\ \A c : Joins(c, e, n) => c[n] \in Seq(Bits) /\ Len(c[n]) = 8 * n
<1>1. \A k \in 1 .. n : e[k] \in Seq(Bits) /\ Len(e[k]) = 8
  <2>1. ASSUME NEW f \in [1 .. 8 -> Bits] PROVE f \in Seq(Bits) /\ Len(f) = 8
    <3>1. f \in Seq(Bits)
      <4>1. f \in UNION {[1 .. k -> Bits] : k \in Nat}
        <5>1. 8 \in Nat
          OBVIOUS
        <5> QED
          BY <5>1, Zenon
      <4> QED
        BY <4>1, SeqDef
    <3>2. Len(f) \in Nat /\ 1 .. Len(f) = 1 .. 8
      BY <3>1, LenProperties
    <3> QED
      BY <3>1, <3>2
  <2> QED
    BY <2>1
<1>2. \E c \in [0 .. n -> Seq(Bits)] : Joins(c, e, n)
  <2> DEFINE step == [k \in 1 .. n |-> [x \in Seq(Bits) |-> x \o e[k]]]
  <2>1. step \in [1 .. n -> [Seq(Bits) -> Seq(Bits)]] /\ <<>> \in Seq(Bits)
    BY <1>1
  <2>2. PICK c \in [0 .. n -> Seq(Bits)] : Climbs(c, n, <<>>, step)
    <3> HIDE DEF step
    <3> QED
      BY <2>1, ForwardRecursion
  <2>3. c[0] = <<>> /\ \A k \in 1 .. n : c[k] = step[k][c[k - 1]]
    BY <2>2 DEF Climbs
  <2>4. \A k \in 1 .. n : c[k - 1] \in Seq(Bits)
    BY <2>2
  <2> QED
    BY <2>3, <2>4 DEF Joins
<1>3. ASSUME NEW c, Joins(c, e, n) PROVE c[n] \in Seq(Bits) /\ Len(c[n]) = 8 * n
  <2> DEFINE Good == {k \in 0 .. n : c[k] \in Seq(Bits) /\ Len(c[k]) = 8 * k}
  <2>1. 0 \in Good
    <3>1. c[0] = <<>> /\ <<>> \in Seq(Bits) /\ Len(<<>>) = 0 /\ 8 * 0 = 0
      BY <1>3 DEF Joins
    <3>2. c[0] \in Seq(Bits) /\ Len(c[0]) = 8 * 0
      BY <3>1
    <3> QED
      BY <3>2
  <2>2. ASSUME NEW k \in 1 .. n, k - 1 \in Good PROVE k \in Good
    <3> DEFINE x == c[k - 1]
               y == e[k]
    <3>1. c[k - 1] \in Seq(Bits) /\ Len(c[k - 1]) = 8 * (k - 1) /\ c[k] = c[k - 1] \o e[k]
      BY <1>3, <2>2 DEF Joins
    <3>2. y \in Seq(Bits) /\ Len(y) = 8
      BY <1>1
    <3>3. c[k] = x \o y /\ x \in Seq(Bits) /\ Len(x) = 8 * (k - 1)
      BY <3>1
    <3> HIDE DEF x, y
    <3>4. x \o y \in Seq(Bits) /\ Len(x \o y) = Len(x) + 8
      BY <3>2, <3>3, ConcatLength
    <3>5. k \in 0 .. n /\ 8 * (k - 1) + 8 = 8 * k
      OBVIOUS
    <3> QED
      BY <3>3, <3>4, <3>5
  <2>3. \A k \in 0 .. n : k \in Good
    <3> HIDE DEF Good
    <3> QED
      BY <2>1, <2>2, ForwardInduction
  <2> QED
    BY <2>3, SMTT(30)
<1> QED
  BY <1>2, <1>3

(* The bits of n bytes are 8 n.                                            *)
LEMMA BitsOfBytes ==
  ASSUME NEW s \in Seq(Octet)
  PROVE  Concat(s, BitsOf) \in Seq(Bits) /\ Len(Concat(s, BitsOf)) = 8 * Len(s)
<1> DEFINE n == Len(s)
           Body(f) == [i \in 0 .. Len(s) |-> IF i = 0 THEN <<>> ELSE f[i - 1] \o BitsOf(s[i])]
           joined == CHOOSE f : f = Body(f)
           e == [k \in 1 .. n |-> BitsOf(s[k])]
<1>1. Concat(s, BitsOf) = joined[n]
  BY DEF Concat
<1>2. \A k \in 1 .. n : e[k] = BitsOf(s[k]) /\ e[k] \in [1 .. 8 -> Bits]
  BY BitsOfType, ElementOfSeq
<1> HIDE DEF e
<1>3. PICK c \in [0 .. n -> Seq(Bits)] : Joins(c, e, n)
  <2>1. n \in Nat
    BY LenProperties
  <2> HIDE DEF n
  <2> QED
    BY <1>2, <2>1, JoinedBits
<1>4. c = Body(c)
  <2>1. \A i \in 0 .. n : i = 0 \/ i \in 1 .. n
    OBVIOUS
  <2> QED
    BY <1>2, <1>3, <2>1 DEF Joins
<1>5. joined = Body(joined)
  <2> HIDE DEF Body
  <2> QED
    BY <1>4
<1>6. Joins(joined, e, n)
  <2>1. \A f : Body(f)[0] = <<>> /\ \A i \in 1 .. n : Body(f)[i] = f[i - 1] \o BitsOf(s[i])
    OBVIOUS
  <2> HIDE DEF Body, joined
  <2> QED
    BY <1>2, <1>5, <2>1 DEF Joins
<1> HIDE DEF joined
<1>7. n \in Nat
  BY LenProperties
<1>8. joined[n] \in Seq(Bits) /\ Len(joined[n]) = 8 * n
  <2> HIDE DEF n
  <2> QED
    BY <1>2, <1>6, <1>7, JoinedBits
<1> QED
  BY <1>1, <1>8

(* CRC-8 is a byte,                                                        *)
LEMMA Crc8Type ==
  ASSUME NEW s \in Seq(Octet)
  PROVE  Crc8(s) \in Octet
<1> DEFINE Op(b) == Reverse8(BitsOf(b))
           n == Len(s)
           Body(f) == [i \in 0 .. Len(s) |-> IF i = 0 THEN <<>> ELSE f[i - 1] \o Op(s[i])]
           joined == CHOOSE f : f = Body(f)
           e == [k \in 1 .. n |-> Op(s[k])]
           init == [i \in 1 .. 8 |-> 0]
           poly == Reverse8(BitsOf(7))
           reg == Crc(init, poly, joined[n])
<1>1. Crc8(s) = ByteOf(Reverse8(reg))
  BY DEF Crc8, Concat
<1>2. \A k \in 1 .. n : e[k] = Op(s[k]) /\ e[k] \in [1 .. 8 -> Bits]
  BY BitsOfType, Reverse8Type, ElementOfSeq
<1> HIDE DEF e, Op
<1>3. PICK c \in [0 .. n -> Seq(Bits)] : Joins(c, e, n)
  <2>1. n \in Nat
    BY LenProperties
  <2> HIDE DEF n
  <2> QED
    BY <1>2, <2>1, JoinedBits
<1>4. c = Body(c)
  <2>1. \A i \in 0 .. n : i = 0 \/ i \in 1 .. n
    OBVIOUS
  <2> QED
    BY <1>2, <1>3, <2>1 DEF Joins
<1>5. joined = Body(joined)
  <2> HIDE DEF Body
  <2> QED
    BY <1>4
<1>6. Joins(joined, e, n)
  <2>1. \A f : Body(f)[0] = <<>> /\ \A i \in 1 .. n : Body(f)[i] = f[i - 1] \o Op(s[i])
    OBVIOUS
  <2> HIDE DEF Body, joined
  <2> QED
    BY <1>2, <1>5, <2>1 DEF Joins
<1> HIDE DEF joined
<1>7. Len(joined[n]) \in Nat
  <2>1. n \in Nat
    BY LenProperties
  <2> HIDE DEF n
  <2>2. joined[n] \in Seq(Bits)
    BY <1>2, <1>6, <2>1, JoinedBits
  <2> QED
    BY <2>2, LenProperties
<1>8. init \in Registers(8)
  <2>1. init \in Seq(Bits) /\ Len(init) = 8
    BY DEF Bits
  <2> QED
    BY <2>1 DEF Registers
<1>9. poly \in [1 .. 8 -> Bits]
  <2>1. 7 \in Octet
    BY DEF Octet
  <2> QED
    BY <2>1, BitsOfType, Reverse8Type
<1> HIDE DEF init, poly
<1>10. reg \in Seq(Bits) /\ Len(reg) = 8
  <2>1. 8 \in Nat \ {0}
    OBVIOUS
  <2>2. reg \in Registers(8)
    BY <1>7, <1>8, <1>9, <2>1, CrcType
  <2> HIDE DEF reg
  <2> QED
    BY <2>2 DEF Registers
<1> HIDE DEF reg
<1>11. \A i \in 1 .. 8 : reg[9 - i] \in Bits
  <2>1. \A i \in 1 .. 8 : 9 - i \in 1 .. 8
    OBVIOUS
  <2> QED
    BY <1>10, <2>1, ElementOfSeq
<1>12. \A i \in 1 .. 8 : Reverse8(reg)[i] \in Bits
  BY <1>11 DEF Reverse8
<1> QED
  BY <1>1, <1>12, ByteOfType

(* and CRC-32C four.                                                       *)
LEMMA Crc32cType ==
  ASSUME NEW s \in Seq(Octet)
  PROVE  Crc32c(s) \in Seq(Octet) /\ Len(Crc32c(s)) = 4
<1> DEFINE init == [i \in 1 .. 32 |-> 1]
           poly == Concat(<<120, 59, 246, 130>>, BitsOf)
           reg == Crc(init, poly, Concat(s, BitsOf))
           b(k) == ByteOf([i \in 1 .. 8 |-> 1 - reg[8 * (k - 1) + i]])
<1>1. Crc32c(s) = [k \in 1 .. 4 |-> b(k)]
  BY DEF Crc32c
<1>2. init \in Registers(32)
  <2>1. init \in Seq(Bits) /\ Len(init) = 32
    BY DEF Bits
  <2> QED
    BY <2>1 DEF Registers
<1>3. poly \in [1 .. 32 -> Bits]
  <2>1. <<120, 59, 246, 130>> \in Seq(Octet) /\ Len(<<120, 59, 246, 130>>) = 4
    BY DEF Octet
  <2>2. poly \in Seq(Bits) /\ Len(poly) = 32
    <3>1. poly \in Seq(Bits) /\ Len(poly) = 8 * Len(<<120, 59, 246, 130>>)
      BY <2>1, BitsOfBytes
    <3> QED
      BY <2>1, <3>1
  <2> HIDE DEF poly
  <2> QED
    BY <2>2, LenProperties
<1>4. Len(Concat(s, BitsOf)) \in Nat
  BY BitsOfBytes, LenProperties
<1> HIDE DEF init, poly
<1>5. reg \in Seq(Bits) /\ Len(reg) = 32
  <2>1. 32 \in Nat \ {0}
    OBVIOUS
  <2>2. reg \in Registers(32)
    BY <1>2, <1>3, <1>4, <2>1, CrcType
  <2> HIDE DEF reg
  <2> QED
    BY <2>2 DEF Registers
<1> HIDE DEF reg
<1>6. ASSUME NEW k \in 1 .. 4 PROVE b(k) \in Octet
  <2>1. \A i \in 1 .. 8 : 8 * (k - 1) + i \in 1 .. 32
    OBVIOUS
  <2>2. \A i \in 1 .. 8 : reg[8 * (k - 1) + i] \in Bits
    BY <1>5, <2>1, ElementOfSeq
  <2> DEFINE inverse == [i \in 1 .. 8 |-> 1 - reg[8 * (k - 1) + i]]
  <2>3. \A i \in 1 .. 8 : inverse[i] \in Bits
    <3>1. \A v \in Bits : 1 - v \in Bits
      BY DEF Bits
    <3> QED
      BY <2>2, <3>1
  <2> HIDE DEF inverse
  <2>4. ByteOf(inverse) \in Octet
    BY <2>3, ByteOfType
  <2> QED
    BY <2>4 DEF inverse
<1> HIDE DEF b
<1> QED
  BY <1>1, <1>6

-----------------------------------------------------------------------------
(* Where the parts of a concatenation lie.                                 *)
Lies(t, p, s) == p + Len(t) <= Len(s) /\ \A i \in 1 .. Len(t) : s[p + i] = t[i]

(* Both parts of a concatenation lie in it.                                *)
LEMMA BothLie ==
  ASSUME NEW S, NEW x \in Seq(S), NEW y \in Seq(S)
  PROVE  /\ x \o y \in Seq(S) /\ Len(x \o y) = Len(x) + Len(y)
         /\ Lies(x, 0, x \o y) /\ Lies(y, Len(x), x \o y)
<1>1. Len(x) \in Nat /\ Len(y) \in Nat
  BY LenProperties
<1>2. x \o y \in Seq(S) /\ Len(x \o y) = Len(x) + Len(y)
  BY ConcatProperties
<1>3. \A i \in 1 .. Len(x) : (x \o y)[0 + i] = x[i]
  <2>1. \A i \in 1 .. Len(x) : 0 + i = i /\ i \in 1 .. Len(x) + Len(y) /\ i <= Len(x)
    BY <1>1
  <2> QED
    BY <2>1, ConcatProperties
<1>4. \A i \in 1 .. Len(y) : (x \o y)[Len(x) + i] = y[i]
  <2>1. \A i \in 1 .. Len(y) : /\ Len(x) + i \in 1 .. Len(x) + Len(y) /\ ~(Len(x) + i <= Len(x))
                               /\ Len(x) + i - Len(x) = i
    BY <1>1
  <2> QED
    BY <2>1, ConcatProperties
<1> QED
  BY <1>1, <1>2, <1>3, <1>4 DEF Lies

(* What lies in a part lies in the whole.                                  *)
LEMMA LiesWithin ==
  ASSUME NEW S, NEW t, Len(t) \in Nat, NEW u \in Seq(S), NEW s \in Seq(S),
         NEW p \in Nat, NEW q \in Nat, Lies(t, p, u), Lies(u, q, s)
  PROVE  Lies(t, q + p, s)
<1>1. Len(u) \in Nat /\ Len(s) \in Nat
  BY LenProperties
<1>2. p + Len(t) <= Len(u) /\ q + Len(u) <= Len(s)
  BY DEF Lies
<1>3. ASSUME NEW i \in 1 .. Len(t) PROVE s[q + p + i] = t[i]
  <2>1. p + i \in 1 .. Len(u) /\ q + (p + i) = q + p + i
    BY <1>1, <1>2
  <2> QED
    BY <2>1 DEF Lies
<1> QED
  BY <1>1, <1>2, <1>3 DEF Lies

-----------------------------------------------------------------------------
(* A ULEB128 of up to four groups of seven bits.                           *)
Group(n, i) == (n \div 128 ^ (i - 1)) % 128

(* A number below Huge takes four groups at most: how many CHOOSE finds.   *)
LEMMA UlebLength ==
  ASSUME NEW n \in 0 .. Huge - 1
  PROVE  \E k \in 1 .. 4 :
           /\ Uleb(n) = [i \in 1 .. k |-> Group(n, i) + (IF i < k THEN 128 ELSE 0)]
           /\ n < 128 ^ k
<1> DEFINE Fits(m) == n < 128 ^ m /\ \A j \in 1 .. m - 1 : n >= 128 ^ j
           k == CHOOSE m \in 1 .. 5 : Fits(m)
<1>1. Uleb(n) = [i \in 1 .. k |-> Group(n, i) + (IF i < k THEN 128 ELSE 0)]
  BY DEF Uleb, Group
<1>2. 128 ^ 1 = 128 /\ 128 ^ 2 = 128 * 128 /\ 128 ^ 3 = 128 * 128 * 128 /\ 128 ^ 4 = Huge /\ n \in Nat
  BY SMT DEF Huge
<1>3. \E m \in 1 .. 4 : Fits(m)
  <2>1. CASE n < 128
    <3>1. Fits(1)
      BY <1>2, <2>1
    <3> QED
      BY <3>1
  <2>2. CASE n >= 128 /\ n < 128 * 128
    <3>1. \A j \in 1 .. 2 - 1 : j = 1
      OBVIOUS
    <3>2. Fits(2)
      BY <1>2, <2>2, <3>1
    <3> QED
      BY <3>2
  <2>3. CASE n >= 128 * 128 /\ n < 128 * 128 * 128
    <3>1. \A j \in 1 .. 3 - 1 : j = 1 \/ j = 2
      OBVIOUS
    <3>2. Fits(3)
      BY <1>2, <2>3, <3>1
    <3> QED
      BY <3>2
  <2>4. CASE n >= 128 * 128 * 128
    <3>1. \A j \in 1 .. 4 - 1 : j = 1 \/ j = 2 \/ j = 3
      OBVIOUS
    <3>2. Fits(4)
      BY <1>2, <2>4, <3>1
    <3> QED
      BY <3>2
  <2> QED
    BY <2>1, <2>2, <2>3, <2>4
<1>4. k \in 1 .. 5 /\ Fits(k)
  <2>1. \E m \in 1 .. 5 : Fits(m)
    <3>1. \A m \in 1 .. 4 : m \in 1 .. 5
      OBVIOUS
    <3> HIDE DEF Fits
    <3> QED
      BY <1>3, <3>1
  <2> HIDE DEF Fits
  <2> QED
    BY <2>1
<1>5. k # 5
  <2>1. ~Fits(5)
    <3>1. 4 \in 1 .. 5 - 1 /\ ~(n >= 128 ^ 4)
      BY <1>2
    <3> QED
      BY <3>1
  <2> HIDE DEF Fits
  <2> QED
    BY <1>4, <2>1
<1>6. k \in 1 .. 4
  <2> HIDE DEF k
  <2> QED
    BY <1>4, <1>5
<1> HIDE DEF k
<1> QED
  BY <1>1, <1>4, <1>6

(* Each byte has its group of seven bits, and the last one says so.        *)
LEMMA UlebIs ==
  ASSUME NEW n \in 0 .. Huge - 1
  PROVE  /\ Uleb(n) \in Seq(Octet) /\ Len(Uleb(n)) \in 1 .. 4
         /\ n < 128 ^ Len(Uleb(n))
         /\ \A i \in 1 .. Len(Uleb(n)) :
              /\ Uleb(n)[i] % 128 = Group(n, i)
              /\ Uleb(n)[i] >= 128 <=> i < Len(Uleb(n))
<1>1. PICK k \in 1 .. 4 :
           /\ Uleb(n) = [i \in 1 .. k |-> Group(n, i) + (IF i < k THEN 128 ELSE 0)]
           /\ n < 128 ^ k
  BY UlebLength
<1>2. \A i \in 1 .. 4 : Group(n, i) \in 0 .. 127
  <2>1. \A i \in 1 .. 4 : i = 1 \/ i = 2 \/ i = 3 \/ i = 4
    OBVIOUS
  <2>2. \A i \in 1 .. 4 : 128 ^ (i - 1) \in Nat \ {0}
    <3>1. ASSUME NEW i \in 1 .. 4 PROVE 128 ^ (i - 1) \in Nat \ {0}
      <4>1. CASE i = 1
        BY <4>1, SMT
      <4>2. CASE i = 2
        BY <4>2, SMT
      <4>3. CASE i = 3
        BY <4>3, SMT
      <4>4. CASE i = 4
        BY <4>4, SMT
      <4> QED
        BY <2>1, <4>1, <4>2, <4>3, <4>4
    <3> QED
      BY <3>1
  <2>3. n \in Nat
    BY SMT DEF Huge
  <2>4. \A w \in Nat \ {0} : (n \div w) % 128 \in 0 .. 127
    BY <2>3, SMT
  <2> QED
    BY <2>2, <2>4 DEF Group
<1> DEFINE u == Uleb(n)
<1>3. \A i \in 1 .. k : i \in 1 .. 4 /\ u[i] = Group(n, i) + (IF i < k THEN 128 ELSE 0)
  BY <1>1
<1>4. \A i \in 1 .. k : u[i] \in Octet /\ u[i] % 128 = Group(n, i) /\ (u[i] >= 128 <=> i < k)
  <2> HIDE DEF u
  <2>1. ASSUME NEW g \in 0 .. 127
        PROVE  g % 128 = g /\ (g + 128) % 128 = g /\ ~(g >= 128) /\ g + 128 >= 128
               /\ g + 128 \in Octet /\ g + 0 = g /\ g \in Octet
    BY DEF Octet
  <2> QED
    BY <1>2, <1>3, <2>1
<1>5. u \in Seq(Octet) /\ Len(u) = k
  <2>1. u \in [1 .. k -> Octet]
    BY <1>1, <1>4
  <2> HIDE DEF u
  <2> QED
    BY <2>1
<1> HIDE DEF u
<1> QED
  BY <1>1, <1>4, <1>5 DEF u

(* What the groups read so far have added up to.                           *)
LEMMA GroupsAddUp ==
  ASSUME NEW n \in 0 .. Huge - 1, NEW g \in 0 .. 3
  PROVE  /\ n % 128 ^ 0 = 0
         /\ (n % 128 ^ g) + Group(n, g + 1) * 128 ^ g = n % 128 ^ (g + 1)
         /\ n < 128 ^ (g + 1) => n % 128 ^ (g + 1) = n
<1>1. g = 0 \/ g = 1 \/ g = 2 \/ g = 3
  OBVIOUS
<1>2. n \in Nat
  BY SMT DEF Huge
<1>3. /\ 128 ^ 0 = 1 /\ 128 ^ 1 = 128 /\ 128 ^ 2 = 16384 /\ 128 ^ 3 = 2097152
      /\ 128 ^ 4 = 268435456
  BY SMT
<1>4. /\ n % 1 = 0 /\ n \div 1 = n
      /\ (n % 128) + ((n \div 128) % 128) * 128 = n % 16384
      /\ (n % 16384) + ((n \div 16384) % 128) * 16384 = n % 2097152
      /\ (n % 2097152) + ((n \div 2097152) % 128) * 2097152 = n % 268435456
  BY <1>2, SMT
<1>5. n % 128 ^ 0 = 0
  BY <1>4, SMT
<1>6. CASE g = 0
  BY <1>2, <1>4, <1>6, SMT DEF Group
<1>7. CASE g = 1
  BY <1>2, <1>4, <1>7, SMT DEF Group
<1>8. CASE g = 2
  BY <1>2, <1>4, <1>8, SMT DEF Group
<1>9. CASE g = 3
  BY <1>2, <1>4, <1>9, SMT DEF Group
<1> QED
  BY <1>1, <1>5, <1>6, <1>7, <1>8, <1>9

-----------------------------------------------------------------------------
(* The layout of a container.                                              *)
LEMMA AppendedLies ==
  ASSUME NEW S, NEW x \in Seq(S), NEW y \in Seq(S), NEW s \in Seq(S), Lies(x \o y, 0, s)
  PROVE  Lies(x, 0, s) /\ Lies(y, Len(x), s)
<1>1. x \o y \in Seq(S) /\ Lies(x, 0, x \o y) /\ Lies(y, Len(x), x \o y)
  BY BothLie
<1>2. Len(x) \in Nat /\ Len(y) \in Nat /\ 0 \in Nat /\ 0 + 0 = 0 /\ 0 + Len(x) = Len(x)
  BY LenProperties
<1>3. Lies(x, 0 + 0, s)
  BY <1>1, <1>2, LiesWithin
<1>4. Lies(y, 0 + Len(x), s)
  BY <1>1, <1>2, LiesWithin
<1> QED
  BY <1>2, <1>3, <1>4

(* A sequence lies in itself.                                              *)
LEMMA LiesItself ==
  ASSUME NEW S, NEW s \in Seq(S)
  PROVE  Lies(s, 0, s)
<1>1. Len(s) \in Nat
  BY LenProperties
<1> QED
  BY <1>1 DEF Lies

(* How long the optional fields of the header are.                         *)
ExponentLen(h) == IF h.flags.window = 3 THEN 1 ELSE 0
SizeLen(h) == IF h.flags.size THEN Len(Uleb(h.size)) ELSE 0
DictionaryLen(h) == IF h.flags.dictionary THEN 4 ELSE 0

(* Four bytes.                                                             *)
LEMMA LE4Type ==
  ASSUME NEW n \in 0 .. Huge - 1
  PROVE  LE4(n) \in Seq(Octet) /\ Len(LE4(n)) = 4
<1>1. n \in Nat
  BY SMT DEF Huge
<1>2. n \div 16777216 \in Octet
  BY SMT DEF Huge, Octet
<1>3. n % 256 \in Octet /\ (n \div 256) % 256 \in Octet /\ (n \div 65536) % 256 \in Octet
  BY <1>1, SMT DEF Octet
<1>4. \A a \in Octet : \A b \in Octet : \A c \in Octet : \A d \in Octet :
        <<a, b, c, d>> \in Seq(Octet) /\ Len(<<a, b, c, d>>) = 4
  OBVIOUS
<1> QED
  BY <1>2, <1>3, <1>4, SMT DEF LE4

(* The flags are read back as they were written, and none is reserved.     *)
LEMMA FlagByteType ==
  ASSUME NEW h \in StreamHeaders
  PROVE  /\ FlagByte(h.flags) \in 0 .. 63
         /\ ParsedFlags(FlagByte(h.flags)) = h.flags
<1> DEFINE f == h.flags
           a == Bit(f.size, 1)
           b == Bit(f.checksum, 2)
           c == Bit(f.dictionary, 4)
           d == Bit(f.independent, 8)
           w == f.window
<1>1. f \in [size : BOOLEAN, checksum : BOOLEAN, dictionary : BOOLEAN, independent : BOOLEAN,
             window : 0 .. 3]
  BY DEF StreamHeaders
<1> HIDE DEF f
<1>2. /\ a \in {0, 1} /\ b \in {0, 2} /\ c \in {0, 4} /\ d \in {0, 8} /\ w \in 0 .. 3
      /\ a = 1 <=> f.size
      /\ b = 2 <=> f.checksum
      /\ c = 4 <=> f.dictionary
      /\ d = 8 <=> f.independent
  BY <1>1 DEF Bit
<1>3. FlagByte(f) = a + b + c + d + 16 * w
  BY DEF FlagByte
<1> HIDE DEF a, b, c, d
<1> DEFINE n == a + b + c + d + 16 * w
<1>4. /\ n \in 0 .. 63
      /\ n % 2 = 1 <=> a = 1
      /\ (n \div 2) % 2 = 1 <=> b = 2
      /\ (n \div 4) % 2 = 1 <=> c = 4
      /\ (n \div 8) % 2 = 1 <=> d = 8
      /\ (n \div 16) % 4 = w
  <2> HIDE DEF w
  <2>1. a = 0 \/ a = 1
    BY <1>2
  <2>2. b = 0 \/ b = 2
    BY <1>2
  <2>3. c = 0 \/ c = 4
    BY <1>2
  <2>4. d = 0 \/ d = 8
    BY <1>2
  <2> QED
    BY <1>2, <2>1, <2>2, <2>3, <2>4
<1> HIDE DEF n
<1>5. ParsedFlags(n) = f
  <2>1. ParsedFlags(n) =
          [size |-> f.size, checksum |-> f.checksum, dictionary |-> f.dictionary,
           independent |-> f.independent, window |-> f.window]
    BY <1>1, <1>2, <1>4 DEF ParsedFlags
  <2> QED
    BY <1>1, <2>1
<1> QED
  BY <1>3, <1>4, <1>5 DEF n, f

(* Where the fields of the stream header lie.                              *)
LEMMA FieldsLie ==
  ASSUME NEW h \in StreamHeaders
  PROVE  LET f == HeaderFields(h) IN
         /\ f \in Seq(Octet)
         /\ Len(f) = 3 + ExponentLen(h) + SizeLen(h) + DictionaryLen(h)
         /\ Lies(<<16>>, 0, f) /\ Lies(<<FlagByte(h.flags), 0>>, 1, f)
         /\ h.flags.window = 3 => Lies(<<h.exponent>>, 3, f)
         /\ h.flags.size => Lies(Uleb(h.size), 3 + ExponentLen(h), f)
         /\ h.flags.dictionary => Lies(LE4(h.dictionary), 3 + ExponentLen(h) + SizeLen(h), f)
<1> DEFINE f == HeaderFields(h)
           v == <<16>>
           g == <<FlagByte(h.flags), 0>>
           e == IF h.flags.window = 3 THEN <<h.exponent>> ELSE <<>>
           u == IF h.flags.size THEN Uleb(h.size) ELSE <<>>
           d == IF h.flags.dictionary THEN LE4(h.dictionary) ELSE <<>>
<1>1. f = (((v \o g) \o e) \o u) \o d
  BY DEF HeaderFields
<1>2. v \in Seq(Octet) /\ Len(v) = 1
  BY DEF Octet
<1>3. g \in Seq(Octet) /\ Len(g) = 2
  <2>1. FlagByte(h.flags) \in Octet /\ 0 \in Octet
    BY FlagByteType DEF Octet
  <2> QED
    BY <2>1
<1>4. /\ e \in Seq(Octet) /\ Len(e) = ExponentLen(h)
      /\ h.flags.window = 3 => e = <<h.exponent>>
  <2>1. h.exponent \in Octet
    BY DEF StreamHeaders, Octet
  <2> QED
    BY <2>1 DEF ExponentLen
<1>5. /\ u \in Seq(Octet) /\ Len(u) = SizeLen(h)
      /\ h.flags.size => u = Uleb(h.size)
  <2>1. h.size \in 0 .. Huge - 1
    BY DEF StreamHeaders
  <2>2. Uleb(h.size) \in Seq(Octet)
    BY <2>1, UlebIs
  <2>3. <<>> \in Seq(Octet) /\ Len(<<>>) = 0
    OBVIOUS
  <2> QED
    BY <2>2, <2>3 DEF SizeLen
<1>6. /\ d \in Seq(Octet) /\ Len(d) = DictionaryLen(h)
      /\ h.flags.dictionary => d = LE4(h.dictionary)
  <2>1. h.dictionary \in 0 .. Huge - 1
    BY DEF StreamHeaders
  <2>2. LE4(h.dictionary) \in Seq(Octet) /\ Len(LE4(h.dictionary)) = 4
    BY <2>1, LE4Type
  <2>3. <<>> \in Seq(Octet) /\ Len(<<>>) = 0
    OBVIOUS
  <2>4. CASE h.flags.dictionary
    BY <2>2, <2>4 DEF DictionaryLen
  <2>5. CASE ~h.flags.dictionary
    BY <2>3, <2>5 DEF DictionaryLen
  <2> QED
    BY <2>4, <2>5
<1> HIDE DEF v, g, e, u, d, f
<1> DEFINE x1 == v \o g
           x2 == x1 \o e
           x3 == x2 \o u
<1>7. x1 \in Seq(Octet) /\ Len(x1) = 3
  <2>1. x1 \in Seq(Octet) /\ Len(x1) = Len(v) + Len(g)
    BY <1>2, <1>3, BothLie
  <2> QED
    BY <1>2, <1>3, <2>1
<1>8. x2 \in Seq(Octet) /\ Len(x2) = 3 + ExponentLen(h)
  <2> HIDE DEF x1
  <2> QED
    BY <1>4, <1>7, BothLie, ZenonT(30)
<1>9. x3 \in Seq(Octet) /\ Len(x3) = 3 + ExponentLen(h) + SizeLen(h)
  <2> HIDE DEF x2
  <2> QED
    BY <1>5, <1>8, BothLie
<1>10. f \in Seq(Octet) /\ Len(f) = 3 + ExponentLen(h) + SizeLen(h) + DictionaryLen(h)
  <2>1. f = x3 \o d
    BY <1>1
  <2> HIDE DEF x3
  <2> QED
    BY <1>6, <1>9, <2>1, BothLie, ZenonT(30)
<1>11. Lies(x3, 0, f) /\ Lies(d, Len(x3), f)
  <2>1. f = x3 \o d
    BY <1>1
  <2> HIDE DEF x3
  <2> QED
    BY <1>6, <1>9, <2>1, BothLie
<1>12. Lies(x2, 0, f) /\ Lies(u, Len(x2), f)
  <2>1. Lies(x2 \o u, 0, f)
    BY <1>11
  <2> HIDE DEF x2
  <2> QED
    BY <1>5, <1>8, <1>10, <2>1, AppendedLies
<1>13. Lies(x1, 0, f) /\ Lies(e, Len(x1), f)
  <2>1. Lies(x1 \o e, 0, f)
    BY <1>12
  <2> HIDE DEF x1
  <2> QED
    BY <1>4, <1>7, <1>10, <2>1, AppendedLies
<1>14. Lies(v, 0, f) /\ Lies(g, Len(v), f)
  BY <1>2, <1>3, <1>10, <1>13, AppendedLies
<1> HIDE DEF x1, x2, x3
<1>15. /\ Lies(v, 0, f) /\ Lies(g, 1, f)
       /\ h.flags.window = 3 => Lies(<<h.exponent>>, 3, f)
       /\ h.flags.size => Lies(Uleb(h.size), 3 + ExponentLen(h), f)
       /\ h.flags.dictionary => Lies(LE4(h.dictionary), 3 + ExponentLen(h) + SizeLen(h), f)
  BY <1>2, <1>4, <1>5, <1>6, <1>7, <1>8, <1>9, <1>11, <1>12, <1>13, <1>14, Zenon
<1> QED
  BY <1>10, <1>15 DEF f, v, g

(* How long the fields of the block header are, its first byte and CRC     *)
(* beside.                                                                 *)
SizeWidth(s) == IF Len(s) < Escape THEN 2 ELSE 6
CountLen(s) == Len(Uleb(Len(s)))
BlockHeaderLen(s) == 5 + SizeWidth(s) + CountLen(s)

(* Numbers of two bytes.                                                   *)
Word == {n \in Nat : n < 65536}

(* Such as the escape.                                                     *)
LEMMA EscapeIsWord == Escape \in Word /\ Escape \in Nat \ {0} /\ ~(Escape < Escape)
<1>1. Escape \in Int /\ 1 <= Escape /\ Escape <= 65535
  BY EscapeAssumption, SMTT(30)
<1>2. Escape \in Nat \ {0} /\ Escape < 65536 /\ ~(Escape < Escape)
  BY <1>1
<1> QED
  BY <1>2, SMTT(30) DEF Word

(* What is encoded is short enough for all of this.                        *)
LEMMA PlainIs ==
  ASSUME NEW s \in Plain
  PROVE  /\ s \in Seq(Octet) /\ Len(s) \in Nat /\ Len(s) \in Word
         /\ Len(s) \in 0 .. Huge - 1
         /\ Digest(s) \in Seq(Octet) /\ Len(Digest(s)) = 8
         /\ ~BeginsWithMagic(s)
<1>1. s \in Seq(Octet)
  BY FrontEndsAssumption
<1>2. Len(s) \in Nat /\ Len(s) < 65536
  <2>1. Len(s) \in Nat
    BY <1>1, LenProperties
  <2>2. Len(s) < 65536
    BY FilesAssumption, SMT
  <2> QED
    BY <2>1, <2>2, SMT
<1>3. Len(s) \in Word
  BY <1>2, SMT DEF Word
<1>7. Len(s) \in 0 .. Huge - 1
  <2>1. 65536 < Huge
    BY SMT DEF Huge
  <2>2. Huge \in Nat
    BY SMT DEF Huge
  <2> QED
    BY <1>2, <2>1, <2>2, SMT
<1>4. Digest(s) \in [1 .. 8 -> Octet]
  BY FilesAssumption
<1>5. \A f \in [1 .. 8 -> Octet] : f \in Seq(Octet) /\ Len(f) = 8
  <2> SUFFICES ASSUME NEW f \in [1 .. 8 -> Octet] PROVE f \in Seq(Octet) /\ Len(f) = 8
    OBVIOUS
  <2>1. f \in UNION {[1 .. k -> Octet] : k \in Nat}
    <3>1. 8 \in Nat
      OBVIOUS
    <3> QED
      BY <3>1, Zenon
  <2>2. f \in Seq(Octet)
    BY <2>1, SeqDef
  <2>3. Len(f) \in Nat /\ 1 .. Len(f) = 1 .. 8
    BY <2>2, LenProperties
  <2> QED
    BY <2>2, <2>3
<1>6. ~BeginsWithMagic(s)
  BY FilesAssumption
<1>8. Len(s) \in Nat
  BY <1>1, LenProperties
<1> QED
  BY <1>1, <1>3, <1>4, <1>5, <1>6, <1>7, <1>8, Zenon

(* Two bytes.                                                              *)
LEMMA LE2Type ==
  ASSUME NEW n \in Word
  PROVE  LE2(n) \in Seq(Octet) /\ Len(LE2(n)) = 2
<1>1. n % 256 \in Octet /\ n \div 256 \in Octet
  <2>1. n \in Nat /\ n < 65536
    BY SMT DEF Word
  <2> QED
    BY <2>1, SMT DEF Octet
<1> QED
  BY <1>1 DEF LE2

(* Where the fields of a block lie.                                        *)
LEMMA RawBlockLies ==
  ASSUME NEW s \in Plain
  PROVE  LET r == RawBlock(s, TRUE) IN
         /\ r \in Seq(Octet)
         /\ Len(r) = BlockHeaderLen(s) + Len(s)
         /\ SizeWidth(s) \in {2, 6} /\ CountLen(s) \in 1 .. 4
         /\ Lies(<<24>>, 0, r)
         /\ Len(s) < Escape => Lies(LE2(Len(s)), 1, r)
         /\ ~(Len(s) < Escape) => Lies(LE2(Escape), 1, r) /\ Lies(LE4(Len(s)), 3, r)
         /\ Lies(Uleb(Len(s)), 1 + SizeWidth(s), r)
         /\ Lies(Crc32c(s), 1 + SizeWidth(s) + CountLen(s), r)
         /\ Lies(s, BlockHeaderLen(s), r)
<1> DEFINE r == RawBlock(s, TRUE)
           b == <<24>>
           c == IF Len(s) < Escape THEN LE2(Len(s)) ELSE LE2(Escape) \o LE4(Len(s))
           u == Uleb(Len(s))
           k == Crc32c(s)
           w == SizeWidth(s)
           m == CountLen(s)
<1>1. r = (((b \o c) \o u) \o k) \o s
  BY DEF RawBlock, Bit
<1>2. b \in Seq(Octet) /\ Len(b) = 1
  BY DEF Octet
<1>3. LE2(Len(s)) \in Seq(Octet) /\ Len(LE2(Len(s))) = 2
  <2>1. Len(s) \in Word
    BY PlainIs
  <2> QED
    BY <2>1, LE2Type, Zenon
<1>4. LE2(Escape) \in Seq(Octet) /\ Len(LE2(Escape)) = 2
  <2>1. Escape \in Word
    BY EscapeIsWord
  <2> QED
    BY <2>1, LE2Type
<1>5. LE4(Len(s)) \in Seq(Octet) /\ Len(LE4(Len(s))) = 4
  <2>1. Len(s) \in 0 .. Huge - 1
    BY PlainIs
  <2> QED
    BY <2>1, LE4Type, Zenon
<1>6. c \in Seq(Octet) /\ Len(c) = w /\ w \in {2, 6}
  <2>1. CASE Len(s) < Escape
    BY <1>3, <2>1 DEF SizeWidth
  <2>2. CASE ~(Len(s) < Escape)
    <3> DEFINE p == LE2(Escape)
               q == LE4(Len(s))
    <3>1. c = p \o q
      BY <2>2
    <3>2. p \in Seq(Octet) /\ q \in Seq(Octet) /\ Len(p) = 2 /\ Len(q) = 4
      BY <1>4, <1>5
    <3> HIDE DEF p, q, c
    <3>3. c \in Seq(Octet) /\ Len(c) = Len(p) + Len(q)
      BY <3>1, <3>2, BothLie
    <3> QED
      BY <2>2, <3>2, <3>3 DEF SizeWidth
  <2> QED
    BY <2>1, <2>2
<1>7. u \in Seq(Octet) /\ Len(u) = m /\ m \in 1 .. 4
  <2>1. Len(s) \in 0 .. Huge - 1
    BY PlainIs
  <2> QED
    BY <2>1, UlebIs, Zenon DEF CountLen
<1>8. s \in Seq(Octet) /\ Len(s) \in Nat
  BY PlainIs, LenProperties
<1>9. k \in Seq(Octet) /\ Len(k) = 4
  BY <1>8, Crc32cType
<1>10. /\ Len(s) < Escape => c = LE2(Len(s))
       /\ ~(Len(s) < Escape) => c = LE2(Escape) \o LE4(Len(s))
  BY Zenon
<1> HIDE DEF r, b, c, u, k, w, m
<1> DEFINE x1 == b \o c
           x2 == x1 \o u
           x3 == x2 \o k
<1>11. x1 \in Seq(Octet) /\ Len(x1) = 1 + w
  <2>1. x1 \in Seq(Octet) /\ Len(x1) = Len(b) + Len(c)
    BY <1>2, <1>6, BothLie
  <2> QED
    BY <1>2, <1>6, <2>1
<1>12. x2 \in Seq(Octet) /\ Len(x2) = 1 + w + m
  <2> HIDE DEF x1
  <2> QED
    BY <1>7, <1>11, BothLie
<1>13. x3 \in Seq(Octet) /\ Len(x3) = 5 + w + m
  <2> HIDE DEF x2
  <2>1. x3 \in Seq(Octet) /\ Len(x3) = Len(x2) + Len(k)
    BY <1>9, <1>12, BothLie
  <2>2. w \in Nat /\ m \in Nat
    BY <1>6, <1>7
  <2> QED
    BY <1>9, <1>12, <2>1, <2>2
<1>14. r \in Seq(Octet) /\ Len(r) = 5 + w + m + Len(s) /\ Lies(x3, 0, r) /\ Lies(s, Len(x3), r)
  <2>1. r = x3 \o s
    BY <1>1
  <2> HIDE DEF x3
  <2> QED
    BY <1>8, <1>13, <2>1, BothLie
<1>15. Lies(x2, 0, r) /\ Lies(k, Len(x2), r)
  <2>1. Lies(x2 \o k, 0, r)
    BY <1>14
  <2> HIDE DEF x2
  <2> QED
    BY <1>9, <1>12, <1>14, <2>1, AppendedLies
<1>16. Lies(x1, 0, r) /\ Lies(u, Len(x1), r)
  <2>1. Lies(x1 \o u, 0, r)
    BY <1>15
  <2> HIDE DEF x1
  <2> QED
    BY <1>7, <1>11, <1>14, <2>1, AppendedLies
<1>17. Lies(b, 0, r) /\ Lies(c, 1, r)
  BY <1>2, <1>6, <1>14, <1>16, AppendedLies
<1> HIDE DEF x1, x2, x3
<1>18. ~(Len(s) < Escape) => Lies(LE2(Escape), 1, r) /\ Lies(LE4(Len(s)), 3, r)
  <2> SUFFICES ASSUME ~(Len(s) < Escape)
               PROVE  Lies(LE2(Escape), 1, r) /\ Lies(LE4(Len(s)), 3, r)
    OBVIOUS
  <2> DEFINE p == LE2(Escape)
             q == LE4(Len(s))
  <2>1. c = p \o q
    BY <1>10
  <2>2. p \in Seq(Octet) /\ q \in Seq(Octet) /\ Len(p) = 2 /\ Len(q) = 4
    BY <1>4, <1>5
  <2> HIDE DEF p, q
  <2>3. Lies(p, 0, c) /\ Lies(q, Len(p), c)
    BY <2>1, <2>2, BothLie
  <2>4. Lies(p, 1 + 0, r) /\ Lies(q, 1 + 2, r)
    <3>1. Len(p) \in Nat /\ Len(q) \in Nat /\ 0 \in Nat /\ 1 \in Nat /\ 2 \in Nat
      BY <2>2
    <3>2. Lies(q, 2, c)
      BY <2>2, <2>3
    <3> QED
      BY <1>6, <1>14, <1>17, <2>3, <3>1, <3>2, LiesWithin
  <2>5. 1 + 0 = 1 /\ 1 + 2 = 3
    OBVIOUS
  <2> QED
    BY <2>4, <2>5 DEF p, q
<1> QED
  BY <1>6, <1>7, <1>10, <1>11, <1>12, <1>13, <1>14, <1>15, <1>16, <1>17, <1>18
  DEF r, b, u, k, w, m, BlockHeaderLen

(* How long a stream header, a block and a container are.                  *)
HeadLen(h) == 5 + Len(HeaderFields(h))
BlockLen(s) == IF s = <<>> THEN 0 ELSE BlockHeaderLen(s) + Len(s)
TotalLen(h, s) == HeadLen(h) + BlockLen(s) + 1 + (IF h.flags.checksum THEN 8 ELSE 0)

(* Where the parts of a container lie.                                     *)
LEMMA ContainerLies ==
  ASSUME NEW h \in StreamHeaders, NEW s \in Plain
  PROVE  LET c == ContainerOf(h, s) IN
         /\ c \in Seq(Octet) /\ Len(c) = TotalLen(h, s)
         /\ HeadLen(h) \in Nat \ {0} /\ BlockLen(s) \in Nat
         /\ Len(StreamHeader(h)) = HeadLen(h)
         /\ Lies(Magic, 0, c) /\ Lies(HeaderFields(h), 4, c)
         /\ Lies(<<Crc8(HeaderFields(h))>>, 4 + Len(HeaderFields(h)), c)
         /\ s # <<>> => Lies(RawBlock(s, TRUE), HeadLen(h), c)
         /\ Lies(<<23>>, HeadLen(h) + BlockLen(s), c)
         /\ h.flags.checksum => Lies(Digest(s), HeadLen(h) + BlockLen(s) + 1, c)
<1> DEFINE c == ContainerOf(h, s)
           g == Magic
           f == HeaderFields(h)
           k == <<Crc8(f)>>
           r == IF s = <<>> THEN <<>> ELSE RawBlock(s, TRUE)
           e == <<23>>
           d == IF h.flags.checksum THEN Digest(s) ELSE <<>>
           y == g \o f
           x == y \o k
           x1 == x \o r
           x2 == x1 \o e
<1>1. c = x2 \o d /\ StreamHeader(h) = x
  BY DEF ContainerOf, StreamHeader, EndOfStream
<1>2. g \in Seq(Octet) /\ Len(g) = 4
  BY DEF Magic, Octet
<1>3. f \in Seq(Octet) /\ Len(f) \in Nat
  BY FieldsLie, LenProperties
<1>4. k \in Seq(Octet) /\ Len(k) = 1
  BY <1>3, Crc8Type
<1>5. /\ r \in Seq(Octet) /\ Len(r) = BlockLen(s) /\ Len(r) \in Nat
      /\ s # <<>> => r = RawBlock(s, TRUE)
  <2>1. CASE s = <<>>
    BY <2>1 DEF BlockLen
  <2>2. CASE s # <<>>
    <3> DEFINE q == RawBlock(s, TRUE)
    <3>1. q \in Seq(Octet) /\ Len(q) = BlockHeaderLen(s) + Len(s)
      BY RawBlockLies
    <3>2. r = q
      BY <2>2
    <3> HIDE DEF q, r
    <3>3. Len(q) \in Nat
      BY <3>1, LenProperties
    <3> QED
      BY <2>2, <3>1, <3>2, <3>3 DEF BlockLen, q
  <2> QED
    BY <2>1, <2>2
<1>6. e \in Seq(Octet) /\ Len(e) = 1
  BY DEF Octet
<1>7. /\ d \in Seq(Octet) /\ Len(d) = IF h.flags.checksum THEN 8 ELSE 0
      /\ h.flags.checksum => d = Digest(s)
  <2>1. Digest(s) \in Seq(Octet) /\ Len(Digest(s)) = 8
    BY PlainIs
  <2>2. <<>> \in Seq(Octet) /\ Len(<<>>) = 0
    OBVIOUS
  <2>3. CASE h.flags.checksum
    BY <2>1, <2>3
  <2>4. CASE ~h.flags.checksum
    BY <2>2, <2>4
  <2> QED
    BY <2>3, <2>4
<1> HIDE DEF c, g, f, k, r, e, d
<1>8. y \in Seq(Octet) /\ Len(y) = 4 + Len(f)
  BY <1>2, <1>3, BothLie
<1>9. x \in Seq(Octet) /\ Len(x) = 5 + Len(f)
  <2> HIDE DEF y
  <2>1. x \in Seq(Octet) /\ Len(x) = Len(y) + Len(k)
    BY <1>4, <1>8, BothLie
  <2> QED
    BY <1>3, <1>4, <1>8, <2>1
<1>10. x1 \in Seq(Octet) /\ Len(x1) = 5 + Len(f) + Len(r)
  <2> HIDE DEF x
  <2> QED
    BY <1>5, <1>9, BothLie
<1>11. x2 \in Seq(Octet) /\ Len(x2) = 6 + Len(f) + Len(r)
  <2> HIDE DEF x1
  <2>1. x2 \in Seq(Octet) /\ Len(x2) = Len(x1) + Len(e)
    BY <1>6, <1>10, BothLie
  <2> QED
    BY <1>3, <1>5, <1>6, <1>10, <2>1
<1>12. /\ c \in Seq(Octet) /\ Len(c) = 6 + Len(f) + Len(r) + Len(d)
       /\ Lies(x2, 0, c) /\ Lies(d, Len(x2), c)
  <2> HIDE DEF x2
  <2> QED
    BY <1>1, <1>7, <1>11, BothLie, ZenonT(30)
<1>13. Lies(x1, 0, c) /\ Lies(e, Len(x1), c)
  <2>1. Lies(x1 \o e, 0, c)
    BY <1>12
  <2> HIDE DEF x1
  <2> QED
    BY <1>6, <1>10, <1>12, <2>1, AppendedLies
<1>14. Lies(x, 0, c) /\ Lies(r, Len(x), c)
  <2>1. Lies(x \o r, 0, c)
    BY <1>13
  <2> HIDE DEF x
  <2> QED
    BY <1>5, <1>9, <1>12, <2>1, AppendedLies
<1>15. Lies(y, 0, c) /\ Lies(k, Len(y), c)
  <2>1. Lies(y \o k, 0, c)
    BY <1>14
  <2> HIDE DEF y
  <2> QED
    BY <1>4, <1>8, <1>12, <2>1, AppendedLies
<1>16. Lies(g, 0, c) /\ Lies(f, Len(g), c)
  BY <1>2, <1>3, <1>12, <1>15, AppendedLies
<1>17. HeadLen(h) = 5 + Len(f) /\ HeadLen(h) \in Nat \ {0}
  BY <1>3 DEF HeadLen, f
<1>18. /\ Len(x) = HeadLen(h) /\ Len(x1) = HeadLen(h) + BlockLen(s)
       /\ Len(x2) = HeadLen(h) + BlockLen(s) + 1
       /\ Len(y) = 4 + Len(f) /\ Len(g) = 4
  <2> HIDE DEF x, x1, x2, y
  <2> QED
    BY <1>2, <1>3, <1>5, <1>8, <1>9, <1>10, <1>11, <1>17, SMTT(30)
<1>19. Len(c) = TotalLen(h, s)
  BY <1>3, <1>5, <1>7, <1>12, <1>17 DEF TotalLen
<1> HIDE DEF x, x1, x2, y
<1>20. /\ s # <<>> => Lies(RawBlock(s, TRUE), HeadLen(h), c)
       /\ h.flags.checksum => Lies(Digest(s), HeadLen(h) + BlockLen(s) + 1, c)
  BY <1>5, <1>7, <1>12, <1>14, <1>18, Zenon
<1>21. Lies(k, 4 + Len(f), c) /\ Lies(e, HeadLen(h) + BlockLen(s), c) /\ Lies(f, 4, c)
  BY <1>13, <1>15, <1>16, <1>18, Zenon
<1>22. BlockLen(s) \in Nat /\ Len(StreamHeader(h)) = HeadLen(h)
  BY <1>1, <1>5, <1>18
<1> QED
  BY <1>12, <1>16, <1>17, <1>19, <1>20, <1>21, <1>22 DEF c, g, f, k, e

(* Input that begins as a container does, or is its beginning.             *)
Agree(s, c) == \A i \in 1 .. Len(s) : i <= Len(c) => s[i] = c[i]

(* Where a file agrees with a container it has the bytes that lie there.   *)
LEMMA BytesAre ==
  ASSUME NEW s \in Seq(Octet), NEW c \in Seq(Octet), Agree(s, c),
         NEW t \in Seq(Octet), NEW p \in Nat, Lies(t, p, c), p + Len(t) <= Len(s)
  PROVE  SubSeq(s, p + 1, p + Len(t)) = t
<1> DEFINE b == SubSeq(s, p + 1, p + Len(t))
<1>1. Len(t) \in Nat /\ Len(s) \in Nat /\ Len(c) \in Nat
  BY LenProperties
<1>2. b \in Seq(Octet) /\ Len(b) = Len(t)
  BY <1>1, NextElements
<1>3. \A i \in 1 .. Len(t) : b[i] = s[p + i]
  BY <1>1, SliceElements
<1>4. ASSUME NEW i \in 1 .. Len(t)
      PROVE  s[p + i] = t[i]
  <2>1. p + i \in 1 .. Len(s) /\ p + i <= Len(c) /\ c[p + i] = t[i]
    BY <1>1 DEF Lies
  <2> QED
    BY <2>1 DEF Agree
<1> HIDE DEF b
<1>5. b = t
  BY <1>1, <1>2, <1>3, <1>4, SeqEqual
<1> QED
  BY <1>5 DEF b

-----------------------------------------------------------------------------
(* Where a reader of a container of the data s with the header h is.       *)
Fields == {"exponent", "size", "dictionary", "crc"}
BlockFields == {"csize", "extended", "usize", "blockCrc", "payload"}
HeaderStages == {"magic", "version", "flags"} \cup Fields
Stages == HeaderStages \cup {"block", "digest", "idle"} \cup BlockFields

Blocks == [type : 0 .. 7, hasChecksum : BOOLEAN, csize : Nat, usize : Nat, crc : Seq(Octet)]

(* The types of the reader, the bound of the groups of ULEB128 with them.  *)
ReaderTyped ==
  /\ input \in Seq(Octet) /\ at \in Nat /\ mode \in {"decode", "inspect"} /\ limit \in Nat
  /\ rpc \in Stages /\ covered \in Seq(Octet) /\ out \in Seq(Octet)
  /\ block \in Blocks
  /\ groups \in Nat /\ (rpc \in {"csize", "extended", "usize"} => groups \in 0 .. 4)
  /\ rpc # "idle" => outcome = "none"

(* k bytes of the fields have been read, and g of them of the size.        *)
FieldAt(h, what, k, g) ==
  /\ what \in Fields
  /\ what = "exponent" => h.flags.window = 3 /\ k = 3 /\ g = 0
  /\ what = "size" => h.flags.size /\ g < SizeLen(h) /\ k = 3 + ExponentLen(h) + g
  /\ what = "dictionary" => h.flags.dictionary /\ k = 3 + ExponentLen(h) + SizeLen(h)
  /\ what = "crc" => k = Len(HeaderFields(h))

(* k bytes of the header fields are read and covered.                      *)
FieldsRead(h, k) ==
  /\ k \in 0 .. Len(HeaderFields(h)) /\ covered = SubSeq(HeaderFields(h), 1, k)
  /\ at = 4 + k

(* Where it is in the stream header.                                       *)
InHeader(h) ==
  /\ rpc = "magic" => at = 0 /\ covered = <<>> /\ groups = 0
  /\ rpc = "version" => FieldsRead(h, 0) /\ groups = 0
  /\ rpc = "flags" => FieldsRead(h, 1) /\ groups = 0
  /\ rpc \in Fields =>
       /\ FieldsRead(h, Len(covered)) /\ flags = h.flags
       /\ FieldAt(h, rpc, Len(covered), groups)

(* The first block, the only one of data, and what is behind it.           *)
AtBlock(h, s) == at = HeadLen(h) /\ out = <<>> /\ at <= Len(input)

BehindBlock(h, s) ==
  /\ s # <<>> /\ at = HeadLen(h) + BlockLen(s)
  /\ HeadLen(h) + BlockHeaderLen(s) <= Len(input)
  /\ mode = "decode" => out = s /\ Len(s) <= limit

(* Where it is in the block, and what it knows of it.                      *)
InBlock(h, s) ==
  /\ rpc = "block" => flags = h.flags /\ (AtBlock(h, s) \/ BehindBlock(h, s))
  /\ rpc \in BlockFields =>
       /\ flags = h.flags /\ s # <<>> /\ out = <<>> /\ block.type = 0 /\ block.hasChecksum
  /\ rpc = "csize" => at = HeadLen(h) + 1 /\ groups = 0 /\ block.usize = 0
  /\ rpc = "extended" => at = HeadLen(h) + 3 /\ groups = 0 /\ block.usize = 0 /\ ~(Len(s) < Escape)
  /\ rpc = "usize" =>
       /\ groups < CountLen(s) /\ at = HeadLen(h) + 1 + SizeWidth(s) + groups
       /\ block.csize = Len(s) /\ block.usize = Len(s) % 128 ^ groups
  /\ rpc = "blockCrc" =>
       /\ at = HeadLen(h) + 1 + SizeWidth(s) + CountLen(s)
       /\ block.csize = Len(s) /\ block.usize = Len(s)
  /\ rpc = "payload" =>
       /\ mode = "decode" /\ Len(s) <= limit /\ at = HeadLen(h) + BlockHeaderLen(s)
       /\ block.csize = Len(s) /\ block.usize = Len(s) /\ block.crc = Crc32c(s)
  /\ rpc = "digest" =>
       /\ mode = "decode" /\ h.flags.checksum /\ out = s /\ Len(s) <= limit
       /\ at = HeadLen(h) + BlockLen(s) + 1

(* The input ends in the stream header or in that of the block.            *)
EndsInHeader(h, s) ==
  LET n == Len(input) - HeadLen(h)
  IN n < 0 \/ (s # <<>> /\ n \in 1 .. BlockHeaderLen(s) - 1)

(* How it has ended.                                                       *)
Ended(h, s) ==
  rpc = "idle" =>
    /\ outcome = "Io" <=> EndsInHeader(h, s)
    /\ outcome \in {"ok", "Io", "UnexpectedEof", "DecompressionBombDetected"}
    /\ mode = "inspect" => outcome \in {"ok", "Io"}
    /\ mode = "decode" =>
         /\ outcome = "ok" => out = s /\ Len(s) <= limit /\ TotalLen(h, s) <= Len(input)
         /\ outcome = "UnexpectedEof" => Len(input) < TotalLen(h, s)
         /\ outcome = "DecompressionBombDetected" => Len(s) > limit

(* All of it.                                                              *)
ReaderAt(h, s) ==
  /\ InHeader(h) /\ InBlock(h, s) /\ Ended(h, s)
  /\ rpc \notin {"idle", "block"} => at <= Len(input)
  /\ rpc \in HeaderStages => out = <<>>

-----------------------------------------------------------------------------
(* A file that says what it holds.                                         *)
FileIs(f, h, s) ==
  /\ f.data = s /\ f.head = HeadLen(h) /\ Agree(f.bytes, ContainerOf(h, s))
  /\ f.form = "container" <=> TotalLen(h, s) <= Len(f.bytes)

Forms == {"plain", "torn", "container", "cut", "header", "twice", "body"}

(* What a file of each form is; damaged ones of no form may be anything.   *)
FileSound(f) ==
  /\ f \in [bytes : Seq(Octet), data : Seq(Octet), form : Forms, head : Nat]
  /\ f.form = "plain" => f.bytes = f.data
  /\ f.form \in {"plain", "torn"} => ~BeginsWithMagic(f.bytes)
  /\ f.form \in {"container", "cut"} => \E h \in StreamHeaders, s \in Plain : FileIs(f, h, s)

(* What has not been damaged is just that container.                       *)
Whole(f) ==
  /\ f.form \in {"plain", "torn", "container", "cut"}
  /\ f.form = "container" => \E h \in StreamHeaders, s \in Plain : f = ContainerFile(h, s)

(* All files of a directory are.                                           *)
FilesSound(d) == \A n \in DOMAIN d : FileSound(d[n])

(* The types of the rest.                                                  *)
FrontTyped ==
  /\ calls \in 0 .. MaxCalls
  /\ fpc \in {"idle", "load", "read", "deliver", "copy", "free", "done"}
  /\ fpc # "idle" => cmd \in Commands
  /\ computed \in Seq(Octet) /\ DOMAIN files \subseteq Names

(* The files of the beginning of a call stay until it ends; whatever is    *)
(* damaged is read by one more call only.                                  *)
Kept ==
  /\ FilesSound(before)
  /\ fpc # "done" => files = before
  /\ damaged # "none" /\ fpc # "idle" => calls = MaxCalls
  /\ fpc = "done" => damaged # "none" \/ FilesSound(files)
  /\ damaged = "none" => \A n \in DOMAIN files : Whole(files[n])

(* What the reader reads and where it is.                                  *)
ReaderFollows ==
  /\ fpc # "read" => rpc = "idle"
  /\ fpc \in {"idle", "load"} => outcome = "none"
  /\ fpc = "read" \/ outcome # "none" =>
       /\ cmd.verb \in {"decompress", "inspect"} /\ cmd.input \in DOMAIN before
       /\ input = Given.bytes
       /\ mode = IF cmd.verb = "inspect" THEN "inspect" ELSE "decode"
       /\ Given.form \in {"plain", "torn"} =>
            rpc \in {"magic", "idle"} /\ (rpc = "magic" => at = 0) /\ outcome # "ok"
       /\ Given.form \in {"container", "cut"} =>
            \A h \in StreamHeaders, s \in Plain : FileIs(Given, h, s) => ReaderAt(h, s)

Running == {"deliver", "copy", "free"}

(* What the library has computed, until it is delivered.                   *)
ComputedIs ==
  /\ cmd.verb = "compress" /\ fpc \in Running \cup {"load"} /\ cmd.input \in DOMAIN before =>
       Given.bytes \in Plain
  /\ fpc \in Running =>
       /\ cmd.input \in DOMAIN before
       /\ cmd.verb = "compress" => computed = ContainerOf(KnownSize(Given.bytes), Given.bytes)
       /\ cmd.verb = "image" => computed = Picture
       /\ cmd.verb = "decompress" => outcome = "ok" /\ computed = out
       /\ cmd.verb # "inspect"
  /\ cmd.verb \notin {"decompress", "inspect"} => outcome = "none"

(* What the exit code or return code says of a reader.                     *)
EndsWell ==
  /\ fpc = "done" /\ outcome \notin {"none", "ok"} =>
       code = IF cmd.who = "cli" THEN ExitCode(outcome) ELSE ReturnCode(outcome)
  /\ fpc = "done" /\ outcome = "ok" /\ cmd.verb = "inspect" => code = 0

(* The callers own what has been handed out to them and not yet freed.     *)
HeapSound ==
  /\ ~wild
  /\ \A b \in heap : b.at \in 0 .. calls
  /\ fpc \in {"load", "read", "deliver"} => \A b \in heap : b.at < calls
  /\ fpc \in {"copy", "free"} =>
       /\ computed # <<>> => Buffer \in heap
       /\ \A b \in heap : b.at = calls => b = Buffer /\ computed # <<>>
  /\ fpc = "done" /\ Buffer \in heap => cmd.who = "node" /\ code = Raised

(* The inductive invariant.                                                *)
FrontInv ==
  /\ ReaderTyped /\ FrontTyped /\ Kept /\ ReaderFollows /\ ComputedIs /\ EndsWell
  /\ HeapSound /\ DataSurvive

-----------------------------------------------------------------------------
(* Reading keeps the types.                                                *)
LEMMA NeedsType ==
  ASSUME ReaderTyped
  PROVE  Needs \in Nat
<1>1. block.csize \in Nat
  BY DEF ReaderTyped, Blocks
<1> QED
  BY <1>1 DEF ReaderTyped, Stages, HeaderStages, Fields, BlockFields, Needs

(* What is read is as many bytes as are asked for.                         *)
LEMMA BytesType ==
  ASSUME ReaderTyped, at + Needs <= Len(input)
  PROVE  Bytes \in Seq(Octet) /\ Len(Bytes) = Needs
<1>1. input \in Seq(Octet) /\ at \in Nat /\ Needs \in Nat
  BY NeedsType DEF ReaderTyped
<1> QED
  BY <1>1, NextElements DEF Bytes

(* An element of them is a byte.                                           *)
LEMMA OctetAt ==
  ASSUME NEW b \in Seq(Octet), NEW i \in 1 .. Len(b)
  PROVE  b[i] \in Octet /\ b[i] \in Nat
<1>1. b[i] \in Octet
  BY ElementOfSeq
<1>2. \A x \in Octet : x \in Nat
  BY DEF Octet
<1> QED
  BY <1>1, <1>2, Zenon

(* Sizes are numbers.                                                      *)
LEMMA LittleEndianType ==
  ASSUME NEW b \in Seq(Octet), Len(b) >= 2
  PROVE  LittleEndian(b) \in Nat
<1>1. b[1] \in Nat /\ b[2] \in Nat
  BY OctetAt, LenProperties
<1>2. Huge \in Nat
  BY SMT DEF Huge
<1> QED
  BY <1>1, <1>2 DEF LittleEndian

(* A group is a number.                                                    *)
LEMMA GroupValueType ==
  ASSUME groups \in 0 .. 4, Bytes[1] \in Nat
  PROVE  GroupValue \in Nat
<1>1. Huge \in Nat
  BY SMT DEF Huge
<1>2. CASE groups = 0
  BY <1>2 DEF GroupValue
<1>3. CASE groups = 1
  BY <1>3 DEF GroupValue
<1>4. CASE groups = 2
  BY <1>4 DEF GroupValue
<1>5. CASE groups = 3
  BY <1>5 DEF GroupValue
<1>6. CASE groups = 4
  BY <1>1, <1>6 DEF GroupValue
<1> QED
  BY <1>2, <1>3, <1>4, <1>5, <1>6

(* After a field comes a field.                                            *)
LEMMA FieldAfterType ==
  ASSUME NEW k, NEW f
  PROVE  FieldAfter(k, f) \in Fields
BY DEF FieldAfter, Fields

Untouched == UNCHANGED <<input, mode, limit>>

(* Every read_exact keeps the types and leaves the input alone.            *)
LEMMA ReadStepTyped ==
  ASSUME ReaderTyped, ReadStep
  PROVE  ReaderTyped' /\ Untouched
<1>1. /\ input \in Seq(Octet) /\ at \in Nat /\ mode \in {"decode", "inspect"} /\ limit \in Nat
      /\ rpc \in Stages /\ covered \in Seq(Octet) /\ out \in Seq(Octet)
      /\ block \in Blocks /\ groups \in Nat /\ (rpc \in {"csize", "extended", "usize"} => groups \in 0 .. 4)
      /\ rpc # "idle" => outcome = "none"
  BY DEF ReaderTyped
<1>2. Needs \in Nat /\ at + Needs \in Nat
  BY <1>1, NeedsType
<1>3. \A what : Reading(what) => rpc = what /\ Bytes \in Seq(Octet) /\ Len(Bytes) = Needs
  BY BytesType DEF Reading
<1>4. \A b, c : b \in Seq(Octet) /\ c \in Seq(Octet) => b \o c \in Seq(Octet)
  BY ConcatLength
<1> DEFINE Ends(e) == rpc' = "idle" /\ outcome' = e
           Goes(what) == rpc' = what /\ outcome' = outcome
<1>5. CASE Eof
  BY <1>1, <1>5 DEF Eof, End, ReaderTyped, Stages, HeaderStages, Untouched
<1>6. CASE ReadMagic
  BY <1>1, <1>2, <1>6 DEF ReadMagic, Reading, End, Goto, Advance, ReaderTyped, Stages, HeaderStages, Untouched
<1>7. CASE ReadVersion
  <2>1. covered' \in Seq(Octet)
    BY <1>1, <1>3, <1>4, <1>7 DEF ReadVersion
  <2> QED
    BY <1>1, <1>2, <1>7, <2>1
    DEF ReadVersion, Reading, End, Goto, Advance, ReaderTyped, Stages, HeaderStages, Untouched
<1>8. CASE ReadFlags
  <2>1. covered' \in Seq(Octet)
    BY <1>1, <1>3, <1>4, <1>8 DEF ReadFlags
  <2>2. rpc' \in {"idle"} \cup Fields /\ (rpc' = "idle" \/ outcome' = outcome)
    BY <1>8, FieldAfterType DEF ReadFlags, End, Goto
  <2>3. rpc' \in Stages /\ rpc' \notin {"csize", "extended", "usize"} /\ outcome = "none"
    BY <1>1, <1>8, <2>2 DEF Stages, HeaderStages, Fields, ReadFlags, Reading
  <2> QED
    BY <1>1, <1>2, <1>8, <2>1, <2>2, <2>3 DEF ReadFlags, Advance, ReaderTyped, Untouched
<1>9. CASE ReadExponent
  <2>1. covered' \in Seq(Octet)
    BY <1>1, <1>3, <1>4, <1>9 DEF ReadExponent
  <2>2. rpc' \in {"idle"} \cup Fields /\ (rpc' = "idle" \/ outcome' = outcome)
    BY <1>9, FieldAfterType DEF ReadExponent, End, Goto
  <2>3. rpc' \in Stages /\ rpc' \notin {"csize", "extended", "usize"} /\ outcome = "none"
    BY <1>1, <1>9, <2>2 DEF Stages, HeaderStages, Fields, ReadExponent, Reading
  <2> QED
    BY <1>1, <1>2, <1>9, <2>1, <2>2, <2>3 DEF ReadExponent, Advance, ReaderTyped, Untouched
<1>10. CASE ReadSizeByte
  <2>1. covered' \in Seq(Octet)
    BY <1>1, <1>3, <1>4, <1>10 DEF ReadSizeByte
  <2>2. rpc' \in {"idle"} \cup Fields /\ (rpc' = "idle" \/ outcome' = outcome)
    BY <1>10, FieldAfterType DEF ReadSizeByte, End, Goto, Fields
  <2>3. rpc' \in Stages /\ rpc' \notin {"csize", "extended", "usize"} /\ outcome = "none"
    BY <1>1, <1>10, <2>2 DEF Stages, HeaderStages, Fields, ReadSizeByte, Reading
  <2>4. groups' \in Nat
    BY <1>1, <1>10 DEF ReadSizeByte
  <2> QED
    BY <1>1, <1>2, <1>10, <2>1, <2>2, <2>3, <2>4 DEF ReadSizeByte, Advance, ReaderTyped, Untouched
<1>11. CASE ReadDictionary
  <2>1. covered' \in Seq(Octet)
    BY <1>1, <1>3, <1>4, <1>11 DEF ReadDictionary
  <2> QED
    BY <1>1, <1>2, <1>11, <2>1
    DEF ReadDictionary, Reading, Goto, Advance, ReaderTyped, Stages, HeaderStages, Fields, Untouched
<1>12. CASE ReadCrc
  BY <1>1, <1>2, <1>12 DEF ReadCrc, Reading, End, Goto, Advance, ReaderTyped, Stages, HeaderStages, Untouched
<1>13. CASE ReadBlockByte
  <2>1. Bytes[1] \in Nat
    <3>1. Reading("block") /\ rpc = "block"
      BY <1>13 DEF ReadBlockByte, Reading
    <3>2. Needs = 1
      BY <3>1 DEF Needs
    <3>3. 1 \in 1 .. Len(Bytes)
      <4>1. Len(Bytes) = 1
        BY <1>3, <3>1, <3>2, Zenon
      <4> QED
        BY <4>1
    <3> QED
      BY <1>3, <3>1, <3>3, OctetAt
  <2>2. block' \in Blocks /\ groups' = 0
    <3>1. Bytes[1] % 8 \in 0 .. 7
      BY <2>1
    <3>2. block' = [type |-> Bytes[1] % 8, hasChecksum |-> (Bytes[1] \div 8) % 2 = 1,
                    csize |-> 0, usize |-> 0, crc |-> <<>>]
      BY <1>13 DEF ReadBlockByte, NoBlock
    <3>3. ((Bytes[1] \div 8) % 2 = 1) \in BOOLEAN /\ <<>> \in Seq(Octet)
      BY Zenon, EmptySeq
    <3>4. \A t \in 0 .. 7, b \in BOOLEAN :
            [type |-> t, hasChecksum |-> b, csize |-> 0, usize |-> 0, crc |-> <<>>] \in Blocks
      BY <3>3 DEF Blocks
    <3>5. block' \in Blocks
      BY <3>1, <3>2, <3>3, <3>4, Zenon
    <3> QED
      BY <1>13, <3>5 DEF ReadBlockByte
  <2> QED
    BY <1>1, <1>2, <1>13, <2>2
    DEF ReadBlockByte, Reading, End, Goto, Advance, ReaderTyped, Stages, BlockFields, Untouched
<1>14. CASE ReadCompressedSize
  <2>1. rpc = "csize" /\ Needs = 2
    BY <1>14 DEF ReadCompressedSize, Reading, Needs
  <2>2. LittleEndian(Bytes) \in Nat
    BY <1>3, <1>14, <2>1, LittleEndianType DEF ReadCompressedSize
  <2>3. block' \in Blocks
    BY <1>1, <1>14, <2>2 DEF ReadCompressedSize, Blocks
  <2>4. rpc' \in {"usize", "extended"} /\ outcome' = outcome
    BY <1>14 DEF ReadCompressedSize, Goto
  <2> QED
    BY <1>1, <1>2, <1>14, <2>1, <2>3, <2>4
    DEF ReadCompressedSize, Advance, ReaderTyped, Stages, BlockFields, Untouched
<1>15. CASE ReadExtendedSize
  <2>1. rpc = "extended" /\ Needs = 4
    BY <1>15 DEF ReadExtendedSize, Reading, Needs
  <2>2. LittleEndian(Bytes) \in Nat
    BY <1>3, <1>15, <2>1, LittleEndianType DEF ReadExtendedSize
  <2>3. block' \in Blocks
    BY <1>1, <1>15, <2>2 DEF ReadExtendedSize, Blocks
  <2>4. rpc' = "usize" /\ outcome' = outcome /\ groups' = groups
    BY <1>15 DEF ReadExtendedSize, Goto
  <2> QED
    BY <1>1, <1>2, <1>15, <2>1, <2>3, <2>4
    DEF ReadExtendedSize, Advance, ReaderTyped, Stages, BlockFields, Untouched
<1>16. CASE ReadUncompressedSize
  <2>1. rpc = "usize" /\ Needs = 1
    BY <1>16 DEF ReadUncompressedSize, Reading, Needs
  <2>2. Bytes[1] \in Nat
    <3>1. Reading("usize")
      BY <1>16 DEF ReadUncompressedSize
    <3>2. Bytes \in Seq(Octet) /\ Len(Bytes) = 1
      BY <1>3, <2>1, <3>1, Zenon
    <3>3. 1 \in 1 .. Len(Bytes)
      BY <3>2
    <3> QED
      BY <3>2, <3>3, OctetAt
  <2>3. GroupValue \in Nat
    BY <1>1, <2>1, <2>2, GroupValueType
  <2>4. block' \in Blocks /\ groups' = groups + 1
    <3>1. block' = [block EXCEPT !.usize = @ + GroupValue] /\ groups' = groups + 1
      BY <1>16 DEF ReadUncompressedSize
    <3>2. \A v \in Nat : [block EXCEPT !.usize = @ + v] \in Blocks
      <4>1. \A v \in Nat : block.usize + v \in Nat
        BY <1>1 DEF Blocks
      <4>2. \A u \in Nat : [block EXCEPT !.usize = u] \in Blocks
        BY <1>1 DEF Blocks
      <4> QED
        BY <4>1, <4>2
    <3> QED
      BY <2>3, <3>1, <3>2, Zenon
  <2>5. block'.csize \in Nat
    BY <2>4 DEF Blocks
  <2>6. /\ at' \in Nat
        /\ rpc' \in {"idle", "usize", "blockCrc", "block", "payload"}
        /\ rpc' = "idle" \/ outcome' = outcome
        /\ rpc' = "usize" => groups' \in 0 .. 4
    <3>1. groups' \in 1 .. 5 /\ (7 * groups' >= 32 <=> groups' = 5)
      BY <1>1, <2>1, <2>4
    <3>2. CASE Bytes[1] >= 128
      BY <1>1, <1>16, <3>1, <3>2, SMTT(30) DEF ReadUncompressedSize, Goto, End
    <3>3. CASE ~(Bytes[1] >= 128) /\ block.hasChecksum
      BY <1>1, <1>16, <3>3 DEF ReadUncompressedSize, Goto
    <3>4. CASE ~(Bytes[1] >= 128) /\ ~block.hasChecksum
      <4>1. HeaderRead(block', at + 1)
        BY <1>16, <3>4 DEF ReadUncompressedSize
      <4> QED
        BY <1>1, <2>5, <4>1, SMTT(30) DEF HeaderRead, Goto, End
    <3> QED
      BY <3>2, <3>3, <3>4
  <2> QED
    <3>1. UNCHANGED <<input, mode, limit, covered, flags, out>>
      BY <1>16 DEF ReadUncompressedSize
    <3>2. /\ rpc' \in Stages /\ (rpc' # "idle" => outcome' = "none")
          /\ rpc' \in {"csize", "extended", "usize"} => groups' \in 0 .. 4
      BY <1>1, <2>1, <2>6 DEF Stages, BlockFields
    <3>3. groups' \in Nat
      BY <1>1, <2>4
    <3> QED
      BY <1>1, <2>4, <2>6, <3>1, <3>2, <3>3 DEF ReaderTyped, Untouched
<1>17. CASE ReadBlockCrc
  <2>1. rpc = "blockCrc" /\ Bytes \in Seq(Octet)
    BY <1>3, <1>17 DEF ReadBlockCrc
  <2>2. block' \in Blocks
    BY <1>1, <1>17, <2>1 DEF ReadBlockCrc, Blocks
  <2>3. block'.csize \in Nat
    BY <2>2 DEF Blocks
  <2>4. at' \in Nat /\ rpc' \in {"idle", "block", "payload"} /\ (rpc' = "idle" \/ outcome' = outcome)
    BY <1>1, <1>17, <2>3 DEF ReadBlockCrc, HeaderRead, Goto, End
  <2> QED
    BY <1>1, <1>17, <2>1, <2>2, <2>4
    DEF ReadBlockCrc, ReaderTyped, Stages, BlockFields, Untouched
<1>18. CASE ReadPayload
  <2>1. rpc = "payload" /\ Bytes \in Seq(Octet)
    BY <1>3, <1>18 DEF ReadPayload
  <2>2. Decodings \subseteq Seq(Octet)
    BY <2>1, DecodedAssumption DEF Decodings
  <2>3. out' \in Seq(Octet) /\ rpc' \in {"idle", "block"} /\ (rpc' = "idle" \/ outcome' = outcome)
    BY <1>1, <1>4, <1>18, <2>2 DEF ReadPayload, End, Goto
  <2> QED
    <3>1. Advance /\ UNCHANGED <<covered, flags, groups, block>>
      BY <1>18 DEF ReadPayload
    <3>2. rpc' \in Stages /\ rpc' \notin {"csize", "extended", "usize"} /\ (rpc' # "idle" => outcome' = "none")
      BY <1>1, <2>1, <2>3 DEF Stages
    <3> QED
      BY <1>1, <1>2, <2>3, <3>1, <3>2 DEF Advance, ReaderTyped, Untouched
<1>19. CASE ReadDigest
  BY <1>1, <1>2, <1>19 DEF ReadDigest, End, Advance, ReaderTyped, Stages, HeaderStages, Untouched
<1> QED
  BY <1>5, <1>6, <1>7, <1>8, <1>9, <1>10, <1>11, <1>12, <1>13, <1>14, <1>15, <1>16, <1>17, <1>18, <1>19
  DEF ReadStep

-----------------------------------------------------------------------------
(* What is read where.                                                     *)
LEMMA OneLies ==
  ASSUME NEW S, NEW t \in Seq(S), NEW x \in Seq(S), NEW p \in Nat, Lies(t, p, x),
         NEW i \in 1 .. Len(t)
  PROVE  Lies(<<t[i]>>, p + i - 1, x)
<1>1. Len(t) \in Nat /\ Len(x) \in Nat
  BY LenProperties
<1>2. x[p + i] = t[i] /\ p + i <= Len(x)
  BY <1>1 DEF Lies
<1>3. Len(<<t[i]>>) = 1 /\ <<t[i]>>[1] = t[i]
  OBVIOUS
<1>4. (p + i - 1) + 1 = p + i
  BY <1>1
<1> QED
  BY <1>1, <1>2, <1>3, <1>4 DEF Lies

(* Reading a field of the header gives it, and what is covered grows by    *)
(* it.                                                                     *)
LEMMA FieldRead ==
  ASSUME NEW h \in StreamHeaders, NEW s \in Plain, NEW x \in Seq(Octet),
         Agree(x, ContainerOf(h, s)),
         NEW t \in Seq(Octet), NEW p \in Nat, Lies(t, p, HeaderFields(h)),
         4 + p + Len(t) <= Len(x)
  PROVE  /\ SubSeq(x, 4 + p + 1, 4 + p + Len(t)) = t
         /\ SubSeq(HeaderFields(h), 1, p) \o t = SubSeq(HeaderFields(h), 1, p + Len(t))
         /\ p + Len(t) \in 0 .. Len(HeaderFields(h))
<1> DEFINE f == HeaderFields(h)
           c == ContainerOf(h, s)
<1>1. f \in Seq(Octet) /\ c \in Seq(Octet) /\ Lies(f, 4, c)
  BY FieldsLie, ContainerLies
<1>2. Lies(t, p, f) /\ Agree(x, c)
  OBVIOUS
<1> HIDE DEF f, c
<1>3. Len(t) \in Nat /\ Len(f) \in Nat
  BY <1>1, LenProperties
<1>4. Lies(t, 4 + p, c)
  BY <1>1, <1>2, <1>3, LiesWithin
<1>5. SubSeq(x, (4 + p) + 1, (4 + p) + Len(t)) = t
  <2>1. 4 + p \in Nat
    OBVIOUS
  <2> QED
    BY <1>1, <1>2, <1>4, <2>1, BytesAre
<1>6. p + Len(t) <= Len(f) /\ \A i \in 1 .. Len(t) : t[i] = f[p + i]
  BY <1>2 DEF Lies
<1>7. SubSeq(f, 1, p) \o t = SubSeq(f, 1, p + Len(t))
  BY <1>1, <1>6, PrefixGrows
<1> QED
  BY <1>3, <1>5, <1>6, <1>7 DEF f

(* Reading a field of the block gives it.                                  *)
LEMMA BlockRead ==
  ASSUME NEW h \in StreamHeaders, NEW s \in Plain, s # <<>>, NEW x \in Seq(Octet),
         Agree(x, ContainerOf(h, s)),
         NEW t \in Seq(Octet), NEW p \in Nat, Lies(t, p, RawBlock(s, TRUE)),
         HeadLen(h) + p + Len(t) <= Len(x)
  PROVE  SubSeq(x, HeadLen(h) + p + 1, HeadLen(h) + p + Len(t)) = t
<1> DEFINE r == RawBlock(s, TRUE)
           c == ContainerOf(h, s)
           d == HeadLen(h)
<1>1. r \in Seq(Octet) /\ c \in Seq(Octet) /\ d \in Nat /\ Lies(r, d, c)
  BY RawBlockLies, ContainerLies
<1>2. Lies(t, p, r) /\ Agree(x, c) /\ d + p + Len(t) <= Len(x)
  OBVIOUS
<1> HIDE DEF r, c, d
<1>3. Lies(t, d + p, c)
  <2>1. Len(t) \in Nat
    BY LenProperties
  <2> QED
    BY <1>1, <1>2, <2>1, LiesWithin
<1>4. SubSeq(x, (d + p) + 1, (d + p) + Len(t)) = t
  <2>1. d + p \in Nat
    BY <1>1
  <2> QED
    BY <1>1, <1>2, <1>3, <2>1, BytesAre
<1> QED
  BY <1>4 DEF d

(* FieldAfter leads to the next field there is.                            *)
LEMMA FieldsFollow ==
  ASSUME NEW h \in StreamHeaders
  PROVE  /\ FieldAt(h, FieldAfter(0, h.flags), 3, 0)
         /\ FieldAt(h, FieldAfter(1, h.flags), 3 + ExponentLen(h), 0)
         /\ \A g : FieldAt(h, FieldAfter(2, h.flags), 3 + ExponentLen(h) + SizeLen(h), g)
         /\ \A g : FieldAt(h, "crc", Len(HeaderFields(h)), g)
<1>1. Len(HeaderFields(h)) = 3 + ExponentLen(h) + SizeLen(h) + DictionaryLen(h)
  BY FieldsLie
<1>2. /\ ExponentLen(h) \in Nat /\ SizeLen(h) \in Nat /\ DictionaryLen(h) \in Nat
      /\ h.flags.size => 0 < SizeLen(h)
      /\ ~h.flags.size => SizeLen(h) = 0
      /\ ~h.flags.dictionary => DictionaryLen(h) = 0
      /\ h.flags.window # 3 => ExponentLen(h) = 0
  <2>1. h.size \in 0 .. Huge - 1
    BY DEF StreamHeaders
  <2>2. Len(Uleb(h.size)) \in 1 .. 4
    BY <2>1, UlebIs
  <2> QED
    BY <2>2, SMTT(30) DEF ExponentLen, SizeLen, DictionaryLen
<1> DEFINE e == ExponentLen(h)
           z == SizeLen(h)
           d == DictionaryLen(h)
           l == Len(HeaderFields(h))
<1> HIDE DEF e, z, d, l
<1>3. /\ l = 3 + e + z + d /\ e \in Nat /\ z \in Nat /\ d \in Nat
      /\ h.flags.size => 0 < z
      /\ ~h.flags.size => z = 0
      /\ ~h.flags.dictionary => d = 0
      /\ h.flags.window # 3 => e = 0
  BY <1>1, <1>2 DEF e, z, d, l
<1>4. \A w, k, g : FieldAt(h, w, k, g) <=>
        /\ w \in Fields
        /\ w = "exponent" => h.flags.window = 3 /\ k = 3 /\ g = 0
        /\ w = "size" => h.flags.size /\ g < z /\ k = 3 + e + g
        /\ w = "dictionary" => h.flags.dictionary /\ k = 3 + e + z
        /\ w = "crc" => k = l
  BY DEF FieldAt, e, z, l
<1>5. \A g : FieldAt(h, FieldAfter(2, h.flags), 3 + e + z, g) /\ FieldAt(h, "crc", l, g)
  BY <1>3, <1>4 DEF FieldAfter, Fields
<1>6. FieldAt(h, FieldAfter(1, h.flags), 3 + e, 0)
  BY <1>3, <1>4 DEF FieldAfter, Fields
<1>7. FieldAt(h, FieldAfter(0, h.flags), 3, 0)
  BY <1>3, <1>4 DEF FieldAfter, Fields
<1> QED
  BY <1>5, <1>6, <1>7 DEF e, z, l

-----------------------------------------------------------------------------
(* A reader of a container or of its beginning gets on as the layout says. *)
Reader(h, s) ==
  /\ ReaderTyped /\ Agree(input, ContainerOf(h, s)) /\ ReaderAt(h, s)

(* ReaderAt, for a step to the next field of the header,                   *)
LEMMA StaysInHeader ==
  ASSUME NEW h, NEW s, rpc' \in HeaderStages, InHeader(h)', at' <= Len(input'),
         out' = <<>>
  PROVE  ReaderAt(h, s)'
BY DEF HeaderStages, Fields, BlockFields, ReaderAt, InBlock, Ended

(* for one to the block or in it,                                          *)
LEMMA StaysInBlocks ==
  ASSUME NEW h, NEW s, rpc' \in {"block", "digest"} \cup BlockFields, InBlock(h, s)',
         rpc' = "block" \/ at' <= Len(input')
  PROVE  ReaderAt(h, s)'
BY DEF HeaderStages, Fields, BlockFields, ReaderAt, InHeader, Ended

(* and for the last.                                                       *)
LEMMA HasEnded ==
  ASSUME NEW h, NEW s, rpc' = "idle", Ended(h, s)'
  PROVE  ReaderAt(h, s)'
BY DEF HeaderStages, Fields, BlockFields, ReaderAt, InHeader, InBlock

(* What is covered grows by a field that lies behind it.                   *)
LEMMA FieldGoesOn ==
  ASSUME NEW h \in StreamHeaders, NEW s \in Plain, Reader(h, s), NEW k, FieldsRead(h, k),
         NEW t \in Seq(Octet), Lies(t, k, HeaderFields(h)),
         Needs = Len(t), at + Needs <= Len(input), covered' = covered \o Bytes, Advance
  PROVE  /\ Bytes = t /\ FieldsRead(h, Len(covered))' /\ Len(covered') = k + Len(t)
         /\ at' <= Len(input')
<1> DEFINE f == HeaderFields(h)
<1>1. /\ Agree(input, ContainerOf(h, s)) /\ input \in Seq(Octet) /\ f \in Seq(Octet)
      /\ Len(input) \in Nat /\ Len(f) \in Nat /\ Len(t) \in Nat
  BY FieldsLie, LenProperties DEF Reader, ReaderTyped
<1>2. k \in 0 .. Len(f) /\ k \in Nat /\ covered = SubSeq(f, 1, k) /\ at = 4 + k
  BY <1>1 DEF FieldsRead
<1>3. Lies(t, k, f) /\ 4 + k + Len(t) <= Len(input)
  BY <1>2
<1>4. /\ SubSeq(input, 4 + k + 1, 4 + k + Len(t)) = t
      /\ SubSeq(f, 1, k) \o t = SubSeq(f, 1, k + Len(t))
      /\ k + Len(t) \in 0 .. Len(f)
  BY <1>1, <1>2, <1>3, FieldRead
<1> HIDE DEF f
<1>5. Bytes = t
  BY <1>2, <1>4 DEF Bytes
<1>6. covered' = SubSeq(f, 1, k + Len(t)) /\ at' = 4 + (k + Len(t)) /\ input' = input
  BY <1>1, <1>2, <1>4, <1>5 DEF Advance
<1>7. Len(covered') = k + Len(t)
  BY <1>1, <1>4, <1>6, PrefixOfPrefix, SMTT(30)
<1>8. at' <= Len(input')
  BY <1>1, <1>2, <1>3, <1>6
<1> QED
  BY <1>4, <1>5, <1>6, <1>7, <1>8 DEF FieldsRead, f

(* Magic, version and flags.                                               *)
LEMMA FirstFields ==
  ASSUME NEW h \in StreamHeaders, NEW s \in Plain, Reader(h, s),
         ReadMagic \/ ReadVersion \/ ReadFlags
  PROVE  ReaderAt(h, s)'
<1> DEFINE f == HeaderFields(h)
           c == ContainerOf(h, s)
<1>1. /\ ReaderTyped /\ Agree(input, c) /\ InHeader(h)
      /\ input \in Seq(Octet) /\ Len(input) \in Nat /\ at \in Nat
  BY LenProperties DEF Reader, ReaderAt, ReaderTyped
<1>2. /\ f \in Seq(Octet) /\ Len(f) \in Nat /\ Len(f) >= 3
      /\ c \in Seq(Octet) /\ Lies(Magic, 0, c)
      /\ Lies(<<16>>, 0, f) /\ Lies(<<FlagByte(h.flags), 0>>, 1, f)
  <2>1. f \in Seq(Octet) /\ Lies(<<16>>, 0, f) /\ Lies(<<FlagByte(h.flags), 0>>, 1, f)
    BY FieldsLie
  <2>2. Len(f) \in Nat /\ 3 <= Len(f)
    <3>1. Len(<<FlagByte(h.flags), 0>>) = 2
      OBVIOUS
    <3> QED
      BY <2>1, <3>1, LenProperties DEF Lies
  <2> QED
    BY <2>1, <2>2, ContainerLies
<1>6. out' = <<>>
  <2>1. rpc \in HeaderStages /\ out' = out
    BY DEF ReadMagic, ReadVersion, ReadFlags, Reading, HeaderStages
  <2> QED
    BY <2>1 DEF Reader, ReaderAt
<1>3. CASE ReadMagic
  <2>1. rpc = "magic" /\ at = 0 /\ covered = <<>> /\ groups = 0 /\ Needs = 4 /\ 4 <= Len(input)
    BY <1>1, <1>3 DEF ReadMagic, Reading, Needs, InHeader
  <2>2. Magic \in Seq(Octet) /\ Len(Magic) = 4
    BY DEF Magic, Octet
  <2>3. Bytes = Magic
    <3> DEFINE p == 0
    <3>1. p \in Nat /\ p + Len(Magic) <= Len(input) /\ Lies(Magic, p, c)
      BY <1>2, <2>1, <2>2
    <3> HIDE DEF p, c
    <3>2. SubSeq(input, p + 1, p + Len(Magic)) = Magic
      BY <1>1, <1>2, <2>2, <3>1, BytesAre
    <3> QED
      BY <2>1, <2>2, <3>2 DEF Bytes, p
  <2>4. rpc' = "version" /\ at' = 4 /\ covered' = <<>> /\ groups' = 0 /\ input' = input
    BY <1>3, <2>1, <2>3 DEF ReadMagic, Goto, Advance
  <2>5. SubSeq(f, 1, 0) = <<>>
    BY <1>2
  <2>6. InHeader(h)'
    BY <1>2, <2>4, <2>5 DEF InHeader, FieldsRead, Fields
  <2> QED
    BY <2>1, <2>4, <2>6, <1>6, StaysInHeader DEF HeaderStages
<1>4. CASE ReadVersion
  <2>1. rpc = "version" /\ FieldsRead(h, 0) /\ groups = 0 /\ Needs = 1 /\ at + Needs <= Len(input)
    BY <1>1, <1>4 DEF ReadVersion, Reading, Needs, InHeader
  <2> DEFINE t == <<16>>
  <2>2. t \in Seq(Octet) /\ Len(t) = 1 /\ t[1] = 16
    BY DEF Octet
  <2>3. Lies(t, 0, f) /\ Needs = Len(t) /\ covered' = covered \o Bytes /\ Advance
    BY <1>2, <1>4, <2>1, <2>2 DEF ReadVersion
  <2> DEFINE k == 0
  <2>4. FieldsRead(h, k) /\ Lies(t, k, HeaderFields(h))
    BY <2>1, <2>3
  <2> HIDE DEF t, k
  <2>5. /\ Bytes = t /\ FieldsRead(h, Len(covered))' /\ Len(covered') = k + Len(t)
        /\ at' <= Len(input')
    BY <2>1, <2>2, <2>3, <2>4, FieldGoesOn
  <2>6. rpc' = "flags" /\ groups' = 0
    <3>1. Bytes[1] \div 16 = 1
      BY <2>2, <2>5
    <3> QED
      BY <1>4, <2>1, <3>1 DEF ReadVersion, Goto
  <2>7. k + Len(t) = 1
    BY <2>2 DEF k
  <2>8. InHeader(h)'
    BY <2>5, <2>6, <2>7 DEF InHeader, Fields
  <2> QED
    BY <2>5, <2>6, <2>8, <1>6, StaysInHeader DEF HeaderStages
<1>5. CASE ReadFlags
  <2>1. rpc = "flags" /\ FieldsRead(h, 1) /\ groups = 0 /\ Needs = 2 /\ at + Needs <= Len(input)
    BY <1>1, <1>5 DEF ReadFlags, Reading, Needs, InHeader
  <2> DEFINE t == <<FlagByte(h.flags), 0>>
  <2>2. t \in Seq(Octet) /\ Len(t) = 2 /\ t[1] = FlagByte(h.flags) /\ t[2] = 0
    <3>1. FlagByte(h.flags) \in Octet /\ 0 \in Octet
      BY FlagByteType DEF Octet
    <3> QED
      BY <3>1
  <2>3. Lies(t, 1, f) /\ Needs = Len(t) /\ covered' = covered \o Bytes /\ Advance
    BY <1>2, <1>5, <2>1, <2>2 DEF ReadFlags
  <2> DEFINE k == 1
  <2>4. FieldsRead(h, k) /\ Lies(t, k, HeaderFields(h))
    BY <2>1, <2>3
  <2> HIDE DEF t, k
  <2>5. /\ Bytes = t /\ FieldsRead(h, Len(covered))' /\ Len(covered') = k + Len(t)
        /\ at' <= Len(input')
    BY <2>1, <2>2, <2>3, <2>4, FieldGoesOn
  <2>6. /\ ParsedFlags(Bytes[1]) = h.flags /\ ~(Bytes[1] >= 64) /\ Bytes[2] = 0
    <3>1. Bytes[1] = FlagByte(h.flags) /\ Bytes[2] = 0
      BY <2>2, <2>5
    <3>2. FlagByte(h.flags) \in 0 .. 63 /\ ParsedFlags(FlagByte(h.flags)) = h.flags
      BY FlagByteType
    <3>3. ~(FlagByte(h.flags) >= 64)
      BY <3>2
    <3> QED
      BY <3>1, <3>2, <3>3, Zenon
  <2>7. rpc' = FieldAfter(0, h.flags) /\ groups' = 0 /\ flags' = h.flags
    <3>1. flags' = h.flags
      BY <1>5, <2>6, Zenon DEF ReadFlags
    <3>2. rpc' = FieldAfter(0, flags')
      BY <1>5, <2>6, Zenon DEF ReadFlags, Goto
    <3> QED
      BY <1>5, <2>1, <3>1, <3>2 DEF ReadFlags
  <2>8. Len(covered') = 3 /\ FieldsRead(h, 3)'
    <3>1. k + Len(t) = 3
      BY <2>2 DEF k
    <3> QED
      BY <2>5, <3>1
  <2>9. FieldAt(h, rpc', 3, 0) /\ rpc' \in Fields
    BY <2>7, FieldsFollow, FieldAfterType
  <2>10. InHeader(h)'
    BY <2>7, <2>8, <2>9 DEF InHeader, FieldAt, Fields
  <2> QED
    BY <2>5, <2>9, <2>10, <1>6, StaysInHeader DEF HeaderStages
<1> QED
  BY <1>3, <1>4, <1>5

(* The optional fields.                                                    *)
LEMMA OtherFields ==
  ASSUME NEW h \in StreamHeaders, NEW s \in Plain, Reader(h, s),
         ReadExponent \/ ReadSizeByte \/ ReadDictionary
  PROVE  ReaderAt(h, s)'
<1> DEFINE f == HeaderFields(h)
           k == Len(covered)
           e == ExponentLen(h)
           z == SizeLen(h)
<1>1. rpc \in {"exponent", "size", "dictionary"} /\ at + Needs <= Len(input)
  BY DEF ReadExponent, ReadSizeByte, ReadDictionary, Reading
<1>2. FieldsRead(h, k) /\ flags = h.flags /\ FieldAt(h, rpc, k, groups) /\ groups \in Nat
  BY <1>1 DEF Reader, ReaderAt, InHeader, Fields, ReaderTyped
<1>3. /\ f \in Seq(Octet)
      /\ h.flags.window = 3 => Lies(<<h.exponent>>, 3, f)
      /\ h.flags.size => Lies(Uleb(h.size), 3 + e, f)
      /\ h.flags.dictionary => Lies(LE4(h.dictionary), 3 + e + z, f)
  BY FieldsLie
<1>4. e \in Nat /\ h.exponent \in 16 .. 27 /\ h.size \in 0 .. Huge - 1 /\ h.dictionary \in 0 .. Huge - 1
  BY DEF ExponentLen, StreamHeaders
<1>9. out' = <<>>
  <2>1. rpc \in HeaderStages /\ out' = out
    BY <1>1 DEF ReadExponent, ReadSizeByte, ReadDictionary, HeaderStages, Fields
  <2> QED
    BY <2>1 DEF Reader, ReaderAt
<1>5. ASSUME NEW w \in Fields, FieldAt(h, w, Len(covered'), groups'),
             FieldsRead(h, Len(covered))', at' <= Len(input'), rpc' = w, flags' = flags
      PROVE  ReaderAt(h, s)'
  <2>1. InHeader(h)'
    BY <1>2, <1>5 DEF InHeader, FieldAt, Fields
  <2> QED
    BY <1>5, <1>9, <2>1, StaysInHeader DEF HeaderStages
<1> HIDE DEF f
<1>6. CASE ReadExponent
  <2> DEFINE t == <<h.exponent>>
  <2>1. rpc = "exponent" /\ Needs = 1 /\ h.flags.window = 3 /\ k = 3 /\ groups = 0
    BY <1>2, <1>6 DEF ReadExponent, Reading, Needs, FieldAt
  <2>2. t \in Seq(Octet) /\ Len(t) = 1 /\ t[1] = h.exponent
    <3>1. h.exponent \in Octet
      BY <1>4 DEF Octet
    <3> QED
      BY <3>1
  <2>3. Lies(t, k, HeaderFields(h)) /\ Needs = Len(t) /\ covered' = covered \o Bytes /\ Advance
    BY <1>3, <1>6, <2>1, <2>2 DEF ReadExponent, f
  <2> HIDE DEF t, k
  <2>4. /\ Bytes = t /\ FieldsRead(h, Len(covered))' /\ Len(covered') = k + Len(t)
        /\ at' <= Len(input')
    BY <1>1, <1>2, <2>2, <2>3, FieldGoesOn
  <2>5. rpc' = FieldAfter(1, h.flags) /\ groups' = 0 /\ flags' = flags
    <3>1. Bytes[1] \in 16 .. 27
      BY <1>4, <2>2, <2>4
    <3> QED
      BY <1>2, <1>6, <2>1, <3>1 DEF ReadExponent, Goto
  <2>6. Len(covered') = 3 + e
    BY <2>1, <2>2, <2>4 DEF ExponentLen
  <2>7. FieldAt(h, rpc', Len(covered'), groups') /\ rpc' \in Fields
    BY <2>5, <2>6, FieldsFollow, FieldAfterType
  <2>8. FieldsRead(h, Len(covered))'
    BY <2>4
  <2> QED
    BY <1>5, <2>4, <2>5, <2>7, <2>8
<1>7. CASE ReadSizeByte
  <2> DEFINE u == Uleb(h.size)
             b == u[groups + 1]
             t == <<b>>
  <2>1. rpc = "size" /\ Needs = 1 /\ h.flags.size /\ k = 3 + e + groups /\ groups < Len(u)
    BY <1>2, <1>7 DEF ReadSizeByte, Reading, Needs, FieldAt, SizeLen
  <2>2. /\ u \in Seq(Octet) /\ Len(u) \in 1 .. 4
        /\ \A i \in 1 .. Len(u) : u[i] >= 128 <=> i < Len(u)
    BY <1>4, UlebIs
  <2>3. groups + 1 \in 1 .. Len(u) /\ (b >= 128 <=> groups + 1 < Len(u))
    BY <1>2, <2>1, <2>2
  <2>4. t \in Seq(Octet) /\ Len(t) = 1 /\ t[1] = b
    <3>1. b \in Octet
      BY <2>2, <2>3, ElementOfSeq
    <3> QED
      BY <3>1
  <2>5. Lies(t, k, HeaderFields(h))
    <3>1. Lies(u, 3 + e, f) /\ 3 + e \in Nat
      BY <1>3, <1>4, <2>1
    <3> DEFINE i == groups + 1
               p == 3 + e
    <3>2. i \in 1 .. Len(u) /\ p \in Nat /\ Lies(u, p, f)
      BY <2>3, <3>1
    <3> HIDE DEF i, p, u
    <3>3. Lies(<<u[i]>>, p + i - 1, f)
      BY <1>3, <2>2, <3>2, OneLies
    <3>4. p + i - 1 = k
      BY <1>2, <1>4, <2>1 DEF p, i
    <3> QED
      BY <3>3, <3>4 DEF i, f
  <2>6. Needs = Len(t) /\ covered' = covered \o Bytes /\ Advance /\ groups' = groups + 1
    BY <1>7, <2>1, <2>4 DEF ReadSizeByte
  <2> HIDE DEF t, k, b, u
  <2>7. /\ Bytes = t /\ FieldsRead(h, Len(covered))' /\ Len(covered') = k + Len(t)
        /\ at' <= Len(input')
    BY <1>1, <1>2, <2>4, <2>5, <2>6, FieldGoesOn
  <2>8. Bytes[1] = b /\ groups' \in 1 .. 4 /\ flags' = flags
    <3>1. Bytes[1] = b
      BY <2>4, <2>7
    <3>2. groups' \in 1 .. 4
      <4>1. groups + 1 \in 1 .. 4
        BY <2>2, <2>3
      <4> QED
        BY <2>6, <4>1
    <3>3. flags' = flags
      BY <1>7 DEF ReadSizeByte
    <3> QED
      BY <3>1, <3>2, <3>3
  <2>9. FieldsRead(h, Len(covered))' /\ Len(covered') = 3 + e + groups'
    BY <1>2, <1>4, <2>1, <2>4, <2>6, <2>7, SMTT(30)
  <2>10. CASE b >= 128
    <3>1. rpc' = "size"
      <4>1. Bytes[1] >= 128
        BY <2>8, <2>10
      <4>2. ~(7 * groups' >= 64)
        <5>1. \A g \in 1 .. 4 : ~(7 * g >= 64)
          OBVIOUS
        <5> QED
          BY <2>8, <5>1
      <4>3. b \in Nat
        <5>1. \A x \in Octet : x \in Nat
          BY DEF Octet
        <5> QED
          BY <2>2, <2>3, <5>1, ElementOfSeq DEF b
      <4>4. ~(Bytes[1] < 128)
        BY <2>8, <2>10, <4>3
      <4> QED
        BY <1>7, <4>2, <4>4 DEF ReadSizeByte, Goto
    <3>2. FieldAt(h, "size", Len(covered'), groups')
      BY <1>2, <2>1, <2>2, <2>3, <2>6, <2>9, <2>10 DEF FieldAt, Fields, SizeLen, u
    <3> QED
      BY <1>5, <2>7, <2>8, <2>9, <3>1, <3>2 DEF Fields
  <2>11. CASE ~(b >= 128)
    <3>1. rpc' = FieldAfter(2, h.flags)
      <4>1. b \in Nat
        <5>1. \A x \in Octet : x \in Nat
          BY DEF Octet
        <5> QED
          BY <2>2, <2>3, <5>1, ElementOfSeq DEF b
      <4>2. Bytes[1] < 128
        BY <2>8, <2>11, <4>1
      <4> QED
        BY <1>2, <1>7, <4>2 DEF ReadSizeByte, Goto
    <3>2. Len(covered') = 3 + e + z
      BY <1>2, <2>1, <2>2, <2>3, <2>6, <2>9, <2>11 DEF SizeLen, u
    <3>3. FieldAt(h, rpc', Len(covered'), groups') /\ rpc' \in Fields
      BY <3>1, <3>2, FieldsFollow, FieldAfterType
    <3> QED
      BY <1>5, <2>7, <2>8, <2>9, <3>3
  <2> QED
    BY <2>10, <2>11
<1>8. CASE ReadDictionary
  <2> DEFINE t == LE4(h.dictionary)
  <2>1. rpc = "dictionary" /\ Needs = 4 /\ h.flags.dictionary /\ k = 3 + e + z
    BY <1>2, <1>8 DEF ReadDictionary, Reading, Needs, FieldAt
  <2>2. t \in Seq(Octet) /\ Len(t) = 4
    BY <1>4, LE4Type
  <2>3. Lies(t, k, HeaderFields(h)) /\ Needs = Len(t) /\ covered' = covered \o Bytes /\ Advance
    BY <1>3, <1>8, <2>1, <2>2 DEF ReadDictionary, f
  <2> HIDE DEF t, k
  <2>4. /\ Bytes = t /\ FieldsRead(h, Len(covered))' /\ Len(covered') = k + Len(t)
        /\ at' <= Len(input')
    BY <1>1, <1>2, <2>2, <2>3, FieldGoesOn
  <2>5. rpc' = "crc" /\ flags' = flags
    BY <1>8 DEF ReadDictionary, Goto
  <2>6. Len(covered') = Len(HeaderFields(h))
    <3>1. Len(HeaderFields(h)) = 3 + e + z + 4
      BY <2>1, FieldsLie DEF DictionaryLen
    <3> QED
      BY <2>1, <2>2, <2>4, <3>1
  <2>7. FieldAt(h, "crc", Len(covered'), groups') /\ "crc" \in Fields
    BY <2>6, FieldsFollow DEF Fields
  <2>8. FieldsRead(h, Len(covered))'
    BY <2>4
  <2> QED
    BY <1>5, <2>4, <2>5, <2>7, <2>8
<1> QED
  BY <1>6, <1>7, <1>8

(* The CRC-8.                                                              *)
LEMMA HeaderChecked ==
  ASSUME NEW h \in StreamHeaders, NEW s \in Plain, Reader(h, s), ReadCrc
  PROVE  ReaderAt(h, s)'
<1> DEFINE f == HeaderFields(h)
           t == <<Crc8(f)>>
           p == 4 + Len(f)
           c == ContainerOf(h, s)
<1>1. rpc = "crc" /\ Needs = 1 /\ at + 1 <= Len(input)
  BY DEF ReadCrc, Reading, Needs
<1>2. /\ f \in Seq(Octet) /\ Len(f) \in Nat /\ c \in Seq(Octet) /\ Lies(t, p, c)
      /\ input \in Seq(Octet) /\ Agree(input, c)
  BY FieldsLie, ContainerLies, LenProperties DEF Reader, ReaderTyped
<1>3. covered = f /\ at = p /\ flags = h.flags
  <2>1. /\ Len(covered) = Len(f) /\ covered = SubSeq(f, 1, Len(covered)) /\ at = 4 + Len(covered)
        /\ flags = h.flags
    BY <1>1 DEF Reader, ReaderAt, InHeader, FieldsRead, FieldAt, Fields
  <2>2. SubSeq(f, 1, Len(f)) = f
    BY <1>2
  <2> QED
    BY <2>1, <2>2
<1>4. t \in Seq(Octet) /\ Len(t) = 1 /\ t[1] = Crc8(f) /\ p \in Nat
  <2>1. Crc8(f) \in Octet
    BY <1>2, Crc8Type
  <2> QED
    BY <1>2, <2>1
<1>5. HeadLen(h) = p + 1
  BY <1>2 DEF HeadLen
<1> HIDE DEF f, t, p, c
<1>6. Bytes = t
  <2>1. p + Len(t) <= Len(input)
    BY <1>1, <1>3, <1>4
  <2>2. SubSeq(input, p + 1, p + Len(t)) = t
    BY <1>2, <1>4, <2>1, BytesAre
  <2> QED
    BY <1>1, <1>3, <1>4, <2>2 DEF Bytes
<1>7. HeaderSound
  BY <1>3, <1>4, <1>6 DEF HeaderSound
<1>8. rpc' = "block" /\ at' = p + 1 /\ input' = input /\ flags' = h.flags /\ out' = out
  BY <1>1, <1>3, <1>7 DEF ReadCrc, Goto, Advance
<1>9. InBlock(h, s)'
  <2>1. out = <<>>
    BY <1>1 DEF Reader, ReaderAt, HeaderStages, Fields
  <2>2. AtBlock(h, s)'
    BY <1>1, <1>3, <1>5, <1>8, <2>1 DEF AtBlock
  <2> QED
    BY <1>8, <2>2 DEF InBlock, BlockFields
<1> QED
  BY <1>8, <1>9, StaysInBlocks

(* Sizes are read back as they were written.                               *)
LEMMA LittleEndianIs ==
  ASSUME NEW n \in Word
  PROVE  LittleEndian(LE2(n)) = n /\ LittleEndian(LE4(n)) = n
<1>1. n \in Nat /\ n < 65536
  BY SMT DEF Word
<1>2. (n % 256) + 256 * (n \div 256) = n
  BY <1>1, SMT
<1>3. (n \div 256) % 256 = n \div 256 /\ (n \div 65536) % 256 = 0 /\ n \div 16777216 = 0
  BY <1>1, SMT
<1>4. LittleEndian(LE2(n)) = n
  BY <1>1, <1>2 DEF LittleEndian, LE2
<1>5. LittleEndian(LE4(n)) = n
  <2> DEFINE a == n % 256
             b == (n \div 256) % 256
             c == (n \div 65536) % 256
             d == n \div 16777216
  <2>1. LE4(n) = <<a, b, c, d>>
    BY DEF LE4
  <2>2. c = 0 /\ d = 0 /\ a + 256 * b = n
    BY <1>2, <1>3, SMT
  <2> HIDE DEF a, b, c, d
  <2>3. LE4(n) = <<a, b, 0, 0>>
    BY <2>1, <2>2
  <2> QED
    BY <2>2, <2>3 DEF LittleEndian
<1> QED
  BY <1>4, <1>5

(* What is read at the right place is the field of the block that lies     *)
(* there,                                                                  *)
LEMMA BlockPart ==
  ASSUME NEW h \in StreamHeaders, NEW s \in Plain, Reader(h, s), s # <<>>,
         NEW t \in Seq(Octet), NEW p \in Nat, Lies(t, p, RawBlock(s, TRUE)),
         at = HeadLen(h) + p, Needs = Len(t), at + Needs <= Len(input)
  PROVE  Bytes = t
<1>1. /\ input \in Seq(Octet) /\ Agree(input, ContainerOf(h, s))
      /\ HeadLen(h) + p + Len(t) <= Len(input)
  BY DEF Reader, ReaderTyped
<1>2. SubSeq(input, HeadLen(h) + p + 1, HeadLen(h) + p + Len(t)) = t
  BY <1>1, BlockRead
<1> QED
  BY <1>2 DEF Bytes

(* or the part of the container.                                           *)
LEMMA ContainerPart ==
  ASSUME NEW h \in StreamHeaders, NEW s \in Plain, Reader(h, s),
         NEW t \in Seq(Octet), Lies(t, at, ContainerOf(h, s)),
         Needs = Len(t), at + Needs <= Len(input)
  PROVE  Bytes = t
<1> DEFINE c == ContainerOf(h, s)
<1>1. /\ input \in Seq(Octet) /\ Agree(input, c) /\ at \in Nat /\ c \in Seq(Octet)
      /\ at + Len(t) <= Len(input) /\ Lies(t, at, c)
  BY ContainerLies DEF Reader, ReaderTyped
<1> HIDE DEF c
<1>2. SubSeq(input, at + 1, at + Len(t)) = t
  BY <1>1, BytesAre
<1> QED
  BY <1>2 DEF Bytes

(* The numbers of the layout.                                              *)
LEMMA LayoutTypes ==
  ASSUME NEW h \in StreamHeaders, NEW s \in Plain
  PROVE  /\ HeadLen(h) \in Nat /\ HeadLen(h) >= 8 /\ Len(s) \in Nat
         /\ SizeWidth(s) \in {2, 6} /\ CountLen(s) \in 1 .. 4
         /\ BlockHeaderLen(s) = 5 + SizeWidth(s) + CountLen(s)
         /\ BlockLen(s) \in Nat
         /\ s # <<>> => BlockLen(s) = BlockHeaderLen(s) + Len(s)
         /\ s = <<>> => BlockLen(s) = 0 /\ Len(s) = 0
<1>1. HeadLen(h) \in Nat /\ HeadLen(h) >= 8
  <2>1. HeaderFields(h) \in Seq(Octet) /\ Lies(<<FlagByte(h.flags), 0>>, 1, HeaderFields(h))
    BY FieldsLie
  <2>2. Len(HeaderFields(h)) \in Nat /\ 3 <= Len(HeaderFields(h))
    <3>1. Len(<<FlagByte(h.flags), 0>>) = 2
      OBVIOUS
    <3> QED
      BY <2>1, <3>1, LenProperties DEF Lies
  <2> QED
    BY <2>2 DEF HeadLen
<1>2. SizeWidth(s) \in {2, 6} /\ CountLen(s) \in 1 .. 4
  BY RawBlockLies
<1>3. Len(s) \in Nat
  BY PlainIs
<1> QED
  BY <1>1, <1>2, <1>3 DEF BlockHeaderLen, BlockLen

(* An input that ends behind the headers does not end in one.              *)
LEMMA HeaderThere ==
  ASSUME NEW h \in StreamHeaders, NEW s \in Plain, Len(input) \in Nat,
         HeadLen(h) <= Len(input),
         s = <<>> \/ Len(input) = HeadLen(h) \/ HeadLen(h) + BlockHeaderLen(s) <= Len(input)
  PROVE  ~EndsInHeader(h, s)
<1> DEFINE d == HeadLen(h)
           b == BlockHeaderLen(s)
           l == Len(input)
<1>1. d \in Nat /\ l \in Nat /\ b \in Nat /\ d <= l /\ (s = <<>> \/ l = d \/ d + b <= l)
  BY LayoutTypes
<1>2. EndsInHeader(h, s) <=> (l - d < 0 \/ (s # <<>> /\ l - d \in 1 .. b - 1))
  BY DEF EndsInHeader
<1> HIDE DEF d, b, l
<1> QED
  BY <1>1, <1>2

(* The first byte of a block, or the end of the stream.                    *)
LEMMA BlockBegins ==
  ASSUME NEW h \in StreamHeaders, NEW s \in Plain, Reader(h, s), ReadBlockByte
  PROVE  ReaderAt(h, s)'
<1>1. rpc = "block" /\ Needs = 1 /\ at + 1 <= Len(input)
  BY DEF ReadBlockByte, Reading, Needs
<1>2. /\ flags = h.flags /\ (AtBlock(h, s) \/ BehindBlock(h, s))
      /\ input \in Seq(Octet) /\ Len(input) \in Nat /\ at \in Nat /\ mode \in {"decode", "inspect"}
      /\ limit \in Nat
  BY <1>1, LenProperties DEF Reader, ReaderAt, InBlock, ReaderTyped
<1>3. /\ HeadLen(h) \in Nat /\ Len(s) \in Nat
      /\ SizeWidth(s) \in {2, 6} /\ CountLen(s) \in 1 .. 4
      /\ BlockHeaderLen(s) = 5 + SizeWidth(s) + CountLen(s)
      /\ BlockLen(s) \in Nat
      /\ s # <<>> => BlockLen(s) = BlockHeaderLen(s) + Len(s)
      /\ s = <<>> => BlockLen(s) = 0 /\ Len(s) = 0
  BY LayoutTypes
<1>4. /\ block' = [NoBlock EXCEPT !.type = Bytes[1] % 8, !.hasChecksum = (Bytes[1] \div 8) % 2 = 1]
      /\ groups' = 0 /\ at' = at + 1 /\ input' = input /\ mode' = mode /\ limit' = limit
      /\ flags' = flags /\ out' = out
  BY <1>1 DEF ReadBlockByte, Advance
<1>5. CASE s # <<>> /\ AtBlock(h, s)
  <2> DEFINE t == <<24>>
             p == 0
  <2>1. t \in Seq(Octet) /\ Len(t) = 1 /\ t[1] = 24 /\ Lies(t, p, RawBlock(s, TRUE))
    <3>1. Lies(<<24>>, 0, RawBlock(s, TRUE))
      BY RawBlockLies
    <3>2. 24 \in Octet
      BY DEF Octet
    <3>3. t \in Seq(Octet) /\ Len(t) = 1 /\ t[1] = 24
      BY <3>2
    <3> QED
      BY <3>1, <3>3
  <2>2. p \in Nat /\ at = HeadLen(h) + p /\ Needs = Len(t) /\ at + Needs <= Len(input)
    BY <1>1, <1>3, <1>5, <2>1 DEF AtBlock
  <2> HIDE DEF t, p
  <2>3. Bytes = t
    BY <1>5, <2>1, <2>2, BlockPart
  <2>4. Bytes[1] = 24
    BY <2>1, <2>3
  <2>5. rpc' = "csize" /\ block'.type = 0 /\ block'.hasChecksum /\ block'.usize = 0
    <3>1. rpc' = "csize"
      BY <2>4 DEF ReadBlockByte, Goto
    <3>2. /\ block'.type = Bytes[1] % 8 /\ block'.usize = 0
          /\ block'.hasChecksum <=> (Bytes[1] \div 8) % 2 = 1
      BY <1>4, Zenon DEF NoBlock
    <3>3. 24 % 8 = 0 /\ (24 \div 8) % 2 = 1
      OBVIOUS
    <3> QED
      BY <2>4, <3>1, <3>2, <3>3
  <2>6. InBlock(h, s)' /\ at' <= Len(input')
    BY <1>1, <1>2, <1>4, <1>5, <2>5 DEF InBlock, AtBlock, BlockFields
  <2> QED
    BY <2>5, <2>6, StaysInBlocks DEF BlockFields
<1>6. CASE s = <<>> \/ BehindBlock(h, s)
  <2> DEFINE t == <<23>>
  <2>1. t \in Seq(Octet) /\ Len(t) = 1 /\ t[1] = 23
    BY DEF Octet
  <2>2. at = HeadLen(h) + BlockLen(s)
    BY <1>2, <1>3, <1>6 DEF AtBlock, BehindBlock
  <2>3. mode = "decode" => out = s /\ Len(s) <= limit
    BY <1>2, <1>3, <1>6 DEF AtBlock, BehindBlock
  <2>4. Lies(t, at, ContainerOf(h, s)) /\ Needs = Len(t) /\ at + Needs <= Len(input)
    BY <1>1, <2>1, <2>2, ContainerLies
  <2> HIDE DEF t
  <2>5. Bytes = t
    BY <2>1, <2>4, ContainerPart
  <2>6. Bytes[1] = 23
    BY <2>1, <2>5
  <2>7. IF mode = "decode" /\ flags.checksum THEN rpc' = "digest" ELSE rpc' = "idle" /\ outcome' = "ok"
    BY <2>6 DEF ReadBlockByte, Goto, End
  <2>8. CASE mode = "decode" /\ flags.checksum
    <3>1. InBlock(h, s)' /\ at' <= Len(input')
      BY <1>1, <1>2, <1>4, <2>2, <2>3, <2>7, <2>8 DEF InBlock, BlockFields
    <3> QED
      BY <2>7, <2>8, <3>1, StaysInBlocks
  <2>9. CASE ~(mode = "decode" /\ flags.checksum)
    <3>1. rpc' = "idle" /\ outcome' = "ok"
      BY <2>7, <2>9
    <3>2. ~EndsInHeader(h, s)'
      <4>1. ~EndsInHeader(h, s)
        <5>1. HeadLen(h) <= Len(input) /\ (s = <<>> \/ HeadLen(h) + BlockHeaderLen(s) <= Len(input))
          <6> DEFINE d == HeadLen(h)
                     b == BlockHeaderLen(s)
                     k == BlockLen(s)
                     l == Len(input)
                     n == Len(s)
          <6>1. d \in Nat /\ k \in Nat /\ l \in Nat /\ n \in Nat /\ at = d + k /\ at + 1 <= l
            BY <1>1, <1>2, <1>3, <2>2
          <6>2. b \in Nat /\ (s # <<>> => k = b + n)
            BY <1>3
          <6> HIDE DEF d, b, k, l, n
          <6>3. d <= l /\ (s = <<>> \/ d + b <= l)
            BY <6>1, <6>2
          <6> QED
            BY <6>3 DEF d, b, l
        <5> QED
          BY <1>2, <5>1, HeaderThere
      <4> QED
        BY <1>4, <4>1 DEF EndsInHeader
    <3>3. mode = "decode" => TotalLen(h, s) <= Len(input)
      BY <1>1, <1>2, <1>3, <2>2, <2>9, SMTT(30) DEF TotalLen
    <3>4. Ended(h, s)'
      BY <1>4, <2>3, <3>1, <3>2, <3>3 DEF Ended
    <3> QED
      BY <3>1, <3>4, HasEnded
  <2> QED
    BY <2>8, <2>9
<1> QED
  BY <1>2, <1>5, <1>6

(* The compressed size, with its escape.                                   *)
LEMMA SizesRead ==
  ASSUME NEW h \in StreamHeaders, NEW s \in Plain, Reader(h, s),
         ReadCompressedSize \/ ReadExtendedSize
  PROVE  ReaderAt(h, s)'
<1> DEFINE d == HeadLen(h)
           n == Len(s)
           r == RawBlock(s, TRUE)
<1>1. rpc \in {"csize", "extended"} /\ rpc \in BlockFields /\ at + Needs <= Len(input)
  BY DEF ReadCompressedSize, ReadExtendedSize, Reading, BlockFields
<1>2. /\ flags = h.flags /\ s # <<>> /\ out = <<>> /\ block.type = 0 /\ block.hasChecksum
      /\ groups = 0 /\ block.usize = 0
  BY <1>1 DEF Reader, ReaderAt, InBlock
<1>3. /\ input \in Seq(Octet) /\ Len(input) \in Nat /\ at \in Nat /\ block \in Blocks
  BY LenProperties DEF Reader, ReaderTyped
<1>4. d \in Nat /\ n \in Nat /\ n \in Word /\ Escape \in Word /\ CountLen(s) \in 1 .. 4
  <2>1. Escape \in Word
    BY EscapeIsWord
  <2> QED
    BY <2>1, LayoutTypes, PlainIs
<1>5. /\ input' = input /\ flags' = flags /\ out' = out /\ mode' = mode /\ limit' = limit
      /\ groups' = groups /\ at' = at + Needs
      /\ block' = [block EXCEPT !.csize = LittleEndian(Bytes)]
  BY DEF ReadCompressedSize, ReadExtendedSize, Advance
<1>6. /\ block'.type = 0 /\ block'.hasChecksum /\ block'.usize = 0
      /\ block'.csize = LittleEndian(Bytes)
  BY <1>2, <1>3, <1>5 DEF Blocks
<1>7. n % 128 ^ 0 = 0
  <2>1. n \in 0 .. Huge - 1 /\ 0 \in 0 .. 3
    BY PlainIs
  <2> QED
    BY <2>1, GroupsAddUp
<1>8. CASE ReadCompressedSize /\ n < Escape
  <2> DEFINE t == LE2(n)
             p == 1
  <2>1. rpc = "csize" /\ Needs = 2 /\ at = d + p /\ p \in Nat
    BY <1>8 DEF ReadCompressedSize, Reading, Needs, Reader, ReaderAt, InBlock
  <2>2. t \in Seq(Octet) /\ Len(t) = 2 /\ Lies(t, p, r)
    BY <1>4, <1>8, LE2Type, RawBlockLies
  <2> HIDE DEF t, p
  <2>3. Bytes = t
    <3>1. at = HeadLen(h) + p /\ Lies(t, p, RawBlock(s, TRUE)) /\ Needs = Len(t)
      BY <2>1, <2>2
    <3> QED
      BY <1>1, <1>2, <2>1, <2>2, <3>1, BlockPart
  <2>4. LittleEndian(Bytes) = n
    BY <1>4, <2>3, LittleEndianIs DEF t
  <2>5. rpc' = "usize"
    BY <1>6, <1>8, <2>4 DEF ReadCompressedSize, Goto
  <2>6. at' = d + 3 /\ SizeWidth(s) = 2 /\ at' <= Len(input')
    BY <1>1, <1>4, <1>5, <1>8, <2>1 DEF SizeWidth, p
  <2>7. InBlock(h, s)'
    BY <1>2, <1>4, <1>5, <1>6, <1>7, <2>4, <2>5, <2>6 DEF InBlock, BlockFields
  <2> QED
    BY <2>5, <2>6, <2>7, StaysInBlocks DEF BlockFields
<1>9. CASE ReadCompressedSize /\ ~(n < Escape)
  <2> DEFINE t == LE2(Escape)
             p == 1
  <2>1. rpc = "csize" /\ Needs = 2 /\ at = d + p /\ p \in Nat
    BY <1>9 DEF ReadCompressedSize, Reading, Needs, Reader, ReaderAt, InBlock
  <2>2. t \in Seq(Octet) /\ Len(t) = 2 /\ Lies(t, p, r)
    BY <1>4, <1>9, LE2Type, RawBlockLies
  <2> HIDE DEF t, p
  <2>3. Bytes = t
    <3>1. at = HeadLen(h) + p /\ Lies(t, p, RawBlock(s, TRUE)) /\ Needs = Len(t)
      BY <2>1, <2>2
    <3> QED
      BY <1>1, <1>2, <2>1, <2>2, <3>1, BlockPart
  <2>4. LittleEndian(Bytes) = Escape
    BY <1>4, <2>3, LittleEndianIs DEF t
  <2>5. rpc' = "extended"
    <3>1. ~(block'.csize < Escape)
      <4>1. ~(Escape < Escape)
        BY EscapeIsWord
      <4> QED
        BY <1>6, <2>4, <4>1
    <3> QED
      BY <1>9, <3>1 DEF ReadCompressedSize, Goto
  <2>6. at' = d + 3 /\ at' <= Len(input')
    BY <1>1, <1>4, <1>5, <2>1 DEF p
  <2>7. InBlock(h, s)'
    BY <1>2, <1>5, <1>6, <1>9, <2>5, <2>6 DEF InBlock, BlockFields
  <2> QED
    BY <2>5, <2>6, <2>7, StaysInBlocks DEF BlockFields
<1>10. CASE ReadExtendedSize
  <2> DEFINE t == LE4(n)
             p == 3
  <2>1. rpc = "extended" /\ Needs = 4 /\ at = d + p /\ p \in Nat /\ ~(n < Escape)
    BY <1>10 DEF ReadExtendedSize, Reading, Needs, Reader, ReaderAt, InBlock
  <2>2. t \in Seq(Octet) /\ Len(t) = 4 /\ Lies(t, p, r)
    <3>1. n \in 0 .. Huge - 1
      BY PlainIs
    <3> QED
      BY <2>1, <3>1, LE4Type, RawBlockLies
  <2> HIDE DEF t, p
  <2>3. Bytes = t
    <3>1. at = HeadLen(h) + p /\ Lies(t, p, RawBlock(s, TRUE)) /\ Needs = Len(t)
      BY <2>1, <2>2
    <3> QED
      BY <1>1, <1>2, <2>1, <2>2, <3>1, BlockPart
  <2>4. LittleEndian(Bytes) = n
    BY <1>4, <2>3, LittleEndianIs DEF t
  <2>5. rpc' = "usize"
    BY <1>10 DEF ReadExtendedSize, Goto
  <2>6. at' = d + 7 /\ SizeWidth(s) = 6 /\ at' <= Len(input')
    BY <1>1, <1>4, <1>5, <2>1 DEF SizeWidth, p
  <2>7. InBlock(h, s)'
    BY <1>2, <1>4, <1>5, <1>6, <1>7, <2>4, <2>5, <2>6 DEF InBlock, BlockFields
  <2> QED
    BY <2>5, <2>6, <2>7, StaysInBlocks DEF BlockFields
<1> QED
  BY <1>8, <1>9, <1>10

(* The uncompressed size, group by group.                                  *)
LEMMA CountRead ==
  ASSUME NEW h \in StreamHeaders, NEW s \in Plain, Reader(h, s), ReadUncompressedSize
  PROVE  ReaderAt(h, s)'
<1> DEFINE d == HeadLen(h)
           n == Len(s)
           r == RawBlock(s, TRUE)
           u == Uleb(n)
           w == SizeWidth(s)
           m == CountLen(s)
           i == groups + 1
           t == <<u[i]>>
<1>1. rpc = "usize" /\ Needs = 1 /\ at + Needs <= Len(input)
  BY DEF ReadUncompressedSize, Reading, Needs
<1>2. /\ flags = h.flags /\ s # <<>> /\ out = <<>> /\ block.type = 0 /\ block.hasChecksum
      /\ groups < m /\ at = d + 1 + w + groups /\ block.csize = n /\ block.usize = n % 128 ^ groups
  BY <1>1 DEF Reader, ReaderAt, InBlock, BlockFields
<1>3. /\ input \in Seq(Octet) /\ Len(input) \in Nat /\ at \in Nat /\ block \in Blocks
      /\ groups \in Nat
  BY LenProperties DEF Reader, ReaderTyped
<1>4. d \in Nat /\ n \in Nat /\ w \in {2, 6} /\ m \in 1 .. 4 /\ n \in 0 .. Huge - 1
  BY LayoutTypes, PlainIs
<1>5. /\ u \in Seq(Octet) /\ Len(u) = m /\ n < 128 ^ m
      /\ \A j \in 1 .. m : u[j] % 128 = Group(n, j) /\ (u[j] >= 128 <=> j < m)
  BY <1>4, UlebIs DEF CountLen
<1>6. /\ i \in 1 .. m /\ groups \in 0 .. 3 /\ u[i] \in Nat
      /\ u[i] % 128 = Group(n, i) /\ (u[i] >= 128 <=> i < m)
  <2>1. i \in 1 .. m /\ groups \in 0 .. 3
    BY <1>2, <1>3, <1>4
  <2>2. u[i] \in Nat
    BY <1>5, <2>1, OctetAt
  <2> QED
    BY <1>5, <2>1, <2>2
<1>7. t \in Seq(Octet) /\ Len(t) = 1 /\ t[1] = u[i]
  <2>1. u[i] \in Octet
    BY <1>5, <1>6, OctetAt
  <2> QED
    BY <2>1
<1>8. r \in Seq(Octet) /\ Lies(u, 1 + w, r)
  BY RawBlockLies
<1>9. Bytes = t
  <2> DEFINE p == 1 + w
             q == p + i - 1
  <2>1. p \in Nat /\ q \in Nat /\ at = d + q
    <3>1. w \in Nat /\ d \in Nat /\ groups \in Nat /\ at = d + 1 + w + groups
      BY <1>2, <1>3, <1>4
    <3> HIDE DEF w, d
    <3> QED
      BY <3>1
  <2> HIDE DEF q, p, d, i, u
  <2>2. Lies(<<u[i]>>, p + i - 1, r)
    BY <1>5, <1>6, <1>8, <2>1, OneLies DEF p
  <2> HIDE DEF t
  <2>3. Lies(t, q, RawBlock(s, TRUE)) /\ at = HeadLen(h) + q /\ Needs = Len(t)
    BY <1>1, <1>7, <2>1, <2>2 DEF q, t, d
  <2> QED
    BY <1>1, <1>2, <1>7, <2>1, <2>3, BlockPart
<1> HIDE DEF u, t
<1>10. GroupValue = Group(n, i) * 128 ^ groups
  <2>1. Bytes[1] % 128 = Group(n, i) /\ groups # 4
    BY <1>6, <1>7, <1>9
  <2> QED
    BY <2>1 DEF GroupValue
<1>11. block' = [block EXCEPT !.usize = @ + GroupValue] /\ groups' = i /\ at' = at + 1
       /\ input' = input /\ flags' = flags /\ out' = out
  BY <1>1, <1>2 DEF ReadUncompressedSize
<1>12. /\ block'.type = 0 /\ block'.hasChecksum /\ block'.csize = n
       /\ block'.usize = n % 128 ^ i /\ (n < 128 ^ i => block'.usize = n)
  <2>1. /\ (n % 128 ^ groups) + Group(n, groups + 1) * 128 ^ groups = n % 128 ^ (groups + 1)
        /\ n < 128 ^ (groups + 1) => n % 128 ^ (groups + 1) = n
    BY <1>4, <1>6, GroupsAddUp, ZenonT(30)
  <2>2. /\ block'.type = block.type /\ block'.hasChecksum = block.hasChecksum
        /\ block'.csize = block.csize /\ block'.usize = block.usize + GroupValue
    BY <1>3, <1>11 DEF Blocks
  <2> QED
    BY <1>2, <1>10, <2>1, <2>2
<1>13. at' <= Len(input')
  BY <1>1, <1>11
<1>14. Bytes[1] = u[i]
  BY <1>7, <1>9
<1>15. CASE i < m
  <2>1. rpc' = "usize"
    <3>1. Bytes[1] >= 128 /\ ~(7 * groups' >= 32)
      BY <1>4, <1>6, <1>11, <1>14, <1>15
    <3> QED
      BY <3>1 DEF ReadUncompressedSize, Goto
  <2>2. at' = d + 1 + w + groups' /\ groups' < m
    <3>1. /\ groups' = groups + 1 /\ at' = at + 1 /\ at = d + 1 + w + groups /\ groups + 1 < m
          /\ groups \in Nat /\ at \in Nat /\ d \in Nat /\ w \in Nat
      BY <1>2, <1>3, <1>4, <1>11, <1>15, SMTT(30)
    <3> HIDE DEF d, w, m, i
    <3> QED
      BY <3>1
  <2>3. block'.usize = n % 128 ^ groups'
    BY <1>11, <1>12
  <2>4. InBlock(h, s)'
    BY <1>2, <1>11, <1>12, <2>1, <2>2, <2>3 DEF InBlock, BlockFields
  <2> QED
    BY <1>13, <2>1, <2>4, StaysInBlocks DEF BlockFields
<1>16. CASE i = m
  <2>1. rpc' = "blockCrc"
    <3>1. ~(Bytes[1] >= 128)
      BY <1>4, <1>6, <1>14, <1>16
    <3> QED
      BY <1>2, <3>1 DEF ReadUncompressedSize, Goto
  <2>2. at' = d + 1 + w + m
    <3>1. w \in Nat /\ d \in Nat /\ groups \in Nat /\ at = d + 1 + w + groups
      BY <1>2, <1>3, <1>4
    <3>2. at' = at + 1 /\ groups + 1 = m
      BY <1>11, <1>16
    <3> HIDE DEF w, d, m
    <3> QED
      BY <3>1, <3>2
  <2>3. block'.usize = n
    BY <1>5, <1>12, <1>16
  <2>4. InBlock(h, s)'
    BY <1>2, <1>11, <1>12, <2>1, <2>2, <2>3 DEF InBlock, BlockFields
  <2> QED
    BY <1>13, <2>1, <2>4, StaysInBlocks DEF BlockFields
<1> QED
  BY <1>4, <1>6, <1>15, <1>16

(* The CRC-32C.                                                            *)
LEMMA BlockCrcRead ==
  ASSUME NEW h \in StreamHeaders, NEW s \in Plain, Reader(h, s), ReadBlockCrc
  PROVE  ReaderAt(h, s)'
<1> DEFINE d == HeadLen(h)
           n == Len(s)
           t == Crc32c(s)
           w == SizeWidth(s)
           m == CountLen(s)
           q == 1 + w + m
           b == BlockHeaderLen(s)
<1>1. rpc = "blockCrc" /\ Needs = 4 /\ at + Needs <= Len(input)
  BY DEF ReadBlockCrc, Reading, Needs
<1>2. /\ flags = h.flags /\ s # <<>> /\ out = <<>> /\ block.type = 0 /\ block.hasChecksum
      /\ at = d + 1 + w + m /\ block.csize = n /\ block.usize = n
  BY <1>1 DEF Reader, ReaderAt, InBlock, BlockFields
<1>3. /\ input \in Seq(Octet) /\ Len(input) \in Nat /\ at \in Nat /\ block \in Blocks
      /\ mode \in {"decode", "inspect"} /\ limit \in Nat
  BY LenProperties DEF Reader, ReaderTyped
<1>4. /\ d \in Nat /\ n \in Nat /\ w \in Nat /\ m \in Nat /\ b = 5 + w + m
      /\ BlockLen(s) = b + n
  BY <1>2, LayoutTypes, SMTT(30)
<1>5. t \in Seq(Octet) /\ Len(t) = 4 /\ Lies(t, 1 + w + m, RawBlock(s, TRUE))
  BY PlainIs, Crc32cType, RawBlockLies
<1>6. Bytes = t
  <2>1. q \in Nat /\ at = d + q
    <3> HIDE DEF d, w, m
    <3> QED
      BY <1>2, <1>4
  <2>2. Lies(t, q, RawBlock(s, TRUE)) /\ at = HeadLen(h) + q /\ Needs = Len(t)
    BY <1>1, <1>5, <2>1
  <2> HIDE DEF q, t
  <2> QED
    BY <1>1, <1>2, <1>5, <2>1, <2>2, BlockPart
<1>7. /\ block' = [block EXCEPT !.crc = t] /\ HeaderRead(block', at + 4)
      /\ input' = input /\ mode' = mode /\ limit' = limit /\ flags' = flags /\ out' = out
  BY <1>6 DEF ReadBlockCrc
<1>8. /\ block'.type = 0 /\ block'.hasChecksum /\ block'.csize = n /\ block'.usize = n
      /\ block'.crc = t
  BY <1>2, <1>3, <1>7 DEF Blocks
<1>9. at + 4 = d + b /\ d + b <= Len(input)
  <2> HIDE DEF d, w, m, b
  <2> QED
    BY <1>1, <1>2, <1>3, <1>4
<1> HIDE DEF d, n, t, w, m, b
<1>10. CASE mode = "inspect"
  <2>1. at' = d + BlockLen(s) /\ rpc' = "block"
    BY <1>4, <1>7, <1>8, <1>9, <1>10 DEF HeaderRead, Goto
  <2>2. BehindBlock(h, s)'
    BY <1>2, <1>7, <1>9, <1>10, <2>1 DEF BehindBlock, d, b
  <2>3. InBlock(h, s)'
    BY <1>2, <1>7, <2>1, <2>2 DEF InBlock, BlockFields
  <2> QED
    BY <2>1, <2>3, StaysInBlocks
<1>11. CASE mode = "decode" /\ n > limit
  <2>1. at' = d + b /\ rpc' = "idle" /\ outcome' = "DecompressionBombDetected"
    <3>1. TooLong(block')
      <4>1. Len(out) = 0
        BY <1>2
      <4> QED
        BY <1>3, <1>4, <1>8, <1>11, <4>1 DEF TooLong
    <3> QED
      BY <1>7, <1>9, <1>11, <3>1 DEF HeaderRead, End
  <2>2. ~EndsInHeader(h, s)
    <3>1. HeadLen(h) <= Len(input) /\ HeadLen(h) + BlockHeaderLen(s) <= Len(input)
      BY <1>3, <1>4, <1>9 DEF d, b
    <3> QED
      BY <1>3, <3>1, HeaderThere
  <2>3. Ended(h, s)'
    BY <1>7, <1>11, <2>1, <2>2 DEF Ended, EndsInHeader, n
  <2> QED
    BY <2>1, <2>3, HasEnded
<1>12. CASE mode = "decode" /\ ~(n > limit)
  <2>1. at' = d + b /\ rpc' = "payload"
    <3>1. ~TooLong(block')
      <4>1. Len(out) = 0
        BY <1>2
      <4> QED
        BY <1>3, <1>4, <1>8, <1>12, <4>1 DEF TooLong
    <3> QED
      BY <1>7, <1>9, <1>12, <3>1 DEF HeaderRead, Goto
  <2>2. n <= limit
    BY <1>3, <1>4, <1>12
  <2>3. InBlock(h, s)'
    BY <1>2, <1>7, <1>8, <1>12, <2>1, <2>2 DEF InBlock, BlockFields, d, n, t, b
  <2> QED
    BY <1>7, <1>9, <2>1, <2>3, StaysInBlocks DEF BlockFields
<1> QED
  BY <1>3, <1>10, <1>11, <1>12

(* The payload.                                                            *)
LEMMA PayloadRead ==
  ASSUME NEW h \in StreamHeaders, NEW s \in Plain, Reader(h, s), ReadPayload
  PROVE  ReaderAt(h, s)'
<1> DEFINE d == HeadLen(h)
           n == Len(s)
           b == BlockHeaderLen(s)
<1>1. rpc = "payload" /\ Needs = block.csize /\ at + Needs <= Len(input)
  BY DEF ReadPayload, Reading, Needs
<1>2. /\ flags = h.flags /\ s # <<>> /\ out = <<>> /\ block.type = 0 /\ block.hasChecksum
      /\ mode = "decode" /\ n <= limit /\ at = d + b
      /\ block.csize = n /\ block.usize = n /\ block.crc = Crc32c(s)
  BY <1>1 DEF Reader, ReaderAt, InBlock, BlockFields
<1>3. input \in Seq(Octet) /\ Len(input) \in Nat /\ at \in Nat /\ limit \in Nat
  BY LenProperties DEF Reader, ReaderTyped
<1>4. d \in Nat /\ n \in Nat /\ b \in Nat /\ BlockLen(s) = b + n /\ s \in Seq(Octet)
  BY <1>2, LayoutTypes, PlainIs, SMTT(30)
<1>5. Bytes = s
  <2>1. Lies(s, b, RawBlock(s, TRUE))
    BY RawBlockLies
  <2> HIDE DEF b
  <2>2. at = HeadLen(h) + b /\ Needs = Len(s)
    BY <1>1, <1>2
  <2> QED
    BY <1>1, <1>2, <1>4, <2>1, <2>2, BlockPart
<1>6. Decodings = {s}
  BY <1>2, <1>5 DEF Decodings
<1>7. out' = <<>> \o s /\ rpc' = "block"
  BY <1>2, <1>6 DEF ReadPayload, Goto
<1>8. out' = s
  BY <1>4, <1>7
<1>9. at' = d + BlockLen(s) /\ input' = input /\ mode' = mode /\ limit' = limit /\ flags' = flags
  <2>1. Advance /\ flags' = flags
    BY DEF ReadPayload
  <2> HIDE DEF d, b, n
  <2> QED
    BY <1>1, <1>2, <1>4, <2>1 DEF Advance
<1>10. d + b <= Len(input)
  <2> HIDE DEF d, b, n
  <2> QED
    BY <1>1, <1>2, <1>3, <1>4
<1>11. BehindBlock(h, s)'
  BY <1>2, <1>8, <1>9, <1>10 DEF BehindBlock
<1>12. InBlock(h, s)'
  BY <1>2, <1>7, <1>9, <1>11 DEF InBlock, BlockFields
<1> QED
  BY <1>7, <1>12, StaysInBlocks

(* The digest of the stream.                                               *)
LEMMA DigestRead ==
  ASSUME NEW h \in StreamHeaders, NEW s \in Plain, Reader(h, s), ReadDigest
  PROVE  ReaderAt(h, s)'
<1> DEFINE d == HeadLen(h)
           k == BlockLen(s)
           t == Digest(s)
<1>1. rpc = "digest" /\ Needs = 8 /\ at + Needs <= Len(input)
  BY DEF ReadDigest, Reading, Needs
<1>2. /\ mode = "decode" /\ h.flags.checksum /\ out = s /\ Len(s) <= limit
      /\ at = d + k + 1
  BY <1>1 DEF Reader, ReaderAt, InBlock, BlockFields
<1>3. Len(input) \in Nat /\ at \in Nat
  BY LenProperties DEF Reader, ReaderTyped
<1>4. d \in Nat /\ k \in Nat
  BY LayoutTypes
<1>5. Bytes = t
  <2>1. t \in Seq(Octet) /\ Len(t) = 8 /\ Lies(t, at, ContainerOf(h, s))
    BY <1>2, PlainIs, ContainerLies
  <2> HIDE DEF t
  <2>2. Needs = Len(t)
    BY <1>1, <2>1
  <2> QED
    BY <1>1, <2>1, <2>2, ContainerPart
<1>6. /\ rpc' = "idle" /\ outcome' = "ok" /\ input' = input /\ mode' = mode /\ limit' = limit
      /\ out' = out
  BY <1>2, <1>5 DEF ReadDigest, End, Advance
<1>7. TotalLen(h, s) <= Len(input) /\ d <= Len(input) /\ d + k + 1 <= Len(input)
  <2>1. TotalLen(h, s) = d + k + 1 + 8
    BY <1>2 DEF TotalLen
  <2> HIDE DEF d, k
  <2> QED
    BY <1>1, <1>2, <1>3, <1>4, <2>1
<1>8. ~EndsInHeader(h, s)
  <2>1. s = <<>> \/ HeadLen(h) + BlockHeaderLen(s) <= Len(input)
    <3> DEFINE n == Len(s)
               b == BlockHeaderLen(s)
    <3>1. n \in Nat /\ b \in Nat /\ (s # <<>> => k = b + n)
      BY LayoutTypes
    <3> HIDE DEF n, b, k, d
    <3>2. s = <<>> \/ d + b <= Len(input)
      BY <1>3, <1>4, <1>7, <3>1
    <3> QED
      BY <3>2 DEF d, b
  <2> QED
    BY <1>3, <1>7, <2>1, HeaderThere
<1>9. Ended(h, s)'
  <2>1. ~EndsInHeader(h, s)'
    BY <1>6, <1>8 DEF EndsInHeader
  <2> QED
    BY <1>2, <1>6, <1>7, <2>1 DEF Ended
<1> QED
  BY <1>6, <1>9, HasEnded

(* Every field of the stream header ends within it.                        *)
LEMMA HeaderLasts ==
  ASSUME NEW h \in StreamHeaders, NEW s \in Plain, Reader(h, s), rpc \in HeaderStages
  PROVE  at + Needs <= HeadLen(h)
<1> DEFINE l == Len(HeaderFields(h))
           e == ExponentLen(h)
           z == SizeLen(h)
           y == DictionaryLen(h)
           k == Len(covered)
           d == HeadLen(h)
<1> SUFFICES at + Needs <= d
  OBVIOUS
<1>1. l = 3 + e + z + y /\ e \in Nat /\ z \in Nat /\ y \in Nat /\ d = 5 + l
  <2>1. h.size \in 0 .. Huge - 1
    BY DEF StreamHeaders
  <2>2. Len(Uleb(h.size)) \in Nat
    BY <2>1, UlebIs
  <2>3. e \in Nat /\ z \in Nat /\ y \in Nat
    BY <2>2 DEF ExponentLen, SizeLen, DictionaryLen
  <2>4. l = 3 + e + z + y
    BY FieldsLie
  <2> QED
    BY <2>3, <2>4 DEF HeadLen
<1>2. InHeader(h) /\ groups \in Nat
  BY DEF Reader, ReaderAt, ReaderTyped
<1>3. h.flags.window = 3 => e = 1
  BY DEF ExponentLen
<1>4. h.flags.dictionary => y = 4
  BY DEF DictionaryLen
<1>5. CASE rpc = "magic"
  <2>1. at = 0 /\ Needs = 4
    BY <1>2, <1>5 DEF InHeader, Needs
  <2> HIDE DEF l, e, z, y, d
  <2> QED
    BY <1>1, <2>1
<1>6. CASE rpc = "version"
  <2>1. at = 4 + 0 /\ Needs = 1
    BY <1>2, <1>6 DEF InHeader, FieldsRead, Needs
  <2> HIDE DEF l, e, z, y, d
  <2> QED
    BY <1>1, <2>1
<1>7. CASE rpc = "flags"
  <2>1. at = 4 + 1 /\ Needs = 2
    BY <1>2, <1>7 DEF InHeader, FieldsRead, Needs
  <2> HIDE DEF l, e, z, y, d
  <2> QED
    BY <1>1, <2>1
<1>8. CASE rpc \in Fields
  <2>1. at = 4 + k /\ FieldAt(h, rpc, k, groups)
    BY <1>2, <1>8 DEF InHeader, FieldsRead
  <2>2. CASE rpc = "exponent"
    <3>1. k = 3 /\ e = 1 /\ Needs = 1
      BY <1>3, <2>1, <2>2 DEF FieldAt, Needs
    <3> HIDE DEF l, e, z, y, k, d
    <3> QED
      BY <1>1, <2>1, <3>1
  <2>3. CASE rpc = "size"
    <3>1. k = 3 + e + groups /\ groups < z /\ Needs = 1
      BY <2>1, <2>3 DEF FieldAt, Needs
    <3> HIDE DEF l, e, z, y, k, d
    <3> QED
      BY <1>1, <1>2, <2>1, <3>1
  <2>4. CASE rpc = "dictionary"
    <3>1. k = 3 + e + z /\ y = 4 /\ Needs = 4
      BY <1>4, <2>1, <2>4 DEF FieldAt, Needs
    <3> HIDE DEF l, e, z, y, k, d
    <3> QED
      BY <1>1, <2>1, <3>1
  <2>5. CASE rpc = "crc"
    <3>1. k = l /\ Needs = 1
      BY <2>1, <2>5 DEF FieldAt, Needs
    <3> HIDE DEF l, e, z, y, k, d
    <3> QED
      BY <1>1, <2>1, <3>1
  <2> QED
    BY <1>8, <2>2, <2>3, <2>4, <2>5 DEF Fields
<1> QED
  BY <1>5, <1>6, <1>7, <1>8 DEF HeaderStages

(* Where the input ends is told as Ended says.                             *)
LEMMA EofEnds ==
  ASSUME NEW h \in StreamHeaders, NEW s \in Plain, Reader(h, s), Eof
  PROVE  ReaderAt(h, s)'
<1> DEFINE d == HeadLen(h)
           l == Len(input)
           n == Len(s)
           b == BlockHeaderLen(s)
           k == BlockLen(s)
           w == SizeWidth(s)
           m == CountLen(s)
           z == TotalLen(h, s)
<1>1. /\ rpc' = "idle" /\ outcome' = EofOutcome
      /\ input' = input /\ mode' = mode /\ limit' = limit /\ out' = out
      /\ rpc # "idle" /\ at + Needs > l
  BY DEF Eof, End
<1>2. l \in Nat /\ at \in Nat /\ mode \in {"decode", "inspect"} /\ rpc \in Stages /\ groups \in Nat
  BY LenProperties DEF Reader, ReaderTyped
<1>3. /\ d \in Nat /\ n \in Nat /\ w \in {2, 6} /\ m \in 1 .. 4 /\ b = 5 + w + m /\ k \in Nat
      /\ s # <<>> => k = b + n
      /\ s = <<>> => k = 0
  BY LayoutTypes
<1>4. z = d + k + 1 + (IF h.flags.checksum THEN 8 ELSE 0)
  BY DEF TotalLen
<1>5. EndsInHeader(h, s)' <=> EndsInHeader(h, s)
  BY <1>1 DEF EndsInHeader
<1>6. EndsInHeader(h, s) <=> (l - d < 0 \/ (s # <<>> /\ l - d \in 1 .. b - 1))
  BY DEF EndsInHeader
<1>7. ASSUME EndsInHeader(h, s), EofOutcome = "Io"
      PROVE  ReaderAt(h, s)'
  <2>1. Ended(h, s)'
    BY <1>1, <1>5, <1>7 DEF Ended
  <2> QED
    BY <1>1, <2>1, HasEnded
<1>8. ASSUME ~EndsInHeader(h, s), mode = "decode", l < z, EofOutcome = "UnexpectedEof"
      PROVE  ReaderAt(h, s)'
  <2>1. Ended(h, s)'
    BY <1>1, <1>5, <1>8 DEF Ended
  <2> QED
    BY <1>1, <2>1, HasEnded
<1>9. CASE rpc \in HeaderStages
  <2>1. at + Needs <= d
    BY <1>9, HeaderLasts
  <2>2. EofOutcome = "Io"
    BY <1>9 DEF EofOutcome, HeaderStages, Fields
  <2>3. Needs \in Nat
    BY NeedsType DEF Reader
  <2>4. l < d
    <3> HIDE DEF l, d
    <3> QED
      BY <1>1, <1>2, <1>3, <2>1, <2>3
  <2>5. EndsInHeader(h, s)
    <3> HIDE DEF l, d, b
    <3> QED
      BY <1>2, <1>3, <1>6, <2>4
  <2> QED
    BY <1>7, <2>2, <2>5
<1>10. CASE rpc = "block"
  <2>1. Needs = 1 /\ (AtBlock(h, s) \/ BehindBlock(h, s))
    BY <1>10 DEF Needs, Reader, ReaderAt, InBlock
  <2>2. d <= l /\ (l = d \/ d + b <= l) /\ at <= d + k
    <3>1. \/ at = d /\ at <= l
          \/ s # <<>> /\ at = d + k /\ d + b <= l
      BY <2>1 DEF AtBlock, BehindBlock
    <3> HIDE DEF l, d, b, k
    <3> QED
      BY <1>1, <1>2, <1>3, <2>1, <3>1, SMTT(30)
  <2>3. ~EndsInHeader(h, s)
    BY <1>2, <2>2, HeaderThere
  <2>4. CASE mode = "inspect"
    <3>1. EofOutcome = "ok"
      BY <1>10, <2>4 DEF EofOutcome
    <3>2. Ended(h, s)'
      BY <1>1, <1>5, <2>3, <2>4, <3>1 DEF Ended
    <3> QED
      BY <1>1, <3>2, HasEnded
  <2>5. CASE mode = "decode"
    <3>1. EofOutcome = "UnexpectedEof"
      BY <1>10, <2>5 DEF EofOutcome
    <3>2. l < z
      <4> HIDE DEF l, d, b, k, z
      <4> QED
        BY <1>1, <1>2, <1>3, <1>4, <2>1, <2>2
    <3> QED
      BY <1>8, <2>3, <2>5, <3>1, <3>2
  <2> QED
    BY <1>2, <2>4, <2>5
<1>11. CASE rpc \in {"csize", "extended", "usize", "blockCrc"}
  <2>1. s # <<>> /\ at <= l
    BY <1>11 DEF Reader, ReaderAt, InBlock, BlockFields
  <2>2. EofOutcome = "Io"
    BY <1>11 DEF EofOutcome
  <2>3. at >= d + 1 /\ at + Needs <= d + b
    <3>1. CASE rpc = "csize"
      <4>1. at = d + 1 /\ Needs = 2
        BY <3>1 DEF Needs, Reader, ReaderAt, InBlock
      <4> HIDE DEF d, b, w, m
      <4> QED
        BY <1>3, <4>1
    <3>2. CASE rpc = "extended"
      <4>1. at = d + 3 /\ Needs = 4 /\ w = 6
        BY <3>2 DEF Needs, Reader, ReaderAt, InBlock, SizeWidth
      <4> HIDE DEF d, b, w, m
      <4> QED
        BY <1>3, <4>1
    <3>3. CASE rpc = "usize"
      <4>1. at = d + 1 + w + groups /\ Needs = 1 /\ groups < m
        BY <3>3 DEF Needs, Reader, ReaderAt, InBlock
      <4> HIDE DEF d, b, w, m
      <4> QED
        BY <1>2, <1>3, <4>1
    <3>4. CASE rpc = "blockCrc"
      <4>1. at = d + 1 + w + m /\ Needs = 4
        BY <3>4 DEF Needs, Reader, ReaderAt, InBlock
      <4> HIDE DEF d, b, w, m
      <4> QED
        BY <1>3, <4>1
    <3> QED
      BY <1>11, <3>1, <3>2, <3>3, <3>4
  <2>4. EndsInHeader(h, s)
    <3>1. Needs \in Nat
      BY NeedsType DEF Reader
    <3>2. b \in Nat
      BY <1>3
    <3> HIDE DEF l, d, b
    <3>3. l - d \in 1 .. b - 1
      BY <1>1, <1>2, <1>3, <2>1, <2>3, <3>1, <3>2
    <3> QED
      BY <1>6, <2>1, <3>3
  <2> QED
    BY <1>7, <2>2, <2>4
<1>12. CASE rpc = "payload"
  <2>1. /\ s # <<>> /\ at <= l /\ mode = "decode" /\ at = d + b /\ Needs = n
        /\ EofOutcome = "UnexpectedEof"
    BY <1>12 DEF Reader, ReaderAt, InBlock, BlockFields, Needs, EofOutcome
  <2>2. d <= l /\ d + b <= l /\ l < z
    <3> HIDE DEF l, d, b, k, z, n, w, m
    <3> QED
      BY <1>1, <1>2, <1>3, <1>4, <2>1
  <2>3. ~EndsInHeader(h, s)
    BY <1>2, <2>2, HeaderThere
  <2> QED
    BY <1>8, <2>1, <2>2, <2>3
<1>13. CASE rpc = "digest"
  <2>1. /\ at <= l /\ mode = "decode" /\ h.flags.checksum /\ at = d + k + 1 /\ Needs = 8
        /\ EofOutcome = "UnexpectedEof"
    BY <1>13 DEF Reader, ReaderAt, InBlock, Needs, EofOutcome
  <2>2. d <= l /\ (s = <<>> \/ d + b <= l) /\ l < z
    <3> HIDE DEF l, d, b, k, z, n, w, m
    <3> QED
      BY <1>1, <1>2, <1>3, <1>4, <2>1
  <2>3. ~EndsInHeader(h, s)
    BY <1>2, <2>2, HeaderThere
  <2> QED
    BY <1>8, <2>1, <2>2, <2>3
<1> QED
  BY <1>1, <1>2, <1>9, <1>10, <1>11, <1>12, <1>13 DEF Stages, BlockFields

(* Every read_exact of a container, whole or cut, leads where the layout   *)
(* says.                                                                   *)
LEMMA ReaderGoesOn ==
  ASSUME NEW h \in StreamHeaders, NEW s \in Plain, Reader(h, s), ReadStep
  PROVE  ReaderAt(h, s)'
BY FirstFields, OtherFields, HeaderChecked, BlockBegins, SizesRead, CountRead, BlockCrcRead,
   PayloadRead, DigestRead, EofEnds DEF ReadStep

-----------------------------------------------------------------------------
(* Files.                                                                  *)
LEMMA KnownSizeType ==
  ASSUME NEW s \in Plain
  PROVE  KnownSize(s) \in StreamHeaders
<1>1. Len(s) \in 0 .. Huge - 1 /\ 0 \in 0 .. Huge - 1
  <2>1. Huge - 1 \in Nat
    BY SMT DEF Huge
  <2> QED
    BY <2>1, PlainIs
<1>2. /\ [size |-> TRUE, checksum |-> TRUE, dictionary |-> FALSE, independent |-> FALSE, window |-> 1]
           \in [size : BOOLEAN, checksum : BOOLEAN, dictionary : BOOLEAN, independent : BOOLEAN,
                window : 0 .. 3]
      /\ 20 \in 16 .. 27
  OBVIOUS
<1> QED
  BY <1>1, <1>2 DEF KnownSize, StreamHeaders

(* The files that are stored, containers                                   *)
LEMMA ContainerFileSound ==
  ASSUME NEW h \in StreamHeaders, NEW s \in Plain
  PROVE  /\ FileSound(ContainerFile(h, s)) /\ Whole(ContainerFile(h, s))
         /\ FileIs(ContainerFile(h, s), h, s)
<1> DEFINE c == ContainerOf(h, s)
           d == Len(StreamHeader(h))
           f == ContainerFile(h, s)
<1>1. c \in Seq(Octet) /\ Len(c) = TotalLen(h, s) /\ d = HeadLen(h) /\ d \in Nat /\ s \in Seq(Octet)
  BY ContainerLies, PlainIs
<1>2. /\ f = [bytes |-> c, data |-> s, form |-> "container", head |-> d]
      /\ f.bytes = c /\ f.data = s /\ f.form = "container" /\ f.head = d
  BY DEF ContainerFile
<1> HIDE DEF c, d, f
<1>3. Len(c) <= Len(c) /\ Agree(c, c)
  BY <1>1, LenProperties DEF Agree
<1>4. FileIs(f, h, s)
  BY <1>1, <1>2, <1>3 DEF FileIs, c
<1>5. f \in [bytes : Seq(Octet), data : Seq(Octet), form : Forms, head : Nat]
  BY <1>1, <1>2 DEF Forms
<1>6. FileSound(f)
  BY <1>2, <1>4, <1>5 DEF FileSound
<1>7. Whole(f)
  <2>1. f = ContainerFile(h, s)
    BY DEF f
  <2> QED
    BY <1>2, <2>1 DEF Whole
<1> QED
  BY <1>4, <1>6, <1>7 DEF f

(* and data, are what they say;                                            *)
LEMMA PlainFileSound ==
  ASSUME NEW s \in Seq(Octet), ~BeginsWithMagic(s)
  PROVE  FileSound(PlainFile(s)) /\ Whole(PlainFile(s))
BY DEF PlainFile, FileSound, Whole, Forms

(* and so is the beginning of data.                                        *)
LEMMA NoMagicInBeginning ==
  ASSUME NEW s \in Seq(Octet), NEW n \in 0 .. Len(s), ~BeginsWithMagic(s)
  PROVE  ~BeginsWithMagic(SubSeq(s, 1, n)) /\ SubSeq(s, 1, n) \in Seq(Octet)
<1> DEFINE b == SubSeq(s, 1, n)
<1>1. Len(s) \in Nat /\ b \in Seq(Octet) /\ Len(b) = n
  BY PrefixOfPrefix, LenProperties
<1>2. ASSUME n >= 4
      PROVE  SubSeq(b, 1, 4) = SubSeq(s, 1, 4) /\ Len(s) >= 4
  <2>1. 4 \in 0 .. n
    BY <1>1, <1>2
  <2> QED
    BY <1>1, <1>2, <2>1, PrefixOfPrefix
<1> HIDE DEF b
<1>3. ~BeginsWithMagic(b)
  BY <1>1, <1>2 DEF BeginsWithMagic
<1> QED
  BY <1>1, <1>3 DEF b

(* Containers begin with Magic.                                            *)
LEMMA ContainersHaveMagic ==
  ASSUME NEW f, NEW h \in StreamHeaders, NEW s \in Plain, FileIs(f, h, s),
         f.bytes \in Seq(Octet), f.form = "container"
  PROVE  BeginsWithMagic(f.bytes)
<1> DEFINE c == ContainerOf(h, s)
           b == f.bytes
<1>1. /\ c \in Seq(Octet) /\ Lies(Magic, 0, c) /\ Agree(b, c) /\ TotalLen(h, s) <= Len(b)
      /\ b \in Seq(Octet) /\ Len(b) \in Nat
  BY ContainerLies, LenProperties DEF FileIs
<1>2. Magic \in Seq(Octet) /\ Len(Magic) = 4
  BY DEF Magic, Octet
<1>3. 4 <= Len(b)
  <2> DEFINE l == Len(b)
             k == BlockLen(s)
             d == HeadLen(h)
             e == IF h.flags.checksum THEN 8 ELSE 0
  <2>1. d + k + 1 + e <= l /\ d \in Nat /\ d >= 8 /\ k \in Nat /\ e \in Nat /\ l \in Nat
    BY <1>1, LayoutTypes DEF TotalLen
  <2> HIDE DEF l, k, d, e
  <2>2. 4 <= l
    BY <2>1
  <2> QED
    BY <2>2 DEF l
<1> HIDE DEF b, c
<1>4. SubSeq(b, 1, 4) = Magic
  <2> DEFINE p == 0
  <2>1. p \in Nat /\ Lies(Magic, p, c) /\ p + Len(Magic) <= Len(b) /\ p + 1 = 1 /\ p + Len(Magic) = 4
    BY <1>1, <1>2, <1>3
  <2> HIDE DEF p
  <2>2. SubSeq(b, p + 1, p + Len(Magic)) = Magic
    BY <1>1, <1>2, <2>1, BytesAre
  <2> QED
    BY <2>1, <2>2
<1> QED
  BY <1>3, <1>4 DEF BeginsWithMagic, b

(* Flipped bits leave bytes.                                               *)
LEMMA FlippedType ==
  ASSUME NEW s \in Seq(Octet), NEW bits
  PROVE  Flipped(s, bits) \in Seq(Octet)
<1> DEFINE v(i) == LET b == BitsOf(s[i])
                   IN [k \in 1 .. 8 |-> IF 8 * (i - 1) + k \in bits THEN 1 - b[k] ELSE b[k]]
           n == Len(s)
<1>1. n \in Nat
  BY LenProperties
<1>2. ASSUME NEW i \in 1 .. n
      PROVE  ByteOf(v(i)) \in Octet
  <2> DEFINE b == BitsOf(s[i])
  <2>1. s[i] \in Octet
    BY <1>2, ElementOfSeq
  <2>2. b \in [1 .. 8 -> Bits]
    BY <2>1, BitsOfType
  <2> HIDE DEF b
  <2>3. ASSUME NEW k \in 1 .. 8
        PROVE  (IF 8 * (i - 1) + k \in bits THEN 1 - b[k] ELSE b[k]) \in Bits
    <3>1. b[k] \in Bits
      BY <2>2
    <3>2. \A x \in Bits : 1 - x \in Bits
      BY DEF Bits
    <3> QED
      BY <3>1, <3>2
  <2>4. v(i) = [k \in 1 .. 8 |-> IF 8 * (i - 1) + k \in bits THEN 1 - b[k] ELSE b[k]]
    BY DEF b
  <2>5. \A k \in 1 .. 8 : v(i)[k] \in Bits
    BY <2>3, <2>4
  <2> HIDE DEF v
  <2> QED
    BY <2>5, ByteOfType
<1>3. Flipped(s, bits) = [i \in 1 .. n |-> ByteOf(v(i))]
  BY DEF Flipped
<1> HIDE DEF v, n
<1>4. [i \in 1 .. n |-> ByteOf(v(i))] \in [1 .. n -> Octet]
  BY <1>2
<1>5. Flipped(s, bits) \in UNION {[1 .. k -> Octet] : k \in Nat}
  BY <1>1, <1>3, <1>4, Zenon
<1> QED
  BY <1>5, SeqDef

(* A damaged container is sound: what is cut, or longer, still agrees with *)
(* it.                                                                     *)
LEMMA DamagedSound ==
  ASSUME NEW f, FileSound(f), Whole(f), f.form = "container", NEW g \in Damages(f)
  PROVE  FileSound(g)
<1>1. PICK h \in StreamHeaders, s \in Plain : f = ContainerFile(h, s)
  BY DEF Whole
<1> DEFINE c == ContainerOf(h, s)
           T == [bytes : Seq(Octet), data : Seq(Octet), form : Forms, head : Nat]
           l == Len(c)
<1>2. /\ f \in T /\ f.bytes = c /\ f.data = s /\ c \in Seq(Octet) /\ l \in Nat /\ l = TotalLen(h, s)
      /\ f.head = HeadLen(h) /\ FileIs(f, h, s)
  <2>1. f \in T
    BY DEF FileSound
  <2>2. FileIs(f, h, s)
    BY <1>1, ContainerFileSound
  <2>3. c \in Seq(Octet) /\ l = TotalLen(h, s) /\ l \in Nat
    BY ContainerLies, LenProperties
  <2>4. f.bytes = c
    BY <1>1 DEF ContainerFile
  <2>5. f.data = s /\ f.head = HeadLen(h)
    BY <2>2 DEF FileIs
  <2> QED
    BY <2>1, <2>2, <2>3, <2>4, <2>5
<1>3. CASE \E n \in 0 .. Len(f.bytes) - 1 : g = [f EXCEPT !.bytes = SubSeq(@, 1, n), !.form = "cut"]
  <2>1. PICK n \in 0 .. l - 1 : g = [f EXCEPT !.bytes = SubSeq(@, 1, n), !.form = "cut"]
    BY <1>2, <1>3
  <2> DEFINE b == SubSeq(c, 1, n)
  <2>2. n \in 0 .. Len(c)
    BY <1>2
  <2>3. b \in Seq(Octet) /\ Len(b) = n /\ \A i \in 1 .. n : b[i] = c[i]
    BY <1>2, <2>2, PrefixOfPrefix, PrefixElements
  <2> HIDE DEF b
  <2>4. g \in T /\ g.bytes = b /\ g.data = s /\ g.head = HeadLen(h) /\ g.form = "cut"
    BY <1>2, <2>1, <2>3 DEF b, Forms
  <2>5. Agree(b, c)
    BY <2>3 DEF Agree
  <2>6. ~(TotalLen(h, s) <= Len(b))
    BY <1>2, <2>3
  <2>7. FileIs(g, h, s)
    BY <2>4, <2>5, <2>6 DEF FileIs
  <2> QED
    BY <2>4, <2>7 DEF FileSound
<1>4. CASE \E n \in {0, 23} : g = [f EXCEPT !.bytes = @ \o <<n>>]
  <2>1. PICK n \in {0, 23} : g = [f EXCEPT !.bytes = @ \o <<n>>]
    BY <1>4
  <2> DEFINE b == c \o <<n>>
             e == <<n>>
  <2>2. e \in Seq(Octet) /\ Len(e) = 1
    BY DEF Octet
  <2>3. b \in Seq(Octet) /\ Len(b) = l + 1 /\ Lies(c, 0, b)
    <3>1. b = c \o e
      OBVIOUS
    <3>2. c \in Seq(Octet)
      BY <1>2
    <3> HIDE DEF b, e, c
    <3>3. c \o e \in Seq(Octet) /\ Len(c \o e) = Len(c) + Len(e) /\ Lies(c, 0, c \o e)
      BY <2>2, <3>2, BothLie
    <3> QED
      BY <2>2, <3>1, <3>3
  <2> HIDE DEF b
  <2>4. g \in T /\ g.bytes = b /\ g.data = s /\ g.head = HeadLen(h) /\ g.form = "container"
    BY <1>2, <2>1, <2>3 DEF b
  <2>5. Agree(b, c)
    BY <1>2, <2>3 DEF Agree, Lies
  <2>6. TotalLen(h, s) <= Len(b)
    BY <1>2, <2>3
  <2>7. FileIs(g, h, s)
    BY <2>4, <2>5, <2>6 DEF FileIs
  <2> QED
    BY <2>4, <2>7 DEF FileSound
<1>5. CASE \E bits : \E w \in {"header", "body", "twice"} :
             g = [f EXCEPT !.bytes = Flipped(@, bits), !.form = w]
  <2>4. PICK bits : \E w \in {"header", "body", "twice"} :
                      g = [f EXCEPT !.bytes = Flipped(@, bits), !.form = w]
    BY <1>5, Zenon
  <2>1. PICK w \in {"header", "body", "twice"} :
          g = [f EXCEPT !.bytes = Flipped(@, bits), !.form = w]
    BY <2>4, Zenon
  <2>2. Flipped(c, bits) \in Seq(Octet)
    BY <1>2, FlippedType
  <2>3. g \in T /\ g.form = w
    BY <1>2, <2>1, <2>2 DEF Forms
  <2> QED
    BY <2>3 DEF FileSound
<1>6. \/ \E n \in 0 .. Len(f.bytes) - 1 : g = [f EXCEPT !.bytes = SubSeq(@, 1, n), !.form = "cut"]
      \/ \E n \in {0, 23} : g = [f EXCEPT !.bytes = @ \o <<n>>]
      \/ \E bits : \E w \in {"header", "body", "twice"} :
           g = [f EXCEPT !.bytes = Flipped(@, bits), !.form = w]
  <2>1. g \in Cuts(f) \/ g \in Longer(f) \/ g \in FlippedOnce(f) \/ g \in FlippedTwice(f)
    BY Zenon DEF Damages
  <2>2. CASE g \in FlippedOnce(f)
    <3>1. PICK i \in 1 .. 8 * Len(f.bytes) :
            g = [f EXCEPT !.bytes = Flipped(@, {i}), !.form = IF i <= 8 * f.head THEN "header" ELSE "body"]
      BY <2>2, Zenon DEF FlippedOnce
    <3> DEFINE w == IF i <= 8 * f.head THEN "header" ELSE "body"
    <3>2. w \in {"header", "body", "twice"} /\ g = [f EXCEPT !.bytes = Flipped(@, {i}), !.form = w]
      BY <3>1, Zenon
    <3> HIDE DEF w
    <3> QED
      BY <3>2, Zenon
  <2>3. CASE g \in FlippedTwice(f)
    <3> DEFINE Pairs == {{i, j} : i, j \in 1 .. 8 * f.head}
    <3>1. FlippedTwice(f) = {[f EXCEPT !.bytes = Flipped(@, bits), !.form = "twice"] : bits \in Pairs}
      BY DEF FlippedTwice
    <3> HIDE DEF Pairs
    <3>2. PICK bits \in Pairs : g = [f EXCEPT !.bytes = Flipped(@, bits), !.form = "twice"]
      BY <2>3, <3>1, Zenon
    <3> QED
      BY <3>2, Zenon
  <2>4. CASE g \in Cuts(f)
    BY <2>4, Zenon DEF Cuts
  <2>5. CASE g \in Longer(f)
    BY <2>5, Zenon DEF Longer
  <2> QED
    BY <2>1, <2>2, <2>3, <2>4, <2>5, Zenon
<1> QED
  BY <1>3, <1>4, <1>5, <1>6

(* What a command is given.                                                *)
LEMMA DataIs ==
  ASSUME FrontInv, fpc = "load", CanOpen
  PROVE  /\ cmd \in Commands /\ cmd.input \in DOMAIN before /\ Data = Given.bytes
         /\ FileSound(Given) /\ Data \in Seq(Octet)
<1>1. cmd \in Commands /\ files = before /\ FilesSound(before)
  BY DEF FrontInv, FrontTyped, Kept
<1>2. cmd.input \in DOMAIN before /\ Data = Given.bytes
  BY <1>1 DEF CanOpen, Data, Given
<1>3. FileSound(Given)
  BY <1>1, <1>2 DEF FilesSound, Given
<1> QED
  BY <1>1, <1>2, <1>3 DEF FileSound

(* A reader that starts is typed,                                          *)
LEMMA PreparedTyped ==
  ASSUME NEW x \in Seq(Octet), NEW how \in {"decode", "inspect"}, NEW max \in Nat,
         NEW next \in {"magic", "idle"}, Prepare(x, how, max, next)
  PROVE  ReaderTyped'
<1>1. <<>> \in Seq(Octet)
  BY EmptySeq
<1>2. NoBlock \in Blocks
  BY <1>1 DEF NoBlock, Blocks
<1>3. next \in Stages /\ next \notin {"csize", "extended", "usize"}
  BY DEF Stages, HeaderStages
<1> QED
  BY <1>1, <1>2, <1>3 DEF Prepare, ReaderTyped

(* its limit is a number,                                                  *)
LEMMA LimitType ==
  ASSUME cmd \in Commands
  PROVE  Limit \in Nat
BY FrontEndsAssumption DEF Limit

(* and the types last.                                                     *)
LEMMA ReaderStaysTyped ==
  ASSUME FrontInv, FrontNext
  PROVE  ReaderTyped'
<1>1. ReaderTyped
  BY DEF FrontInv
<1>2. ASSUME UNCHANGED readerVars
      PROVE  ReaderTyped'
  BY <1>1, <1>2 DEF readerVars, ReaderTyped
<1>3. CASE Damage \/ Invoke
  <2>1. Prepare(<<>>, "decode", 0, "idle")
    BY <1>3 DEF Damage, Invoke, Forget
  <2>2. <<>> \in Seq(Octet) /\ 0 \in Nat /\ "decode" \in {"decode", "inspect"} /\ "idle" \in {"magic", "idle"}
    BY EmptySeq
  <2> QED
    BY <2>1, <2>2, PreparedTyped
<1>4. CASE Decompress
  <2>1. Prepare(Data, "decode", Limit, "magic")
    BY <1>4 DEF Decompress, Start
  <2>2. Data \in Seq(Octet) /\ Limit \in Nat
    BY <1>4, DataIs, LimitType DEF Decompress
  <2>3. "decode" \in {"decode", "inspect"} /\ "magic" \in {"magic", "idle"}
    OBVIOUS
  <2> QED
    BY <2>1, <2>2, <2>3, PreparedTyped
<1>5. CASE Inspect
  <2>1. Prepare(Data, "inspect", 0, "magic")
    BY <1>5 DEF Inspect, Start
  <2>2. Data \in Seq(Octet) /\ 0 \in Nat
    BY <1>5, DataIs DEF Inspect
  <2>3. "inspect" \in {"decode", "inspect"} /\ "magic" \in {"magic", "idle"}
    OBVIOUS
  <2> QED
    BY <2>1, <2>2, <2>3, PreparedTyped
<1>6. CASE ReadOn
  BY <1>1, <1>6, ReadStepTyped DEF ReadOn
<1>7. CASE CannotRead \/ Compress \/ ReadEnds \/ CompressImage \/ WriteStdout \/ WriteFile
            \/ HandOut \/ Copy \/ Release \/ Rest
  <2>1. UNCHANGED readerVars
    BY <1>7 DEF CannotRead, Compress, ReadEnds, CompressImage, WriteStdout, WriteFile, HandOut, Copy,
                Release, Rest, allVars
  <2> QED
    BY <1>2, <2>1
<1> QED
  BY <1>3, <1>4, <1>5, <1>6, <1>7 DEF FrontNext

(* What does not begin with Magic is refused.                              *)
LEMMA OthersAreRefused ==
  ASSUME ReaderTyped, ReadStep, rpc = "magic", at = 0, ~BeginsWithMagic(input)
  PROVE  rpc' = "idle" /\ outcome' # "ok"
<1>1. CASE Eof
  BY <1>1 DEF Eof, End, EofOutcome
<1>2. CASE ReadMagic
  <2>1. Len(input) \in Nat /\ Needs = 4
    BY LenProperties DEF ReaderTyped, Needs
  <2>2. Len(input) >= 4 /\ Bytes = SubSeq(input, 1, 4)
    BY <1>2, <2>1 DEF ReadMagic, Reading, Bytes
  <2>3. Bytes # Magic
    BY <2>2 DEF BeginsWithMagic
  <2> QED
    BY <1>2, <2>3 DEF ReadMagic, End
<1> QED
  BY <1>1, <1>2 DEF ReadStep, Reading, ReadVersion, ReadFlags, ReadExponent, ReadSizeByte,
     ReadDictionary, ReadCrc, ReadBlockByte, ReadCompressedSize, ReadExtendedSize,
     ReadUncompressedSize, ReadBlockCrc, ReadPayload, ReadDigest

(* A reader that starts with what is given.                                *)
LEMMA ReaderStarts ==
  ASSUME NEW h \in StreamHeaders, NEW s \in Plain, NEW x \in Seq(Octet), NEW how, NEW max,
         Prepare(x, how, max, "magic")
  PROVE  ReaderAt(h, s)'
<1>1. rpc' \in HeaderStages
  BY DEF Prepare, HeaderStages
<1>2. InHeader(h)'
  BY DEF Prepare, InHeader, Fields
<1>3. at' <= Len(input') /\ out' = <<>>
  BY LenProperties DEF Prepare
<1> QED
  BY <1>1, <1>2, <1>3, StaysInHeader

(* All that the steps behind a reader and before one have in common.       *)
LEMMA ReaderRests ==
  ASSUME FrontInv, UNCHANGED readerVars, UNCHANGED cmdVars, fpc' \notin {"idle", "load", "read"},
         rpc = "idle", fpc \notin {"idle"}
  PROVE  ReaderFollows'
<1>1. ReaderFollows /\ UNCHANGED <<input, at, mode, limit, rpc, covered, flags, groups, block, out, outcome>>
                    /\ UNCHANGED <<before, cmd>>
  BY DEF FrontInv, readerVars, cmdVars
<1>2. UNCHANGED Given
  BY <1>1 DEF Given
<1>3. \A h, s : ReaderAt(h, s)' <=> ReaderAt(h, s)
  BY <1>1 DEF ReaderAt, InHeader, InBlock, Ended, FieldsRead, AtBlock, BehindBlock, EndsInHeader, FieldAt
<1>4. \A h, s : FileIs(Given, h, s)' <=> FileIs(Given, h, s)
  BY <1>2 DEF FileIs
<1> QED
  BY <1>1, <1>2, <1>3, <1>4 DEF ReaderFollows

(* A reader begins with what the command was given,                        *)
LEMMA ReaderBegins ==
  ASSUME FrontInv, Decompress \/ Inspect
  PROVE  ReaderFollows'
<1> DEFINE how == IF cmd.verb = "inspect" THEN "inspect" ELSE "decode"
           max == IF cmd.verb = "inspect" THEN 0 ELSE Limit
<1>1. fpc = "load" /\ CanOpen /\ fpc' = "read" /\ UNCHANGED cmdVars /\ cmd.verb \in {"decompress", "inspect"}
  BY DEF Decompress, Inspect
<1>2. Prepare(Data, how, max, "magic")
  BY DEF Decompress, Inspect, Start
<1>3. /\ cmd.input \in DOMAIN before /\ Data = Given.bytes /\ Data \in Seq(Octet)
  BY <1>1, DataIs
<1>4. UNCHANGED <<before, cmd, Given>>
  BY <1>1 DEF cmdVars, Given
<1> HIDE DEF max
<1>5. /\ input' = Data /\ mode' = how /\ rpc' = "magic" /\ at' = 0 /\ outcome' = "none"
  BY <1>2 DEF Prepare
<1>6. \A h \in StreamHeaders, s \in Plain : ReaderAt(h, s)'
  <2> SUFFICES ASSUME NEW h \in StreamHeaders, NEW s \in Plain
               PROVE  ReaderAt(h, s)'
    OBVIOUS
  <2> HIDE DEF how
  <2> QED
    BY <1>2, <1>3, ReaderStarts
<1>7. /\ (fpc # "read" => rpc = "idle")'
      /\ (fpc \in {"idle", "load"} => outcome = "none")'
  BY <1>1
<1>8. (/\ cmd.verb \in {"decompress", "inspect"} /\ cmd.input \in DOMAIN before
       /\ input = Given.bytes
       /\ mode = IF cmd.verb = "inspect" THEN "inspect" ELSE "decode")'
  BY <1>1, <1>3, <1>4, <1>5
<1>9. (Given.form \in {"plain", "torn"} =>
         rpc \in {"magic", "idle"} /\ (rpc = "magic" => at = 0) /\ outcome # "ok")'
  BY <1>5
<1>10. (Given.form \in {"container", "cut"} =>
          \A h \in StreamHeaders, s \in Plain : FileIs(Given, h, s) => ReaderAt(h, s))'
  BY <1>6
<1> HIDE DEF how
<1> QED
  BY <1>7, <1>8, <1>9, <1>10 DEF ReaderFollows

(* goes on in it,                                                          *)
LEMMA ReaderReads ==
  ASSUME FrontInv, ReadOn
  PROVE  ReaderFollows'
<1>1. /\ fpc = "read" /\ ReadStep /\ UNCHANGED <<fpc, before, cmd>> /\ ReaderTyped /\ ReaderFollows
  BY DEF ReadOn, frontVars, FrontInv
<1>2. Untouched
  BY <1>1, ReadStepTyped
<1>3. UNCHANGED <<input, mode, Given>>
  BY <1>1, <1>2 DEF Untouched, Given
<1>4. cmd \in Commands /\ FilesSound(before) /\ cmd.input \in DOMAIN before /\ input = Given.bytes
  BY <1>1 DEF FrontInv, FrontTyped, Kept, ReaderFollows
<1>5. FileSound(Given)
  BY <1>4 DEF FilesSound, Given
<1>6. ASSUME Given.form \in {"plain", "torn"}
      PROVE  rpc' = "idle" /\ outcome' # "ok"
  <2>1. ~BeginsWithMagic(input)
    BY <1>4, <1>5, <1>6 DEF FileSound
  <2>2. rpc # "idle"
    BY <1>1 DEF ReadStep, Eof, Reading, ReadMagic, ReadVersion, ReadFlags, ReadExponent, ReadSizeByte,
     ReadDictionary, ReadCrc, ReadBlockByte, ReadCompressedSize, ReadExtendedSize,
     ReadUncompressedSize, ReadBlockCrc, ReadPayload, ReadDigest
  <2>3. rpc = "magic" /\ at = 0
    BY <1>1, <1>6, <2>2 DEF ReaderFollows
  <2> QED
    BY <1>1, <2>1, <2>3, OthersAreRefused
<1>7. ASSUME Given.form \in {"container", "cut"}, NEW h \in StreamHeaders, NEW s \in Plain,
             FileIs(Given, h, s)
      PROVE  ReaderAt(h, s)'
  <2>1. ReaderAt(h, s)
    BY <1>1, <1>7 DEF ReaderFollows
  <2>2. Agree(input, ContainerOf(h, s))
    BY <1>4, <1>7 DEF FileIs
  <2>3. Reader(h, s)
    BY <1>1, <2>1, <2>2 DEF Reader
  <2> QED
    BY <1>1, <2>3, ReaderGoesOn
<1>8. /\ (fpc # "read" => rpc = "idle")'
      /\ (fpc \in {"idle", "load"} => outcome = "none")'
  BY <1>1
<1>9. (/\ cmd.verb \in {"decompress", "inspect"} /\ cmd.input \in DOMAIN before
       /\ input = Given.bytes
       /\ mode = IF cmd.verb = "inspect" THEN "inspect" ELSE "decode")'
  BY <1>1, <1>3 DEF ReaderFollows
<1>10. (Given.form \in {"plain", "torn"} =>
         rpc \in {"magic", "idle"} /\ (rpc = "magic" => at = 0) /\ outcome # "ok")'
  BY <1>3, <1>6
<1>11. (Given.form \in {"container", "cut"} =>
          \A h \in StreamHeaders, s \in Plain : FileIs(Given, h, s) => ReaderAt(h, s))'
  <2>1. \A h, s : FileIs(Given, h, s)' <=> FileIs(Given, h, s)
    BY <1>3 DEF FileIs
  <2> QED
    BY <1>3, <1>7, <2>1
<1> QED
  BY <1>8, <1>9, <1>10, <1>11 DEF ReaderFollows

(* and rests when it has ended.                                            *)
LEMMA ReaderFollowsOn ==
  ASSUME FrontInv, FrontNext
  PROVE  ReaderFollows'
<1>1. ReaderFollows
  BY DEF FrontInv
<1>2. CASE Damage \/ Invoke
  <2>1. rpc' = "idle" /\ outcome' = "none" /\ fpc' # "read"
    BY <1>2 DEF Damage, Invoke, Forget, Prepare
  <2> QED
    BY <2>1 DEF ReaderFollows
<1>3. CASE Decompress \/ Inspect
  BY <1>3, ReaderBegins
<1>4. CASE ReadOn
  BY <1>4, ReaderReads
<1>5. CASE CannotRead \/ Compress \/ ReadEnds \/ CompressImage \/ WriteStdout \/ WriteFile
            \/ HandOut \/ Copy \/ Release
  <2>1. /\ UNCHANGED readerVars /\ UNCHANGED cmdVars /\ fpc' \notin {"idle", "load", "read"}
        /\ fpc # "idle"
        /\ fpc = "read" => rpc = "idle"
    BY <1>5 DEF CannotRead, Compress, ReadEnds, CompressImage, WriteStdout, WriteFile, HandOut, Copy,
                Release, Finish
  <2>2. rpc = "idle"
    BY <1>1, <2>1 DEF ReaderFollows
  <2> QED
    BY <2>1, <2>2, ReaderRests
<1>6. CASE Rest
  <2>1. fpc = "done" /\ UNCHANGED readerVars /\ UNCHANGED cmdVars /\ fpc' = fpc
    BY <1>6 DEF Rest, allVars, frontVars, cmdVars
  <2>2. rpc = "idle"
    BY <1>1, <2>1 DEF ReaderFollows
  <2> QED
    BY <2>1, <2>2, ReaderRests
<1> QED
  BY <1>2, <1>3, <1>4, <1>5, <1>6 DEF FrontNext

(* The numbers of a state.                                                 *)
LEMMA TypesOfStep ==
  ASSUME FrontInv
  PROVE  /\ calls \in Nat /\ MaxCalls \in Nat /\ calls <= MaxCalls
         /\ computed \in Seq(Octet) /\ Len(computed) \in Nat
         /\ computed # <<>> => Len(computed) # 0
<1>1. calls \in 0 .. MaxCalls /\ computed \in Seq(Octet) /\ MaxCalls \in Nat
  BY FrontEndsAssumption DEF FrontInv, FrontTyped
<1> QED
  BY <1>1, LenProperties, EmptySeq

(* The heap: the step that hands a buffer out, and those that free it.     *)
LEMMA HeapStays ==
  ASSUME FrontInv, FrontNext
  PROVE  HeapSound'
<1>1. HeapSound /\ calls \in Nat /\ MaxCalls \in Nat /\ calls <= MaxCalls
  BY TypesOfStep DEF FrontInv
<1>2. Buffer.at = calls /\ Buffer.size = Len(computed)
  BY DEF Buffer
<1>3. CASE Damage
  <2>1. fpc' = "idle" /\ UNCHANGED <<calls, heap, wild>>
    BY <1>3 DEF Damage
  <2> QED
    BY <1>1, <2>1 DEF HeapSound
<1>4. CASE Invoke
  <2>1. /\ fpc' = "load" /\ UNCHANGED <<heap, wild>> /\ calls < MaxCalls
        /\ calls' = MaxCalls \/ calls' = calls + 1
    BY <1>4 DEF Invoke
  <2>2. \A b \in heap : b.at \in 0 .. calls' /\ b.at < calls'
    BY <1>1, <2>1 DEF HeapSound
  <2> QED
    BY <1>1, <2>1, <2>2 DEF HeapSound
<1>5. CASE CannotRead \/ Compress \/ Decompress \/ Inspect \/ ReadOn \/ ReadEnds \/ CompressImage
            \/ WriteStdout \/ WriteFile
  <2>1. /\ UNCHANGED <<calls, heap, wild>> /\ fpc \in {"load", "read", "deliver"}
        /\ fpc' \in {"read", "deliver", "done"}
    BY <1>5 DEF CannotRead, Compress, Decompress, Inspect, ReadOn, ReadEnds, CompressImage,
                WriteStdout, WriteFile, Finish, cmdVars, heapVars, frontVars
  <2>2. Buffer'.at = calls
    BY <2>1 DEF Buffer
  <2>3. \A b \in heap : b.at < calls
    BY <1>1, <2>1 DEF HeapSound
  <2>4. Buffer' \notin heap
    BY <1>1, <2>2, <2>3
  <2> QED
    BY <1>1, <2>1, <2>3, <2>4 DEF HeapSound
<1>6. CASE HandOut
  <2>1. /\ fpc = "deliver" /\ fpc' = "copy" /\ UNCHANGED <<calls, computed, wild>>
        /\ heap' = IF computed = <<>> THEN heap ELSE heap \cup {Buffer}
    BY <1>6 DEF HandOut, cmdVars
  <2>2. Buffer' = Buffer
    BY <2>1 DEF Buffer
  <2>3. ~wild /\ \A b \in heap : b.at \in 0 .. calls /\ b.at < calls
    BY <1>1, <2>1 DEF HeapSound
  <2>4. \A b \in heap' : b.at \in 0 .. calls /\ (b.at = calls => b = Buffer /\ computed # <<>>)
    BY <1>1, <1>2, <2>1, <2>3
  <2>5. computed # <<>> => Buffer \in heap'
    BY <2>1
  <2> QED
    BY <2>1, <2>2, <2>3, <2>4, <2>5 DEF HeapSound
<1>7. CASE Copy
  <2>1. /\ fpc = "copy" /\ UNCHANGED <<calls, computed, heap, wild, cmd>>
        /\ fpc' \in {"free", "done"}
        /\ fpc' = "done" => cmd.who = "node" /\ code' = Raised
    BY <1>7 DEF Copy, cmdVars, heapVars
  <2>2. Buffer' = Buffer
    BY <2>1 DEF Buffer
  <2> QED
    BY <1>1, <2>1, <2>2 DEF HeapSound
<1>8. CASE Release
  <2>1. fpc = "free" /\ fpc' = "done" /\ Free(Buffer) /\ UNCHANGED <<calls, computed, cmd>>
    BY <1>8 DEF Release, cmdVars
  <2>2. Buffer' = Buffer
    BY <2>1 DEF Buffer
  <2>3. /\ ~wild /\ \A b \in heap : b.at \in 0 .. calls
        /\ computed # <<>> => Buffer \in heap
        /\ \A b \in heap : b.at = calls => b = Buffer /\ computed # <<>>
    BY <1>1, <2>1 DEF HeapSound
  <2>4. ~wild' /\ heap' \subseteq heap /\ Buffer \notin heap'
    <3>1. CASE Buffer.size = 0
      <4>1. computed = <<>> /\ heap' = heap /\ wild' = wild
        BY <1>2, <2>1, <3>1, TypesOfStep DEF Free, heapVars
      <4> QED
        BY <1>2, <2>3, <4>1
    <3>2. CASE Buffer.size # 0
      <4>1. heap' = heap \ {Buffer} /\ wild' = (wild \/ Buffer \notin heap)
        BY <2>1, <3>2 DEF Free
      <4>2. computed # <<>>
        BY <1>2, <3>2, EmptySeq
      <4> QED
        BY <2>3, <4>1, <4>2
    <3> QED
      BY <3>1, <3>2
  <2> QED
    BY <2>1, <2>2, <2>3, <2>4 DEF HeapSound
<1>9. CASE Rest
  <2>1. UNCHANGED <<calls, computed, heap, wild, cmd, fpc, code>>
    BY <1>9 DEF Rest, allVars, frontVars
  <2>2. Buffer' = Buffer
    BY <2>1 DEF Buffer
  <2> QED
    BY <1>1, <2>1, <2>2 DEF HeapSound
<1> QED
  BY <1>3, <1>4, <1>5, <1>6, <1>7, <1>8, <1>9 DEF FrontNext

(* The code is that of the outcome, unless there is none.                  *)
LEMMA EndsStayWell ==
  ASSUME FrontInv, FrontNext
  PROVE  EndsWell'
<1>1. EndsWell /\ ComputedIs /\ ReaderFollows
  BY DEF FrontInv
<1>2. CASE Damage \/ Invoke \/ Decompress \/ Inspect \/ Compress \/ HandOut \/ ReadOn
  <2>1. fpc' # "done"
    BY <1>2 DEF Damage, Invoke, Decompress, Inspect, Compress, HandOut, ReadOn, frontVars
  <2> QED
    BY <2>1 DEF EndsWell
<1>3. CASE ReadEnds
  <2>1. /\ UNCHANGED <<outcome, cmd>>
        /\ outcome # "ok" =>
             code' = IF cmd.who = "cli" THEN ExitCode(outcome) ELSE ReturnCode(outcome)
        /\ outcome = "ok" /\ cmd.verb = "inspect" => code' = 0
    BY <1>3 DEF ReadEnds, readerVars, cmdVars, Finish
  <2>2. ExitCode(outcome)' = ExitCode(outcome) /\ ReturnCode(outcome)' = ReturnCode(outcome)
    BY <2>1 DEF ExitCode, ReturnCode
  <2> QED
    BY <2>1, <2>2 DEF EndsWell
<1>4. CASE CannotRead \/ CompressImage \/ WriteStdout \/ WriteFile \/ Copy \/ Release
  <2>1. UNCHANGED <<outcome, cmd>> /\ fpc \in {"load"} \cup Running
        /\ (fpc = "load" => CannotRead \/ CompressImage)
    BY <1>4 DEF CannotRead, CompressImage, WriteStdout, WriteFile, Copy, Release, readerVars, cmdVars,
                Running
  <2>2. outcome = "none" \/ (outcome = "ok" /\ cmd.verb # "inspect")
    BY <1>1, <2>1 DEF ComputedIs, ReaderFollows, Running
  <2> QED
    BY <2>1, <2>2 DEF EndsWell
<1>5. CASE Rest
  <2>1. UNCHANGED <<outcome, cmd, fpc, code>>
    BY <1>5 DEF Rest, allVars, frontVars, readerVars
  <2>2. ExitCode(outcome)' = ExitCode(outcome) /\ ReturnCode(outcome)' = ReturnCode(outcome)
    BY <2>1 DEF ExitCode, ReturnCode
  <2> QED
    BY <1>1, <2>1, <2>2 DEF EndsWell
<1> QED
  BY <1>2, <1>3, <1>4, <1>5 DEF FrontNext

(* What compress computes.                                                 *)
LEMMA CompressIs ==
  ASSUME FrontInv, Compress
  PROVE  /\ Given.bytes \in Plain /\ cmd.input \in DOMAIN before
         /\ computed' = ContainerOf(KnownSize(Given.bytes), Given.bytes)
         /\ computed' \in Seq(Octet)
<1>1. fpc = "load" /\ cmd.verb = "compress" /\ CanOpen /\ computed' = ContainerOf(KnownSize(Data), Data)
  BY DEF Compress
<1>2. cmd.input \in DOMAIN before /\ Data = Given.bytes
  BY <1>1, DataIs
<1>3. Given.bytes \in Plain
  BY <1>1, <1>2 DEF FrontInv, ComputedIs
<1>4. KnownSize(Given.bytes) \in StreamHeaders
  BY <1>3, KnownSizeType
<1>5. ContainerOf(KnownSize(Given.bytes), Given.bytes) \in Seq(Octet)
  BY <1>3, <1>4, ContainerLies
<1> QED
  BY <1>1, <1>2, <1>3, <1>5

(* What is written has one of the names.                                   *)
LEMMA TargetType ==
  ASSUME cmd \in Commands, WriteFile \/ cmd.output \in Names
  PROVE  Target \in Names
<1>1. cmd.output \in {"default", "stdout"} \cup Names
  BY FrontEndsAssumption
<1>2. cmd.output # "stdout" \/ cmd.output \in Names
  BY DEF WriteFile, ToStdout
<1> QED
  BY <1>1, <1>2 DEF Target, DefaultName, Names

(* The types last.                                                         *)
LEMMA FrontStaysTyped ==
  ASSUME FrontInv, FrontNext
  PROVE  FrontTyped'
<1>1. /\ FrontTyped /\ calls \in Nat /\ MaxCalls \in Nat /\ calls <= MaxCalls
      /\ out \in Seq(Octet)
  BY TypesOfStep DEF FrontInv, ReaderTyped
<1>2. /\ calls \in 0 .. MaxCalls
      /\ fpc # "idle" => cmd \in Commands
      /\ computed \in Seq(Octet) /\ DOMAIN files \subseteq Names
  BY <1>1 DEF FrontTyped
<1>3. CASE Damage
  <2>1. fpc' = "idle" /\ calls' = calls /\ computed' = <<>> /\ DOMAIN files' = DOMAIN files
    BY <1>3 DEF Damage
  <2>2. <<>> \in Seq(Octet)
    BY EmptySeq
  <2> QED
    BY <1>2, <2>1, <2>2 DEF FrontTyped
<1>4. CASE Invoke
  <2>1. /\ fpc' = "load" /\ calls' \in 0 .. MaxCalls /\ computed' = <<>> /\ files' = files /\ cmd' \in Commands
    BY <1>1, <1>4 DEF Invoke
  <2>2. <<>> \in Seq(Octet)
    BY EmptySeq
  <2> QED
    BY <1>2, <2>1, <2>2 DEF FrontTyped
<1>5. CASE Compress
  <2>1. UNCHANGED <<calls, cmd, files>> /\ fpc' = "deliver" /\ fpc # "idle"
    BY <1>5 DEF Compress, cmdVars
  <2>2. computed' \in Seq(Octet)
    BY <1>5, CompressIs
  <2> QED
    BY <1>2, <2>1, <2>2 DEF FrontTyped
<1>6. CASE CannotRead \/ Decompress \/ Inspect \/ WriteStdout \/ HandOut \/ Copy
  <2>1. UNCHANGED <<calls, cmd, files, computed>> /\ fpc' \in {"done", "read", "copy", "free"} /\ fpc # "idle"
    BY <1>6 DEF CannotRead, Decompress, Inspect, WriteStdout, HandOut, Copy, cmdVars, Finish
  <2> QED
    BY <1>2, <2>1 DEF FrontTyped
<1>7. CASE ReadEnds \/ CompressImage
  <2>1. /\ UNCHANGED <<calls, cmd, files>> /\ fpc' \in {"done", "deliver"} /\ fpc # "idle"
        /\ computed' \in {computed, out, Picture}
    BY <1>7 DEF ReadEnds, CompressImage, cmdVars, Finish
  <2>2. Picture \in Seq(Octet)
    BY FrontEndsAssumption
  <2> QED
    BY <1>1, <1>2, <2>1, <2>2 DEF FrontTyped
<1>8. CASE WriteFile \/ Release
  <2>1. UNCHANGED <<calls, cmd, computed>> /\ fpc' = "done" /\ fpc # "idle"
    BY <1>8 DEF WriteFile, Release, cmdVars, Finish
  <2>2. /\ DOMAIN files' = DOMAIN files \/ DOMAIN files' = DOMAIN files \cup {Target}
        /\ DOMAIN files' # DOMAIN files => WriteFile \/ cmd.output \in Names
    BY <1>8 DEF WriteFile, Release, Store
  <2>3. DOMAIN files' \subseteq Names
    BY <1>2, <2>1, <2>2, TargetType
  <2> QED
    BY <1>2, <2>1, <2>3 DEF FrontTyped
<1>9. CASE ReadOn \/ Rest
  <2>1. UNCHANGED <<calls, cmd, files, computed, fpc>>
    BY <1>9 DEF ReadOn, Rest, allVars, frontVars
  <2> QED
    BY <1>1, <2>1 DEF FrontTyped
<1> QED
  BY <1>3, <1>4, <1>5, <1>6, <1>7, <1>8, <1>9 DEF FrontNext

(* What is computed lasts until it is delivered.                           *)
LEMMA ComputedStays ==
  ASSUME FrontInv, FrontNext
  PROVE  ComputedIs'
<1>1. ComputedIs /\ ReaderFollows
  BY DEF FrontInv
<1>2. CASE Damage
  <2>1. fpc' = "idle" /\ outcome' = "none"
    BY <1>2 DEF Damage, Forget, Prepare
  <2> QED
    BY <2>1 DEF ComputedIs, Running
<1>3. CASE Invoke
  <2>1. /\ fpc' = "load" /\ outcome' = "none" /\ before' = files
        /\ (cmd'.verb = "compress" /\ cmd'.input \in DOMAIN files) => files[cmd'.input].bytes \in Plain
    BY <1>3 DEF Invoke, Forget, Prepare
  <2>2. Given' = files[cmd'.input]
    BY <2>1 DEF Given
  <2> QED
    BY <2>1, <2>2 DEF ComputedIs, Running
<1> DEFINE WasPlain ==
             cmd.verb = "compress" /\ fpc \in Running \cup {"load"} /\ cmd.input \in DOMAIN before =>
               Given.bytes \in Plain
           WasComputed ==
             fpc \in Running =>
               /\ cmd.input \in DOMAIN before
               /\ cmd.verb = "compress" => computed = ContainerOf(KnownSize(Given.bytes), Given.bytes)
               /\ cmd.verb = "image" => computed = Picture
               /\ cmd.verb = "decompress" => outcome = "ok" /\ computed = out
               /\ cmd.verb # "inspect"
           WasNone == cmd.verb \notin {"decompress", "inspect"} => outcome = "none"
<1>4. WasPlain /\ WasComputed /\ WasNone
  BY DEF FrontInv, ComputedIs
<1>5. ASSUME UNCHANGED <<before, cmd, outcome>>
      PROVE  Given' = Given /\ WasNone'
  BY <1>4, <1>5 DEF Given
<1>6. CASE Compress
  <2>1. UNCHANGED <<before, cmd, outcome>> /\ fpc' = "deliver" /\ fpc = "load" /\ cmd.verb = "compress"
    BY <1>6 DEF Compress, cmdVars, readerVars
  <2>2. /\ Given.bytes \in Plain /\ cmd.input \in DOMAIN before
        /\ computed' = ContainerOf(KnownSize(Given.bytes), Given.bytes)
    BY <1>6, CompressIs
  <2>3. WasPlain' /\ WasComputed'
    BY <1>5, <2>1, <2>2
  <2> QED
    BY <1>5, <2>1, <2>3 DEF ComputedIs
<1>7. CASE ReadEnds \/ CompressImage
  <2>1. UNCHANGED <<before, cmd, outcome, out>> /\ fpc \in {"load", "read"}
    BY <1>7 DEF ReadEnds, CompressImage, cmdVars, readerVars
  <2>2. CASE fpc' \notin Running
    <3>1. fpc' = "done"
      BY <1>7, <2>2 DEF ReadEnds, CompressImage, Finish, Running
    <3> QED
      BY <1>5, <2>1, <2>2, <3>1 DEF ComputedIs
  <2>3. CASE fpc' \in Running
    <3>1. CASE ReadEnds
      <4>1. outcome = "ok" /\ computed' = out /\ cmd.verb # "inspect" /\ fpc = "read"
        BY <2>3, <3>1 DEF ReadEnds, Finish, Running
      <4>2. cmd.verb = "decompress" /\ cmd.input \in DOMAIN before
        BY <1>1, <4>1 DEF FrontInv, ReaderFollows
      <4> QED
        BY <1>5, <2>1, <4>1, <4>2 DEF ComputedIs
    <3>2. CASE CompressImage
      <4>1. fpc = "load" /\ cmd.verb = "image" /\ CanOpen /\ computed' = Picture
        BY <2>3, <3>2 DEF CompressImage, Finish, Running
      <4>2. cmd.input \in DOMAIN before
        BY <4>1, DataIs
      <4> QED
        BY <1>5, <2>1, <4>1, <4>2 DEF ComputedIs
    <3> QED
      BY <1>7, <3>1, <3>2
  <2> QED
    BY <2>2, <2>3
<1>8. CASE HandOut \/ Copy
  <2>1. UNCHANGED <<before, cmd, outcome, out, computed>> /\ fpc \in Running /\ fpc' \in Running \cup {"done"}
    BY <1>8 DEF HandOut, Copy, cmdVars, readerVars, Running
  <2>2. WasPlain' /\ WasComputed'
    BY <1>4, <1>5, <2>1 DEF Running
  <2> QED
    BY <1>5, <2>1, <2>2 DEF ComputedIs
<1>9. CASE CannotRead \/ Decompress \/ Inspect \/ ReadOn \/ WriteStdout \/ WriteFile \/ Release \/ Rest
  <2>1. /\ fpc' \in {"read", "done"} /\ UNCHANGED <<before, cmd>>
        /\ cmd.verb \notin {"decompress", "inspect"} => UNCHANGED outcome
    <3>1. CASE Decompress \/ Inspect
      BY <3>1 DEF Decompress, Inspect, cmdVars
    <3>2. CASE ReadOn
      <4>1. fpc = "read" /\ UNCHANGED <<before, cmd, fpc>>
        BY <3>2 DEF ReadOn, frontVars
      <4>2. cmd.verb \in {"decompress", "inspect"}
        BY <4>1 DEF FrontInv, ReaderFollows
      <4> QED
        BY <4>1, <4>2
    <3>3. CASE CannotRead \/ WriteStdout \/ WriteFile \/ Release \/ Rest
      BY <3>3 DEF CannotRead, WriteStdout, WriteFile, Release, Rest, Finish, cmdVars, readerVars,
                  allVars, frontVars
    <3> QED
      BY <1>9, <3>1, <3>2, <3>3
  <2>2. WasNone'
    BY <1>4, <2>1
  <2> QED
    BY <2>1, <2>2 DEF ComputedIs, Running
<1> QED
  BY <1>2, <1>3, <1>6, <1>7, <1>8, <1>9 DEF FrontNext

(* What a reader of a container, whole or cut, has come to.                *)
LEMMA ReadingHasEnded ==
  ASSUME FrontInv, fpc # "read", outcome # "none", Given.form \in {"container", "cut"}
  PROVE  /\ input = Given.bytes /\ Given.bytes \in Seq(Octet)
         /\ \E h \in StreamHeaders, s \in Plain : FileIs(Given, h, s) /\ rpc = "idle" /\ Ended(h, s)
<1>1. FilesSound(before) /\ cmd.input \in DOMAIN before /\ input = Given.bytes /\ rpc = "idle"
  BY DEF FrontInv, Kept, ReaderFollows
<1>2. FileSound(Given)
  BY <1>1 DEF FilesSound, Given
<1>3. PICK h \in StreamHeaders, s \in Plain : FileIs(Given, h, s)
  BY <1>2 DEF FileSound
<1>4. ReaderAt(h, s)
  BY <1>3 DEF FrontInv, ReaderFollows
<1>5. Given.bytes \in Seq(Octet)
  BY <1>2 DEF FileSound
<1> QED
  BY <1>1, <1>3, <1>4, <1>5 DEF ReaderAt

(* What decompress decodes is the data of a whole container.               *)
LEMMA DecodedIs ==
  ASSUME FrontInv, fpc # "read", outcome = "ok", cmd.verb = "decompress",
         Given.form \in {"plain", "torn", "container", "cut"}
  PROVE  Given.form = "container" /\ out = Given.data /\ out \in Plain /\ Len(out) <= limit
<1>1. Given.form \in {"container", "cut"} /\ mode = "decode"
  BY DEF FrontInv, ReaderFollows
<1>2. PICK h \in StreamHeaders, s \in Plain : FileIs(Given, h, s) /\ rpc = "idle" /\ Ended(h, s)
  BY <1>1, ReadingHasEnded
<1>3. input = Given.bytes
  BY <1>1, ReadingHasEnded
<1>4. out = s /\ Len(s) <= limit /\ TotalLen(h, s) <= Len(input)
  BY <1>1, <1>2 DEF Ended
<1> QED
  BY <1>2, <1>3, <1>4 DEF FileIs

(* What is delivered, of what was given.                                   *)
LEMMA DeliveredIs ==
  ASSUME FrontInv, fpc \in Running
  PROVE  /\ files = before /\ cmd \in Commands /\ cmd.input \in DOMAIN before /\ Data = Given.bytes
         /\ cmd.verb \in {"compress", "decompress", "image"} /\ FileSound(Given)
         /\ cmd.verb = "compress" =>
              /\ Given.bytes \in Plain
              /\ Delivered = ContainerFile(KnownSize(Given.bytes), Given.bytes)
         /\ cmd.verb # "compress" => Delivered = PlainFile(computed)
         /\ Delivered.bytes = computed
<1>1. /\ files = before /\ FilesSound(before) /\ cmd.input \in DOMAIN before /\ cmd \in Commands
      /\ cmd.verb # "inspect"
      /\ cmd.verb = "compress" =>
           Given.bytes \in Plain /\ computed = ContainerOf(KnownSize(Given.bytes), Given.bytes)
  BY DEF FrontInv, FrontTyped, Kept, ComputedIs, Running
<1>2. Data = Given.bytes
  BY <1>1 DEF Data, Given
<1>3. FileSound(Given)
  BY <1>1 DEF FilesSound, Given
<1>4. cmd.verb \in {"compress", "decompress", "image"}
  BY <1>1, FrontEndsAssumption
<1>5. ASSUME cmd.verb = "compress"
      PROVE  Delivered = ContainerFile(KnownSize(Given.bytes), Given.bytes) /\ Delivered.bytes = computed
  <2>1. Delivered = ContainerFile(KnownSize(Given.bytes), Given.bytes)
    BY <1>2, <1>5 DEF Delivered
  <2> QED
    BY <1>1, <1>5, <2>1 DEF ContainerFile
<1>6. ASSUME cmd.verb # "compress"
      PROVE  Delivered = PlainFile(computed) /\ Delivered.bytes = computed
  BY <1>6 DEF Delivered, PlainFile
<1> QED
  BY <1>1, <1>2, <1>3, <1>4, <1>5, <1>6

(* It is what it says,                                                     *)
LEMMA DeliveredSound ==
  ASSUME FrontInv, fpc \in Running, damaged = "none"
  PROVE  FileSound(Delivered) /\ Whole(Delivered)
<1>1. CASE cmd.verb = "compress"
  <2>1. Given.bytes \in Plain /\ Delivered = ContainerFile(KnownSize(Given.bytes), Given.bytes)
    BY <1>1, DeliveredIs
  <2>2. KnownSize(Given.bytes) \in StreamHeaders
    BY <2>1, KnownSizeType
  <2> QED
    BY <2>1, <2>2, ContainerFileSound
<1>2. CASE cmd.verb # "compress"
  <2>1. /\ Delivered = PlainFile(computed) /\ cmd.verb \in {"decompress", "image"} /\ files = before
        /\ cmd.input \in DOMAIN before
    BY <1>2, DeliveredIs
  <2>2. CASE cmd.verb = "decompress"
    <3>1. outcome = "ok" /\ computed = out /\ Whole(files[cmd.input]) /\ fpc # "read"
      BY <2>1, <2>2 DEF FrontInv, ComputedIs, Kept, Running
    <3>2. Given.form \in {"plain", "torn", "container", "cut"}
      BY <2>1, <3>1 DEF Whole, Given
    <3>3. out \in Plain
      BY <2>2, <3>1, <3>2, DecodedIs
    <3>4. out \in Seq(Octet) /\ ~BeginsWithMagic(out)
      BY <3>3, PlainIs
    <3> QED
      BY <2>1, <3>1, <3>4, PlainFileSound
  <2>3. CASE cmd.verb = "image"
    <3>1. computed = Picture
      BY <2>3 DEF FrontInv, ComputedIs
    <3>2. Picture \in Seq(Octet) /\ ~BeginsWithMagic(Picture)
      BY FrontEndsAssumption, FilesAssumption
    <3> QED
      BY <2>1, <3>1, <3>2, PlainFileSound
  <2> QED
    BY <2>1, <2>2, <2>3
<1> QED
  BY <1>1, <1>2

(* what a torn write leaves of it is its beginning,                        *)
LEMMA TornIs ==
  ASSUME NEW n
  PROVE  /\ Torn(n).bytes = SubSeq(Delivered.bytes, 1, n) /\ Torn(n).form \in {"cut", "torn"}
         /\ Torn(n) = [Delivered EXCEPT !.bytes = SubSeq(@, 1, n),
                                        !.form = IF Delivered.form = "container" THEN "cut" ELSE "torn"]
<1>1. Delivered = [bytes |-> Delivered.bytes, data |-> Delivered.data, form |-> Delivered.form,
                   head |-> Delivered.head]
  BY DEF Delivered, ContainerFile, PlainFile
<1> HIDE DEF Delivered
<1>2. Torn(n) = [Delivered EXCEPT !.bytes = SubSeq(@, 1, n),
                                  !.form = IF Delivered.form = "container" THEN "cut" ELSE "torn"]
  BY DEF Torn
<1> DEFINE d == Delivered
<1> HIDE DEF d
<1> QED
  BY <1>1, <1>2

(* and that is sound too.                                                  *)
LEMMA TornSound ==
  ASSUME FrontInv, fpc \in Running, damaged = "none", NEW n \in 0 .. Len(computed) - 1
  PROVE  FileSound(Torn(n)) /\ Whole(Torn(n))
<1> DEFINE d == Delivered
           g == Torn(n)
<1>1. FileSound(d) /\ Whole(d) /\ d.bytes = computed
  BY DeliveredSound, DeliveredIs
<1>2. /\ g.bytes = SubSeq(d.bytes, 1, n) /\ g.form \in {"cut", "torn"}
      /\ g = [d EXCEPT !.bytes = SubSeq(@, 1, n), !.form = IF d.form = "container" THEN "cut" ELSE "torn"]
  BY TornIs
<1>3. d.form \in {"plain", "container"}
  BY DEF Delivered, ContainerFile, PlainFile
<1> HIDE DEF d, g
<1>4. Whole(g)
  BY <1>2 DEF Whole
<1>5. CASE d.form = "container"
  <2>1. g = [d EXCEPT !.bytes = SubSeq(@, 1, n), !.form = "cut"]
    BY <1>2, <1>5
  <2>2. g \in Cuts(d)
    BY <1>1, <2>1 DEF Cuts
  <2>3. g \in Damages(d)
    BY <2>2, Zenon DEF Damages
  <2>4. FileSound(g)
    BY <1>1, <1>5, <2>3, DamagedSound
  <2> QED
    BY <1>4, <2>4 DEF g
<1>6. CASE d.form = "plain"
  <2>1. g = [d EXCEPT !.bytes = SubSeq(@, 1, n), !.form = "torn"]
    BY <1>2, <1>6
  <2>2. d.bytes \in Seq(Octet) /\ ~BeginsWithMagic(d.bytes) /\ n \in 0 .. Len(d.bytes)
    <3>1. d.bytes \in Seq(Octet) /\ ~BeginsWithMagic(d.bytes)
      BY <1>1, <1>6 DEF FileSound
    <3>2. Len(d.bytes) \in Nat
      BY <3>1, LenProperties
    <3> QED
      BY <1>1, <3>1, <3>2
  <2>3. ~BeginsWithMagic(g.bytes) /\ g.bytes \in Seq(Octet)
    BY <1>2, <2>2, NoMagicInBeginning
  <2>4. g \in [bytes : Seq(Octet), data : Seq(Octet), form : Forms, head : Nat] /\ g.form = "torn"
    <3>1. d \in [bytes : Seq(Octet), data : Seq(Octet), form : Forms, head : Nat]
      BY <1>1 DEF FileSound
    <3>2. SubSeq(d.bytes, 1, n) \in Seq(Octet)
      BY <1>2, <2>3
    <3> QED
      BY <2>1, <3>1, <3>2 DEF Forms
  <2>5. FileSound(g)
    BY <2>3, <2>4 DEF FileSound
  <2> QED
    BY <1>4, <2>5 DEF g
<1> QED
  BY <1>3, <1>5, <1>6

(* Store changes one file,                                                 *)
LEMMA StoredIs ==
  ASSUME NEW f, Store(f)
  PROVE  /\ DOMAIN files' = DOMAIN files \cup {Target} /\ files'[Target] = f
         /\ \A n \in DOMAIN files \ {Target} : files'[n] = files[n]
BY DEF Store

(* which is sound if what is stored is.                                    *)
LEMMA StoredSound ==
  ASSUME NEW f, Store(f), FilesSound(files), FileSound(f)
  PROVE  FilesSound(files')
<1>1. /\ DOMAIN files' = DOMAIN files \cup {Target} /\ files'[Target] = f
      /\ \A n \in DOMAIN files \ {Target} : files'[n] = files[n]
  BY StoredIs
<1>2. ASSUME NEW n \in DOMAIN files'
      PROVE  FileSound(files'[n])
  <2>1. CASE n = Target
    BY <1>1, <2>1
  <2>2. CASE n # Target
    <3>1. n \in DOMAIN files /\ files'[n] = files[n]
      BY <1>1, <2>2
    <3> QED
      BY <3>1 DEF FilesSound
  <2> QED
    BY <2>1, <2>2
<1> QED
  BY <1>2 DEF FilesSound

(* The files are sound wherever another call may begin.                    *)
LEMMA FilesAreSound ==
  ASSUME FrontInv, fpc \in {"idle", "done"}, calls < MaxCalls
  PROVE  FilesSound(files)
<1>1. /\ FilesSound(before) /\ (fpc # "done" => files = before)
      /\ (damaged # "none" /\ fpc # "idle" => calls = MaxCalls)
      /\ (fpc = "done" => damaged # "none" \/ FilesSound(files))
  BY DEF FrontInv, Kept
<1>2. calls \in Nat /\ MaxCalls \in Nat
  BY TypesOfStep
<1> QED
  BY <1>1, <1>2

(* Kept: a damage,                                                         *)
LEMMA DamageKeeps ==
  ASSUME FrontInv, Damage
  PROVE  Kept'
<1>1. PICK n \in DOMAIN files :
        /\ files[n].form = "container"
        /\ \E f \in Damages(files[n]) : files' = [files EXCEPT ![n] = f]
        /\ damaged' = n
  BY DEF Damage
<1>2. PICK g \in Damages(files[n]) : files' = [files EXCEPT ![n] = g]
  BY <1>1
<1>3. FilesSound(files)
  <2>1. fpc \in {"idle", "done"} /\ calls < MaxCalls
    BY DEF Damage
  <2> QED
    BY <2>1, FilesAreSound
<1>4. DOMAIN files \subseteq Names /\ damaged = "none" /\ Whole(files[n])
  BY DEF FrontInv, FrontTyped, Kept, Damage
<1>5. FileSound(files[n])
  BY <1>3 DEF FilesSound
<1>6. FileSound(g)
  BY <1>1, <1>2, <1>4, <1>5, DamagedSound
<1>7. FilesSound(files')
  BY <1>2, <1>3, <1>6 DEF FilesSound
<1>8. damaged' # "none"
  BY <1>1, <1>4 DEF Names
<1>9. before' = files' /\ fpc' = "idle"
  BY DEF Damage
<1> QED
  BY <1>7, <1>8, <1>9 DEF Kept, FilesSound

(* the beginning of a call,                                                *)
LEMMA InvokeKeeps ==
  ASSUME FrontInv, Invoke
  PROVE  Kept'
<1>1. /\ fpc \in {"idle", "done"} /\ calls < MaxCalls /\ before' = files /\ fpc' = "load"
      /\ (damaged # "none" => calls' = MaxCalls) /\ UNCHANGED <<files, damaged>>
  BY DEF Invoke
<1>2. FilesSound(files)
  BY <1>1, FilesAreSound
<1>3. damaged = "none" => \A n \in DOMAIN files : Whole(files[n])
  BY DEF FrontInv, Kept
<1> QED
  BY <1>1, <1>2, <1>3 DEF Kept, FilesSound

(* a write, or a torn one,                                                 *)
LEMMA StoreKeeps ==
  ASSUME FrontInv, fpc \in Running, UNCHANGED <<before, damaged, calls>>, fpc' = "done", NEW f, Store(f),
         damaged = "none" => FileSound(f) /\ Whole(f)
  PROVE  Kept'
<1>1. FilesSound(before) /\ files = before
  BY DEF FrontInv, Kept, Running
<1>2. damaged # "none" => calls = MaxCalls
  BY DEF FrontInv, Kept, Running
<1>3. ASSUME damaged = "none"
      PROVE  FilesSound(files') /\ \A n \in DOMAIN files' : Whole(files'[n])
  <2>1. FilesSound(files')
    BY <1>1, <1>3, StoredSound
  <2>2. \A n \in DOMAIN files : Whole(files[n])
    BY <1>3 DEF FrontInv, Kept
  <2>3. /\ DOMAIN files' = DOMAIN files \cup {Target} /\ files'[Target] = f
        /\ \A n \in DOMAIN files \ {Target} : files'[n] = files[n]
    BY StoredIs
  <2>4. ASSUME NEW n \in DOMAIN files'
        PROVE  Whole(files'[n])
    <3>1. n = Target \/ n \in DOMAIN files \ {Target}
      BY <2>3
    <3>2. CASE n = Target
      BY <1>3, <2>3, <3>2
    <3>3. CASE n \in DOMAIN files \ {Target}
      <4>1. files'[n] = files[n]
        BY <2>3, <3>3
      <4> QED
        BY <2>2, <3>3, <4>1
    <3> QED
      BY <3>1, <3>2, <3>3
  <2> QED
    BY <2>1, <2>4
<1> QED
  BY <1>1, <1>2, <1>3 DEF Kept, FilesSound

(* and all steps.                                                          *)
LEMMA StaysKept ==
  ASSUME FrontInv, FrontNext
  PROVE  Kept'
<1>1. Kept
  BY DEF FrontInv
<1>2. ASSUME UNCHANGED <<files, before, damaged, calls>>, fpc \notin {"idle", "done"} \/ fpc' = fpc
      PROVE  Kept'
  BY <1>1, <1>2 DEF Kept, FilesSound
<1>3. CASE CannotRead \/ Compress \/ Decompress \/ Inspect \/ ReadOn \/ ReadEnds
            \/ CompressImage \/ WriteStdout \/ HandOut \/ Copy \/ Rest
  <2>1. UNCHANGED <<files, before, damaged, calls>> /\ (fpc \notin {"idle", "done"} \/ fpc' = fpc)
    BY <1>3 DEF CannotRead, Compress, Decompress, Inspect, ReadOn, ReadEnds, CompressImage,
                WriteStdout, HandOut, Copy, Rest, cmdVars, frontVars, allVars
  <2> QED
    BY <1>2, <2>1
<1>4. CASE WriteFile
  <2>1. fpc \in Running /\ UNCHANGED <<before, damaged, calls>> /\ fpc' = "done" /\ fpc = "deliver"
    BY <1>4 DEF WriteFile, Finish, cmdVars, Running
  <2>2. CASE Store(Delivered)
    <3>1. damaged = "none" => FileSound(Delivered) /\ Whole(Delivered)
      BY <2>1, DeliveredSound
    <3> QED
      BY <2>1, <2>2, <3>1, StoreKeeps
  <2>3. CASE \E n \in 0 .. Len(computed) - 1 : Store(Torn(n))
    <3>1. PICK n \in 0 .. Len(computed) - 1 : Store(Torn(n))
      BY <2>3
    <3>2. damaged = "none" => FileSound(Torn(n)) /\ Whole(Torn(n))
      BY <2>1, TornSound
    <3> QED
      BY <2>1, <3>1, <3>2, StoreKeeps
  <2>4. CASE UNCHANGED files
    BY <1>2, <2>1, <2>4
  <2> QED
    BY <1>4, <2>2, <2>3, <2>4 DEF WriteFile
<1>5. CASE Release
  <2>1. fpc \in Running /\ UNCHANGED <<before, damaged, calls>> /\ fpc' = "done" /\ fpc = "free"
    BY <1>5 DEF Release, cmdVars, Running
  <2>2. Store(Delivered) \/ UNCHANGED files
    BY <1>5 DEF Release
  <2>3. CASE Store(Delivered)
    <3>1. damaged = "none" => FileSound(Delivered) /\ Whole(Delivered)
      BY <2>1, DeliveredSound
    <3> QED
      BY <2>1, <2>3, <3>1, StoreKeeps
  <2>4. CASE UNCHANGED files
    BY <1>2, <2>1, <2>4
  <2> QED
    BY <2>2, <2>3, <2>4
<1> QED
  BY <1>3, <1>4, <1>5, DamageKeeps, InvokeKeeps DEF FrontNext

(* Where a call does not name its output, it writes beside its input, save *)
(* in the two cases in which the names are the same.                       *)
LEMMA OwnInput ==
  ASSUME cmd \in Commands, cmd.verb # "inspect", Target = cmd.input
  PROVE  \/ cmd.output = cmd.input
         \/ <<cmd.verb, cmd.input>> \in {<<"compress", "cdp">>, <<"decompress", "decompressed">>}
<1>1. cmd.verb \in {"compress", "decompress", "image"} /\ (cmd.verb = "image" => cmd.input # "webp")
  BY FrontEndsAssumption
<1>2. CASE cmd.output # "default"
  BY <1>2 DEF Target
<1>3. CASE cmd.output = "default"
  <2>1. DefaultName = cmd.input
    BY <1>3 DEF Target
  <2> QED
    BY <1>1, <2>1 DEF DefaultName
<1> QED
  BY <1>2, <1>3

(* A call that leaves the files alone loses nothing.                       *)
LEMMA UntouchedSurvive ==
  ASSUME files' = before'
  PROVE  DataSurvive'
BY DEF DataSurvive, Given

(* What is stored over the input holds the data of the input, or else.     *)
LEMMA DeliveredHolds ==
  ASSUME FrontInv, fpc \in Running, Given.form \in {"plain", "container"}, cmd.verb # "image"
  PROVE  Delivered.data = Given.data /\ Delivered.form \in {"plain", "container"}
<1>1. /\ cmd.verb \in {"compress", "decompress"} /\ FileSound(Given)
      /\ cmd.verb = "compress" =>
           /\ Given.bytes \in Plain
           /\ Delivered = ContainerFile(KnownSize(Given.bytes), Given.bytes)
      /\ cmd.verb # "compress" => Delivered = PlainFile(computed)
  BY DeliveredIs
<1>2. CASE cmd.verb = "compress"
  <2>1. Delivered.data = Given.bytes /\ Delivered.form = "container" /\ Given.bytes \in Plain
    BY <1>1, <1>2 DEF ContainerFile
  <2>2. CASE Given.form = "plain"
    BY <1>1, <2>1, <2>2 DEF FileSound
  <2>3. CASE Given.form = "container"
    <3>1. PICK h \in StreamHeaders, s \in Plain : FileIs(Given, h, s)
      BY <1>1, <2>3 DEF FileSound
    <3>2. Given.bytes \in Seq(Octet)
      BY <1>1 DEF FileSound
    <3>3. BeginsWithMagic(Given.bytes)
      BY <2>3, <3>1, <3>2, ContainersHaveMagic
    <3> QED
      BY <2>1, <3>3, PlainIs
  <2> QED
    BY <2>2, <2>3
<1>3. CASE cmd.verb = "decompress"
  <2>1. outcome = "ok" /\ computed = out /\ fpc # "read"
    BY <1>3 DEF FrontInv, ComputedIs, Running
  <2>2. out = Given.data
    BY <1>3, <2>1, DecodedIs
  <2> QED
    BY <1>1, <1>3, <2>1, <2>2 DEF PlainFile
<1> QED
  BY <1>1, <1>2, <1>3

(* A write loses nothing but what it overwrites.                           *)
LEMMA StoredSurvive ==
  ASSUME FrontInv, fpc \in Running, UNCHANGED <<before, cmd>>, NEW f, Store(f),
         code' = 0 => f = Delivered, code' # 0 => f.form \in {"cut", "torn"}
  PROVE  DataSurvive'
<1>1. /\ files = before /\ cmd \in Commands /\ cmd.input \in DOMAIN before
      /\ cmd.verb \in {"compress", "decompress", "image"}
  BY DeliveredIs
<1>2. /\ DOMAIN files' = DOMAIN files \cup {Target} /\ files'[Target] = f
      /\ \A n \in DOMAIN files \ {Target} : files'[n] = files[n]
  BY StoredIs
<1>3. Target' = Target /\ Given' = Given
  BY DEF Target, DefaultName, Given
<1> DEFINE Holds(d) == \E n \in DOMAIN d : d[n].data = Given.data /\ d[n].form \in {"plain", "container"}
           Own == /\ \/ cmd.output = cmd.input
                     \/ <<cmd.verb, cmd.input>> \in {<<"compress", "cdp">>, <<"decompress", "decompressed">>}
                  /\ cmd.verb = "image" \/ code' # 0
<1>4. Given.form \notin {"plain", "container"} \/ Holds(files') \/ Own
  <2>1. CASE Given.form \in {"plain", "container"} /\ Target # cmd.input
    <3>1. cmd.input \in DOMAIN files' /\ files'[cmd.input] = Given
      BY <1>1, <1>2, <2>1 DEF Given
    <3> QED
      BY <2>1, <3>1
  <2>2. CASE Given.form \in {"plain", "container"} /\ Target = cmd.input
    <3>1. CASE cmd.verb = "image" \/ code' # 0
      BY <1>1, <2>2, <3>1, OwnInput
    <3>2. CASE cmd.verb # "image" /\ code' = 0
      <4>1. Delivered.data = Given.data /\ Delivered.form \in {"plain", "container"}
        BY <2>2, <3>2, DeliveredHolds
      <4>2. files'[Target] = Delivered /\ Target \in DOMAIN files'
        BY <1>2, <3>2
      <4> QED
        BY <4>1, <4>2
    <3> QED
      BY <3>1, <3>2
  <2> QED
    BY <2>1, <2>2
<1>5. \A n \in DOMAIN before \ {Target} : n \in DOMAIN files' /\ files'[n] = before[n]
  BY <1>1, <1>2
<1>6. code' = 0 \/ files'[Target].form \in {"cut", "torn"}
  BY <1>2
<1>7. before' = before /\ cmd' = cmd
  OBVIOUS
<1> QED
  BY <1>3, <1>4, <1>5, <1>6, <1>7 DEF DataSurvive

(* DataSurvive, step by step.                                              *)
LEMMA DataSurviveOn ==
  ASSUME FrontInv, FrontNext
  PROVE  DataSurvive'
<1>1. DataSurvive /\ (fpc # "done" => files = before)
  BY DEF FrontInv, Kept
<1>2. CASE Damage \/ Invoke \/ Decompress \/ Inspect \/ Compress \/ HandOut \/ ReadOn
  <2>1. fpc' # "done"
    BY <1>2 DEF Damage, Invoke, Decompress, Inspect, Compress, HandOut, ReadOn, frontVars
  <2> QED
    BY <2>1 DEF DataSurvive
<1>3. CASE CannotRead \/ ReadEnds \/ CompressImage \/ WriteStdout \/ Copy
  <2>1. fpc # "done" /\ UNCHANGED <<files, before>>
    BY <1>3 DEF CannotRead, ReadEnds, CompressImage, WriteStdout, Copy, cmdVars
  <2> QED
    BY <1>1, <2>1, UntouchedSurvive
<1>4. CASE WriteFile
  <2>1. fpc = "deliver" /\ fpc \in Running /\ UNCHANGED <<before, cmd>>
    BY <1>4 DEF WriteFile, cmdVars, Running
  <2>2. CASE Store(Delivered) /\ Finish(0)
    <3>1. code' = 0
      BY <2>2 DEF Finish
    <3> QED
      BY <2>1, <2>2, <3>1, StoredSurvive
  <2>3. CASE \E n \in 0 .. Len(computed) - 1 : Store(Torn(n)) /\ Finish(1)
    <3>1. PICK n \in 0 .. Len(computed) - 1 : Store(Torn(n)) /\ Finish(1)
      BY <2>3
    <3>2. code' # 0
      BY <3>1 DEF Finish
    <3>3. Torn(n).form \in {"cut", "torn"}
      BY TornIs
    <3> QED
      BY <2>1, <3>1, <3>2, <3>3, StoredSurvive
  <2>4. CASE UNCHANGED files
    BY <1>1, <2>1, <2>4, UntouchedSurvive
  <2> QED
    BY <1>4, <2>2, <2>3, <2>4 DEF WriteFile
<1>5. CASE Release
  <2>1. fpc = "free" /\ fpc \in Running /\ UNCHANGED <<before, cmd>> /\ code' = code
    BY <1>5 DEF Release, cmdVars, Running
  <2>2. CASE code = 0 /\ Store(Delivered)
    <3>1. code' = 0
      BY <2>1, <2>2
    <3> QED
      BY <2>1, <2>2, <3>1, StoredSurvive
  <2>3. CASE UNCHANGED files
    BY <1>1, <2>1, <2>3, UntouchedSurvive
  <2> QED
    BY <1>5, <2>2, <2>3 DEF Release
<1>6. CASE Rest
  <2>1. UNCHANGED <<files, before, cmd, fpc, code>>
    BY <1>6 DEF Rest, allVars, frontVars
  <2> QED
    BY <1>1, <2>1 DEF DataSurvive, Given, Target, DefaultName
<1> QED
  BY <1>2, <1>3, <1>4, <1>5, <1>6 DEF FrontNext

(* The invariant holds in the beginning                                    *)
LEMMA FrontInvBegins ==
  ASSUME FrontInit
  PROVE  FrontInv
<1>1. /\ InitReader /\ files \in Directories /\ before = files /\ damaged = "none" /\ calls = 0
      /\ fpc = "idle" /\ computed = <<>> /\ heap = {} /\ wild = FALSE /\ cmd = NoCommand
  BY DEF FrontInit
<1>2. <<>> \in Seq(Octet) /\ MaxCalls \in Nat /\ DOMAIN files \subseteq Names
  BY <1>1, EmptySeq, FrontEndsAssumption
<1>3. ReaderTyped
  <2>1. NoBlock \in Blocks
    BY <1>2 DEF NoBlock, Blocks
  <2>2. "idle" \in Stages
    BY DEF Stages
  <2> QED
    BY <1>1, <1>2, <2>1, <2>2 DEF InitReader, ReaderTyped
<1>4. FrontTyped
  BY <1>1, <1>2 DEF FrontTyped
<1>5. ASSUME NEW n \in DOMAIN files
      PROVE  FileSound(files[n]) /\ Whole(files[n])
  <2>1. \/ \E s \in Plain : files[n] = PlainFile(s)
        \/ \E s \in Plain : \E h \in Headers \cup {KnownSize(s)} : files[n] = ContainerFile(h, s)
    BY <1>1, FilesAssumption
  <2>2. CASE \E s \in Plain : files[n] = PlainFile(s)
    <3>1. PICK s \in Plain : files[n] = PlainFile(s)
      BY <2>2
    <3>2. s \in Seq(Octet) /\ ~BeginsWithMagic(s)
      BY PlainIs
    <3> QED
      BY <3>1, <3>2, PlainFileSound
  <2>3. CASE \E s \in Plain : \E h \in Headers \cup {KnownSize(s)} : files[n] = ContainerFile(h, s)
    <3>1. PICK s \in Plain : \E h \in Headers \cup {KnownSize(s)} : files[n] = ContainerFile(h, s)
      BY <2>3
    <3>2. PICK h \in Headers \cup {KnownSize(s)} : files[n] = ContainerFile(h, s)
      BY <3>1
    <3>3. h \in StreamHeaders
      BY KnownSizeType, FilesAssumption
    <3> QED
      BY <3>2, <3>3, ContainerFileSound
  <2> QED
    BY <2>1, <2>2, <2>3
<1>6. Kept
  BY <1>1, <1>5 DEF Kept, FilesSound
<1>7. rpc = "idle" /\ outcome = "none"
  BY <1>1 DEF InitReader
<1>8. ReaderFollows /\ ComputedIs /\ EndsWell /\ HeapSound /\ DataSurvive
  BY <1>1, <1>7 DEF ReaderFollows, ComputedIs, Running, EndsWell, HeapSound, DataSurvive
<1> QED
  BY <1>3, <1>4, <1>6, <1>8 DEF FrontInv

(* and where nothing changes.                                              *)
LEMMA FrontInvStutters ==
  ASSUME FrontInv, UNCHANGED allVars
  PROVE  FrontInv'
<1>1. /\ UNCHANGED <<input, at, mode, limit, rpc, covered, flags, groups, block, out, outcome>>
      /\ UNCHANGED <<files, before, damaged, calls, cmd, fpc, profile, computed, code, heap, wild>>
  BY DEF allVars, readerVars, frontVars
<1>2. ReaderTyped' /\ FrontTyped' /\ Kept'
  BY <1>1 DEF FrontInv, ReaderTyped, FrontTyped, Kept, FilesSound
<1>3. UNCHANGED <<Given, Buffer, Target>>
  BY <1>1 DEF Given, Buffer, Target, DefaultName
<1>4. ReaderFollows'
  <2>1. \A h, s : ReaderAt(h, s)' <=> ReaderAt(h, s)
    BY <1>1 DEF ReaderAt, InHeader, InBlock, Ended, FieldsRead, AtBlock, BehindBlock, EndsInHeader, FieldAt
  <2>2. \A h, s : FileIs(Given, h, s)' <=> FileIs(Given, h, s)
    BY <1>3 DEF FileIs
  <2> QED
    BY <1>1, <1>3, <2>1, <2>2 DEF FrontInv, ReaderFollows
<1>5. ComputedIs' /\ HeapSound' /\ DataSurvive'
  BY <1>1, <1>3 DEF FrontInv, ComputedIs, HeapSound, DataSurvive
<1>6. EndsWell'
  <2>1. ExitCode(outcome)' = ExitCode(outcome) /\ ReturnCode(outcome)' = ReturnCode(outcome)
    BY <1>1 DEF ExitCode, ReturnCode
  <2> QED
    BY <1>1, <2>1 DEF FrontInv, EndsWell
<1> QED
  BY <1>2, <1>4, <1>5, <1>6 DEF FrontInv

(* The inductive invariant of the command line and the callers of the C    *)
(* ABI.                                                                    *)
THEOREM FrontInvariant == FrontSpec => []FrontInv
<1>1. FrontInit => FrontInv
  BY FrontInvBegins
<1>2. FrontInv /\ [FrontNext]_allVars => FrontInv'
  <2> SUFFICES ASSUME FrontInv, [FrontNext]_allVars
               PROVE  FrontInv'
    OBVIOUS
  <2>1. CASE FrontNext
    BY <2>1, ReaderStaysTyped, FrontStaysTyped, StaysKept, ReaderFollowsOn, ComputedStays,
       EndsStayWell, HeapStays, DataSurviveOn DEF FrontInv
  <2>2. CASE UNCHANGED allVars
    BY <2>2, FrontInvStutters
  <2> QED
    BY <2>1, <2>2
<1> QED
  BY <1>1, <1>2, PTL DEF FrontSpec

(* No call loses the data it was given unless it writes over its own       *)
(* input; and one that fails changes no file, save for a torn write to its *)
(* target.                                                                 *)
THEOREM NoDataIsLost == FrontSpec => []DataSurvive
<1>1. FrontInv => DataSurvive
  BY DEF FrontInv
<1> QED
  BY <1>1, FrontInvariant, PTL

(* Every buffer that the library hands out is freed exactly once, with its *)
(* length, by the callers that free at all.                                *)
THEOREM HeapIsSound == FrontSpec => []BuffersAreFreedOnce
<1>1. FrontInv => BuffersAreFreedOnce
  BY DEF FrontInv, HeapSound, BuffersAreFreedOnce, Raised
<1> QED
  BY <1>1, FrontInvariant, PTL

(* What a reader that follows the layout ends with.                        *)
LEMMA WholeContainers ==
  ASSUME FrontInv
  PROVE  OnlyWholeContainersDecode
<1> SUFFICES ASSUME HasRead
             PROVE  /\ Given.form \in {"plain", "torn"} => outcome # "ok"
                    /\ cmd.verb = "decompress" =>
                         /\ Given.form = "cut" => outcome # "ok"
                         /\ Given.form = "container" =>
                              IF Len(Given.data) <= limit THEN outcome = "ok" /\ out = Given.data
                              ELSE /\ outcome = "DecompressionBombDetected"
                                   /\ IF cmd.who = "cli" THEN code # 0 ELSE code = -4
  BY DEF OnlyWholeContainersDecode
<1>1. fpc = "done" /\ fpc # "read" /\ outcome # "none"
  BY DEF HasRead
<1>2. Given.form \in {"plain", "torn"} => outcome # "ok"
  BY <1>1 DEF FrontInv, ReaderFollows
<1>3. ASSUME cmd.verb = "decompress", Given.form = "cut"
      PROVE  outcome # "ok"
  BY <1>1, <1>3, DecodedIs
<1>4. ASSUME cmd.verb = "decompress", Given.form = "container"
      PROVE  IF Len(Given.data) <= limit THEN outcome = "ok" /\ out = Given.data
             ELSE /\ outcome = "DecompressionBombDetected"
                  /\ IF cmd.who = "cli" THEN code # 0 ELSE code = -4
  <2>1. PICK h \in StreamHeaders, s \in Plain : FileIs(Given, h, s) /\ rpc = "idle" /\ Ended(h, s)
    BY <1>1, <1>4, ReadingHasEnded
  <2>2. input = Given.bytes /\ Given.bytes \in Seq(Octet) /\ mode = "decode" /\ limit \in Nat
    BY <1>1, <1>4, ReadingHasEnded DEF FrontInv, ReaderFollows, ReaderTyped
  <2>3. TotalLen(h, s) <= Len(input) /\ Given.data = s /\ Len(s) \in Nat
    BY <1>4, <2>1, <2>2, PlainIs DEF FileIs
  <2>4. TotalLen(h, s) \in Nat /\ Len(input) \in Nat
    BY <2>2, ContainerLies, LenProperties
  <2>5. outcome # "UnexpectedEof"
    BY <2>1, <2>2, <2>3, <2>4 DEF Ended
  <2>6. outcome # "Io"
    <3>1. ~EndsInHeader(h, s)
      <4>1. HeadLen(h) <= Len(input) /\ (s = <<>> \/ HeadLen(h) + BlockHeaderLen(s) <= Len(input))
        <5> DEFINE d == HeadLen(h)
                   b == BlockHeaderLen(s)
                   k == BlockLen(s)
                   l == Len(input)
                   y == IF h.flags.checksum THEN 8 ELSE 0
        <5>1. /\ d \in Nat /\ b \in Nat /\ k \in Nat /\ l \in Nat /\ y \in Nat /\ Len(s) \in Nat
              /\ s # <<>> => k = b + Len(s)
          BY <2>3, <2>4, LayoutTypes
        <5>2. d + k + 1 + y <= l
          BY <2>3 DEF TotalLen
        <5> HIDE DEF d, b, k, l, y
        <5>3. d <= l /\ (s # <<>> => d + b <= l)
          BY <5>1, <5>2
        <5> QED
          BY <5>3 DEF d, b, l
      <4> QED
        BY <2>4, <4>1, HeaderThere
    <3> QED
      BY <2>1, <3>1 DEF Ended
  <2>7. \/ outcome = "ok" /\ out = s /\ Len(s) <= limit
        \/ outcome = "DecompressionBombDetected" /\ Len(s) > limit
    BY <2>1, <2>2, <2>5, <2>6 DEF Ended
  <2>8. CASE outcome = "ok" /\ out = s /\ Len(s) <= limit
    BY <2>3, <2>8
  <2>9. CASE outcome = "DecompressionBombDetected" /\ Len(s) > limit
    <3>1. code = IF cmd.who = "cli" THEN ExitCode(outcome) ELSE ReturnCode(outcome)
      BY <1>1, <2>9 DEF FrontInv, EndsWell
    <3>2. ExitCode(outcome) = 2 /\ ReturnCode(outcome) = -4
      BY <2>9 DEF ExitCode, ReturnCode, Unsupported, Mismatches
    <3>3. ~(Len(s) <= limit)
      BY <2>2, <2>3, <2>9
    <3> QED
      BY <2>3, <2>9, <3>1, <3>2, <3>3
  <2> QED
    BY <2>7, <2>8, <2>9
<1> QED
  BY <1>2, <1>3, <1>4

(* A container whose bytes are all there decodes to its data or is refused *)
(* for the limit, and what is cut, torn or no container is refused.        *)
THEOREM WholeContainersDecode == FrontSpec => []OnlyWholeContainersDecode
BY WholeContainers, FrontInvariant, PTL

(* Where it ended tells in which header.                                   *)
LEMMA CutsReported ==
  ASSUME FrontInv
  PROVE  CutsAreReported
<1> SUFFICES ASSUME HasRead, Given.form = "cut", cmd.who = "cli"
             PROVE  /\ cmd.verb = "decompress" => code = 2 \/ (CutInHeader /\ code = 1)
                    /\ CutInHeader => code # 0
  BY DEF CutsAreReported
<1>1. fpc = "done" /\ fpc # "read" /\ outcome # "none"
  BY DEF HasRead
<1>2. PICK h \in StreamHeaders, s \in Plain : FileIs(Given, h, s) /\ rpc = "idle" /\ Ended(h, s)
  BY <1>1, ReadingHasEnded
<1>3. Given.data = s /\ Given.head = HeadLen(h) /\ input = Given.bytes
  BY <1>1, <1>2, ReadingHasEnded DEF FileIs, FrontInv, ReaderFollows
<1>4. CutInHeader <=> EndsInHeader(h, s)
  <2> DEFINE n == Len(Given.bytes) - Given.head
             k == Len(RawBlock(Given.data, TRUE)) - Len(Given.data)
             r == RawBlock(s, TRUE)
  <2>1. Len(r) = BlockHeaderLen(s) + Len(s)
    BY RawBlockLies
  <2>2. Len(s) \in Nat /\ BlockHeaderLen(s) \in Nat
    BY LayoutTypes
  <2>3. k = Len(r) - Len(s)
    BY <1>3
  <2>4. CutInHeader <=> (n < 0 \/ (Given.data # <<>> /\ n \in 1 .. k - 1))
    BY DEF CutInHeader
  <2> HIDE DEF r, k
  <2>5. k = BlockHeaderLen(s)
    BY <2>1, <2>2, <2>3
  <2> QED
    BY <1>3, <2>4, <2>5 DEF EndsInHeader
<1>5. outcome # "ok" => code = ExitCode(outcome)
  BY <1>1 DEF FrontInv, EndsWell
<1>6. CASE EndsInHeader(h, s)
  <2>1. outcome = "Io"
    BY <1>2, <1>6 DEF Ended
  <2>2. ExitCode("Io") = 1
    BY DEF ExitCode, Unsupported
  <2> QED
    BY <1>4, <1>5, <1>6, <2>1, <2>2
<1>7. CASE ~EndsInHeader(h, s) /\ cmd.verb = "decompress"
  <2>1. outcome # "ok"
    BY <1>1, <1>7, DecodedIs
  <2>2. outcome \in {"UnexpectedEof", "DecompressionBombDetected"}
    BY <1>2, <1>7, <2>1 DEF Ended
  <2>3. ExitCode(outcome) = 2
    BY <2>2 DEF ExitCode, Unsupported
  <2> QED
    BY <1>4, <1>5, <1>7, <2>1, <2>3
<1> QED
  BY <1>4, <1>6, <1>7

(* Every cut ends decompress with a code for it, and inspect notices one   *)
(* in the headers that it reads.                                           *)
THEOREM CutsAreSeen == FrontSpec => []CutsAreReported
BY CutsReported, FrontInvariant, PTL
=============================================================================
