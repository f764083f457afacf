---------------------------- MODULE ContainerBytes ----------------------------
(***************************************************************************)
(* The bytes of a container: what StreamHeader and BlockHeader write       *)
(* (libcodrop/src/format), both CRCs, and their reading back, one action   *)
(* per read_exact: by the Decoder, or by the inspect command, which skips  *)
(* payloads.                                                               *)
(*                                                                         *)
(* Bytes are real ones, and so are CRC-8 and CRC-32C. Encoders are given   *)
(* so little that RAW is chosen; a payload of another codec decodes to     *)
(* anything or fails.                                                      *)
(***************************************************************************)
EXTENDS Integers, Sequences

CONSTANTS
  Escape,        \* compressed sizes from here on need six bytes (0xFFFF)
  Digest(_),     \* StreamHash64::compute, as eight bytes
  Decoded        \* bound: what payloads of other codecs may decode to

Octet == 0 .. 255

ASSUME EscapeAssumption == Escape \in 1 .. 65535
ASSUME DecodedAssumption == Decoded \subseteq Seq(Octet)

VARIABLES
  input,         \* the bytes that are read
  at,            \* how many of them have been
  mode,          \* "decode" or "inspect"
  limit,         \* max_output_bytes
  rpc,           \* what is read next, or "idle"
  covered,       \* header_bytes, which CRC-8 is computed over
  flags,         \* of the stream header
  groups,        \* how many bytes of a ULEB128 have been read
  block,         \* the block header as far as it is read
  out,           \* the decoded data
  outcome        \* "none", "ok" or a CodropError

readerVars == <<input, at, mode, limit, rpc, covered, flags, groups, block, out, outcome>>

-----------------------------------------------------------------------------
(* The bits of a byte, the least significant first, and the reverse.       *)
BitsOf(b) == [i \in 1 .. 8 |-> (b \div 2 ^ (i - 1)) % 2]

Reverse8(s) == [i \in 1 .. 8 |-> s[9 - i]]

ByteOf(s) ==
  LET sum[i \in 0 .. 8] == IF i = 0 THEN 0 ELSE sum[i - 1] + s[i] * 2 ^ (i - 1) IN sum[8]

Concat(s, Op(_)) ==
  LET c[i \in 0 .. Len(s)] == IF i = 0 THEN <<>> ELSE c[i - 1] \o Op(s[i]) IN c[Len(s)]

(* A register of which the first bit leaves next; a bit goes in.           *)
Shift(r, bit, poly) ==
  LET moved == Append(Tail(r), 0)
  IN IF r[1] = bit THEN moved
     ELSE SubSeq([i \in 1 .. Len(r) |-> (moved[i] + poly[i]) % 2], 1, Len(r))

Crc(init, poly, bits) ==
  LET r[k \in 0 .. Len(bits)] == IF k = 0 THEN init ELSE Shift(r[k - 1], bits[k], poly)
  IN r[Len(bits)]

(* Polynomial 0x07, the most significant bit first.                        *)
Crc8(s) ==
  ByteOf(Reverse8(Crc([i \in 1 .. 8 |-> 0], Reverse8(BitsOf(7)),
                      Concat(s, LAMBDA b : Reverse8(BitsOf(b))))))

(* Polynomial 0x82F63B78, the least significant bit first; as four bytes.  *)
Crc32c(s) ==
  LET r == Crc([i \in 1 .. 32 |-> 1], Concat(<<120, 59, 246, 130>>, BitsOf), Concat(s, BitsOf))
  IN [k \in 1 .. 4 |-> ByteOf([i \in 1 .. 8 |-> 1 - r[8 * (k - 1) + i]])]

-----------------------------------------------------------------------------
Magic == <<67, 68, 80, 49>>

LE2(n) == <<n % 256, n \div 256>>
LE4(n) == <<n % 256, (n \div 256) % 256, (n \div 65536) % 256, n \div 16777216>>

Uleb(n) ==
  LET Bytes(k) == [i \in 1 .. k |-> ((n \div 128 ^ (i - 1)) % 128) + (IF i < k THEN 128 ELSE 0)]
  IN Bytes(CHOOSE k \in 1 .. 5 : n < 128 ^ k /\ \A j \in 1 .. k - 1 : n >= 128 ^ j)

Bit(condition, weight) == IF condition THEN weight ELSE 0

(* HeaderFlags::to_u16. Its second byte has nothing but reserved bits.     *)
FlagByte(f) ==
  Bit(f.size, 1) + Bit(f.checksum, 2) + Bit(f.dictionary, 4) + Bit(f.independent, 8) + 16 * f.window

ParsedFlags(b) ==
  [size |-> b % 2 = 1, checksum |-> (b \div 2) % 2 = 1, dictionary |-> (b \div 4) % 2 = 1,
   independent |-> (b \div 8) % 2 = 1, window |-> (b \div 16) % 4]

(* What CRC-8 protects: version 1.0, flags and what these announce.        *)
HeaderFields(h) ==
  <<16>> \o <<FlagByte(h.flags), 0>>
    \o (IF h.flags.window = 3 THEN <<h.exponent>> ELSE <<>>)
    \o (IF h.flags.size THEN Uleb(h.size) ELSE <<>>)
    \o (IF h.flags.dictionary THEN LE4(h.dictionary) ELSE <<>>)

(* Bound: sizes from here on are alike, longer than any input. The numbers *)
(* in a stream header are less.                                            *)
Huge == 2 ^ 28

StreamHeaders ==
  [flags : [size : BOOLEAN, checksum : BOOLEAN, dictionary : BOOLEAN, independent : BOOLEAN,
            window : 0 .. 3],
   size : 0 .. Huge - 1, exponent : 16 .. 27, dictionary : 0 .. Huge - 1]

StreamHeader(h) == Magic \o HeaderFields(h) \o <<Crc8(HeaderFields(h))>>

(* The sizes, 16 bits or an escape and 32, and the checksum of the data.   *)
RawBlock(s, last) ==
  <<8 + Bit(last, 16)>>
    \o (IF Len(s) < Escape THEN LE2(Len(s)) ELSE LE2(Escape) \o LE4(Len(s)))
    \o Uleb(Len(s)) \o Crc32c(s) \o s

EndOfStream == <<7 + 16>>

ContainerOf(h, s) ==
  StreamHeader(h) \o (IF s = <<>> THEN <<>> ELSE RawBlock(s, TRUE)) \o EndOfStream
    \o (IF h.flags.checksum THEN Digest(s) ELSE <<>>)

(* The header that compress writes: it knows the size.                     *)
KnownSize(s) ==
  [flags |-> [size |-> TRUE, checksum |-> TRUE, dictionary |-> FALSE, independent |-> FALSE,
              window |-> 1],
   size |-> Len(s), exponent |-> 20, dictionary |-> 0]

-----------------------------------------------------------------------------
NoBlock == [type |-> 0, hasChecksum |-> FALSE, csize |-> 0, usize |-> 0, crc |-> <<>>]
NoFlags == ParsedFlags(0)

InitReader ==
  /\ input = <<>> /\ at = 0 /\ mode = "decode" /\ limit = 0 /\ rpc = "idle"
  /\ covered = <<>> /\ flags = NoFlags /\ groups = 0 /\ block = NoBlock
  /\ out = <<>> /\ outcome = "none"

Prepare(bytes, how, max, next) ==
  /\ input' = bytes /\ mode' = how /\ limit' = max /\ rpc' = next
  /\ at' = 0
  /\ covered' = <<>> /\ flags' = NoFlags /\ groups' = 0 /\ block' = NoBlock
  /\ out' = <<>> /\ outcome' = "none"

Start(bytes, how, max) == Prepare(bytes, how, max, "magic")
Forget == Prepare(<<>>, "decode", 0, "idle")

(* How many bytes the next read_exact asks for.                            *)
Needs ==
  [magic |-> 4, version |-> 1, flags |-> 2, exponent |-> 1, size |-> 1, dictionary |-> 4, crc |-> 1,
   block |-> 1, csize |-> 2, extended |-> 4, usize |-> 1, blockCrc |-> 4,
   payload |-> block.csize, digest |-> 8, idle |-> 0][rpc]

Reading(what) == rpc = what /\ at + Needs <= Len(input)

Bytes == SubSeq(input, at + 1, at + Needs)

LittleEndian(s) ==
  IF \E i \in 3 .. Len(s) : s[i] # 0 THEN Huge ELSE s[1] + 256 * s[2]

End(result) == rpc' = "idle" /\ outcome' = result
Goto(next) == rpc' = next /\ UNCHANGED outcome
Advance == at' = at + Needs /\ UNCHANGED <<input, mode, limit>>

(* Mutant of EofOutcome: the end inside data is not mapped either.         *)
EofOfDataIsIo ==
  IF rpc = "block" THEN IF mode = "inspect" THEN "ok" ELSE "UnexpectedEof" ELSE "Io"

(* Where the sources map the end of the data themselves; elsewhere it is   *)
(* the Io of From<std::io::Error>.                                         *)
EofOutcome ==
  IF rpc = "block" /\ mode = "inspect" THEN "ok"
  ELSE IF rpc \in {"block", "payload", "digest"} THEN "UnexpectedEof" ELSE "Io"

Eof ==
  /\ rpc # "idle" /\ at + Needs > Len(input)
  /\ End(EofOutcome)
  /\ UNCHANGED <<input, at, mode, limit, covered, flags, groups, block, out>>

ReadMagic ==
  /\ Reading("magic")
  /\ IF Bytes = Magic THEN Goto("version") ELSE End("InvalidMagic")
  /\ Advance /\ UNCHANGED <<covered, flags, groups, block, out>>

ReadVersion ==
  /\ Reading("version")
  /\ covered' = covered \o Bytes
  /\ IF Bytes[1] \div 16 = 1 THEN Goto("flags") ELSE End("UnsupportedVersion")
  /\ Advance /\ UNCHANGED <<flags, groups, block, out>>

(* What is read after field k of the stream header, of those announced.    *)
FieldAfter(k, f) ==
  IF k < 1 /\ f.window = 3 THEN "exponent"
  ELSE IF k < 2 /\ f.size THEN "size"
  ELSE IF k < 3 /\ f.dictionary THEN "dictionary" ELSE "crc"

ReadFlags ==
  /\ Reading("flags")
  /\ covered' = covered \o Bytes
  /\ flags' = ParsedFlags(Bytes[1])
  /\ IF Bytes[1] >= 64 \/ Bytes[2] # 0 THEN End("CorruptedHeader") ELSE Goto(FieldAfter(0, flags'))
  /\ Advance /\ UNCHANGED <<groups, block, out>>

ReadExponent ==
  /\ Reading("exponent")
  /\ covered' = covered \o Bytes
  /\ IF Bytes[1] \in 16 .. 27 THEN Goto(FieldAfter(1, flags)) ELSE End("InvalidWindowSize")
  /\ Advance /\ UNCHANGED <<flags, groups, block, out>>

(* Ten groups of seven bits reach beyond 64; the value is not looked at.   *)
ReadSizeByte ==
  /\ Reading("size")
  /\ covered' = covered \o Bytes
  /\ groups' = groups + 1
  /\ IF Bytes[1] < 128 THEN Goto(FieldAfter(2, flags))
     ELSE IF 7 * groups' >= 64 THEN End("CorruptedHeader") ELSE Goto("size")
  /\ Advance /\ UNCHANGED <<flags, block, out>>

ReadDictionary ==
  /\ Reading("dictionary")
  /\ covered' = covered \o Bytes
  /\ Goto("crc")
  /\ Advance /\ UNCHANGED <<flags, groups, block, out>>

(* Mutant of HeaderSound: what the flags announce is not looked at.        *)
HeaderSoundUpToFlags == Len(covered) >= 3

HeaderSound == Crc8(covered) = Bytes[1]

ReadCrc ==
  /\ Reading("crc")
  /\ IF HeaderSound THEN Goto("block") ELSE End("HeaderChecksumMismatch")
  /\ Advance /\ UNCHANGED <<covered, flags, groups, block, out>>

-----------------------------------------------------------------------------
ReadBlockByte ==
  LET b == Bytes[1] IN
  /\ Reading("block")
  /\ block' = [NoBlock EXCEPT !.type = b % 8, !.hasChecksum = (b \div 8) % 2 = 1]
  /\ groups' = 0
  /\ IF b >= 32 THEN End("CorruptedHeader")
     ELSE IF b % 8 # 7 THEN Goto("csize")
     ELSE IF mode = "decode" /\ flags.checksum THEN Goto("digest") ELSE End("ok")
  /\ Advance /\ UNCHANGED <<covered, flags, out>>

ReadCompressedSize ==
  /\ Reading("csize")
  /\ block' = [block EXCEPT !.csize = LittleEndian(Bytes)]
  /\ Goto(IF block'.csize < Escape THEN "usize" ELSE "extended")
  /\ Advance /\ UNCHANGED <<covered, flags, groups, out>>

ReadExtendedSize ==
  /\ Reading("extended")
  /\ block' = [block EXCEPT !.csize = LittleEndian(Bytes)]
  /\ Goto("usize")
  /\ Advance /\ UNCHANGED <<covered, flags, groups, out>>

(* Mutant of TooLong: data of just the limit are refused.                  *)
TooLongOrEqual(b) == Len(out) + b.usize >= limit

TooLong(b) == Len(out) + b.usize > limit

(* The header is complete: inspect seeks, which may lead behind the end.   *)
HeaderRead(b, pos) ==
  IF mode = "inspect" THEN at' = pos + b.csize /\ Goto("block")
  ELSE at' = pos /\ IF TooLong(b) THEN End("DecompressionBombDetected")
                    ELSE Goto("payload")

(* Of the fifth group, four bits are left in the u32.                      *)
GroupValue ==
  IF groups = 4 THEN IF Bytes[1] % 16 = 0 THEN 0 ELSE Huge
  ELSE (Bytes[1] % 128) * 128 ^ groups

ReadUncompressedSize ==
  /\ Reading("usize")
  /\ block' = [block EXCEPT !.usize = @ + GroupValue]
  /\ groups' = groups + 1
  /\ IF Bytes[1] >= 128
       THEN at' = at + 1 /\ IF 7 * groups' >= 32 THEN End("CorruptedHeader") ELSE Goto("usize")
     ELSE IF block.hasChecksum THEN at' = at + 1 /\ Goto("blockCrc")
     ELSE HeaderRead(block', at + 1)
  /\ UNCHANGED <<input, mode, limit, covered, flags, out>>

ReadBlockCrc ==
  /\ Reading("blockCrc")
  /\ block' = [block EXCEPT !.crc = Bytes]
  /\ HeaderRead(block', at + 4)
  /\ UNCHANGED <<input, mode, limit, covered, flags, groups, out>>

(* What a payload may decode to; of other codecs than RAW, also nothing.   *)
Decodings ==
  IF block.type = 0 THEN IF block.csize = block.usize THEN {Bytes} ELSE {}
  ELSE IF block.type = 6 THEN {} ELSE {s \in Decoded : Len(s) = block.usize}

(* RAW, the reserved type, the prefilters and the other codecs.            *)
CodecErrors ==
  IF block.type = 0 THEN {"CorruptedHeader"}
  ELSE IF block.type = 6 THEN {"UnsupportedBlockType"}
  ELSE IF block.type = 5 THEN {"CorruptedPrefilterData", "UnsupportedPrefilter", "UnknownDictionary"}
  ELSE {"CorruptedEntropyStream", "InvalidOffset", "UnexpectedEof"}

ReadPayload ==
  /\ Reading("payload")
  /\ \/ \E s \in Decodings :
          IF block.hasChecksum /\ Crc32c(s) # block.crc
            THEN End("BlockChecksumMismatch") /\ UNCHANGED out
            ELSE out' = out \o s /\ Goto("block")
     \/ /\ block.type # 0 \/ Decodings = {}
        /\ \E e \in CodecErrors : End(e)
        /\ UNCHANGED out
  /\ Advance /\ UNCHANGED <<covered, flags, groups, block>>

ReadDigest ==
  /\ Reading("digest")
  /\ End(IF Bytes = Digest(out) THEN "ok" ELSE "StreamChecksumMismatch")
  /\ Advance /\ UNCHANGED <<covered, flags, groups, block, out>>

ReadStep ==
  \/ Eof \/ ReadMagic \/ ReadVersion \/ ReadFlags \/ ReadExponent \/ ReadSizeByte
  \/ ReadDictionary \/ ReadCrc \/ ReadBlockByte \/ ReadCompressedSize \/ ReadExtendedSize
  \/ ReadUncompressedSize \/ ReadBlockCrc \/ ReadPayload \/ ReadDigest
=============================================================================
