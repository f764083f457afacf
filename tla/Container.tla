------------------------------ MODULE Container ------------------------------
(***************************************************************************)
(* The .cdp container as the encoder writes it and the decoder reads it: a *)
(* sequence of cells, one per unit that is written and read as a whole.    *)
(* A payload cell carries the bytes its block decodes to (the codecs are   *)
(* modules of their own), and a checksum is the data it was computed over, *)
(* so that two checksums are equal exactly when the data are.              *)
(***************************************************************************)
EXTENDS Integers, Sequences

CONSTANTS
  Byte,    \* the values a byte of the stream can take
  Absent   \* Option::None: no checksum, no limit, no candidate, no block

ASSUME AbsentAssumption == Absent \notin Nat /\ Absent \notin Seq(Byte)

(* The block types the encoder emits; the decoder knows one more, the      *)
(* reserved type 6, which it refuses.                                      *)
BlockTypes == {"Raw", "Rle", "Lzf", "Lzh", "Lza", "TextPrefilter"}

HeaderCell(hasStreamChecksum) ==
  [kind |-> "header", hasStreamChecksum |-> hasStreamChecksum]

BlockCell(type, last, csize, usize, crc) ==
  [kind |-> "block", type |-> type, last |-> last,
   csize |-> csize, usize |-> usize, crc |-> crc]

PayloadCell(data) == [kind |-> "payload", data |-> data]

EndCell == [kind |-> "eos"]

HashCell(digest) == [kind |-> "hash", digest |-> digest]

(* What is left on the wire of a cell whose write failed half way.         *)
TornCell == [kind |-> "torn"]

BlockHeaders ==
  [kind : {"block"}, type : BlockTypes, last : BOOLEAN,
   csize : Nat, usize : Nat, crc : Seq(Byte) \cup {Absent}]

Cells ==
  [kind : {"header"}, hasStreamChecksum : BOOLEAN] \cup BlockHeaders
    \cup [kind : {"payload"}, data : Seq(Byte)]
    \cup [kind : {"hash"}, digest : Seq(Byte)]
    \cup {EndCell, TornCell}
=============================================================================
