------------------------------ MODULE StreamHash ------------------------------
(***************************************************************************)
(* StreamHash64 of libcodrop/src/checksum/xxh3.rs, the hasher behind the   *)
(* stream checksum. The encoder feeds it the slices of its caller and the  *)
(* decoder feeds it blocks, so that the two ends agree only if the digest  *)
(* does not depend on how the bytes were cut.                              *)
(*                                                                         *)
(* The 64-bit state is the sequence of words mixed into it: the mixing is  *)
(* a function of the state and the word, so equal sequences give equal     *)
(* states. A word has WordSize bytes (8 in the code).                      *)
(***************************************************************************)
EXTENDS Integers, Sequences

CONSTANTS
  HashByte,    \* the values of a byte
  Zero,        \* the byte that new() fills the buffer with
  WordSize,    \* the bytes mixed at once
  MaxLength    \* bound: the bytes given to one hasher

ASSUME WordAssumption == WordSize \in Nat \ {0} /\ Zero \in HashByte
ASSUME LengthAssumption == MaxLength \in Nat

VARIABLES
  words,      \* self.state, as the words mixed into it
  totalLen,   \* self.total_len
  buf,        \* self.buf, with what earlier words left in it
  bufLen,     \* self.buf_len
  rest,       \* what the running update has not yet consumed of its data
  hpc,        \* where the running update is; "idle" between calls
  fed         \* everything that update was given, in order

hashVars == <<words, totalLen, buf, bufLen, rest, hpc, fed>>

HashInit ==
  /\ words = <<>>
  /\ totalLen = 0
  /\ buf = [i \in 1 .. WordSize |-> Zero]
  /\ bufLen = 0
  /\ rest = <<>>
  /\ hpc = "idle"
  /\ fed = <<>>

Update(slice) ==
  /\ hpc = "idle"
  /\ totalLen' = totalLen + Len(slice)
  /\ rest' = slice
  /\ hpc' = IF bufLen > 0 THEN "fill" ELSE "words"
  /\ fed' = fed \o slice
  /\ UNCHANGED <<words, buf, bufLen>>

From(s, n) == SubSeq(s, n + 1, Len(s))

(* buf[offset..][..n] copied from s[..n].                                  *)
Stored(offset, s, n) ==
  [i \in 1 .. WordSize |-> IF i \in offset + 1 .. offset + n THEN s[i - offset] ELSE buf[i]]

(* Mutant of IsWord: a full buffer still counts as a leftover.             *)
IsMoreThanWord(n) == n > WordSize

IsWord(n) == n = WordSize

(* Leftover bytes come first, and make a word once there are enough.       *)
FillBuffer ==
  LET needed == WordSize - bufLen
      copied == IF Len(rest) < needed THEN Len(rest) ELSE needed
  IN
  /\ hpc = "fill"
  /\ buf' = Stored(bufLen, rest, copied)
  /\ rest' = From(rest, copied)
  /\ IF IsWord(bufLen + copied)
       THEN words' = Append(words, buf') /\ bufLen' = 0
       ELSE bufLen' = bufLen + copied /\ UNCHANGED words
  /\ hpc' = "words"
  /\ UNCHANGED <<totalLen, fed>>

MixWord ==
  /\ hpc = "words"
  /\ Len(rest) >= WordSize
  /\ words' = Append(words, SubSeq(rest, 1, WordSize))
  /\ rest' = From(rest, WordSize)
  /\ UNCHANGED <<totalLen, buf, bufLen, hpc, fed>>

(* Mutant of HasTail: an empty tail is stored as well.                     *)
AlwaysTail == TRUE

HasTail == rest # <<>>

(* An empty tail leaves the buffer alone: it may hold bytes of this word.  *)
StoreTail ==
  /\ hpc = "words"
  /\ Len(rest) < WordSize
  /\ IF HasTail
       THEN buf' = Stored(0, rest, Len(rest)) /\ bufLen' = Len(rest)
       ELSE UNCHANGED <<buf, bufLen>>
  /\ rest' = <<>>
  /\ hpc' = "idle"
  /\ UNCHANGED <<words, totalLen, fed>>

HashNext ==
  \/ \E n \in 0 .. MaxLength - Len(fed) : \E slice \in [1 .. n -> HashByte] : Update(slice)
  \/ FillBuffer
  \/ MixWord
  \/ StoreTail

HashSpec == HashInit /\ [][HashNext]_hashVars

(* finalize mixes the buffered bytes one by one and then the length.       *)
Finalized == [words |-> words, tail |-> SubSeq(buf, 1, bufLen), length |-> totalLen]

-----------------------------------------------------------------------------
(* Types: every variable keeps its type; the buffer never stays full, so   *)
(* that `8 - self.buf_len` is never zero when it is used.                  *)
HashTypeOK ==
  /\ words \in Seq(Seq(HashByte))
  /\ totalLen \in Nat
  /\ buf \in [1 .. WordSize -> HashByte]
  /\ bufLen \in 0 .. WordSize - 1
  /\ rest \in Seq(HashByte)
  /\ hpc \in {"idle", "fill", "words"}
  /\ fed \in Seq(HashByte)

(* The digest of s by definition: whole words, the bytes left, the length. *)
DigestOf(s) ==
  LET n == Len(s) \div WordSize IN
  [words  |-> [j \in 1 .. n |-> SubSeq(s, (j - 1) * WordSize + 1, j * WordSize)],
   tail   |-> From(s, n * WordSize),
   length |-> Len(s)]

(* Between calls the hasher answers the digest of all it was given,        *)
(* however that was cut: no byte of a leftover is dropped or mixed twice,  *)
(* and none of the buffer's earlier contents is mixed in.                  *)
DigestIsChunkInvariant == hpc = "idle" => Finalized = DigestOf(fed)
=============================================================================
