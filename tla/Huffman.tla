------------------------------- MODULE Huffman --------------------------------
(***************************************************************************)
(* The pieces of libcodrop/src/entropy/huffman.rs: the tree as a heap of   *)
(* subtrees, the limit on code lengths, canonical codes and the two-level  *)
(* table of the decoder. Operators only; EntropyCoding runs them.          *)
(***************************************************************************)
EXTENDS BitStrings

CONSTANTS
  NumSymbols,    \* size of the alphabet: 286 or 32 in the code
  MaxBits,       \* MAX_HUFFMAN_BITS: 15
  PrimaryBits    \* PRIMARY_BITS: 10

ASSUME HuffmanAssumption ==
  /\ NumSymbols \in Nat \ {0} /\ MaxBits \in Nat /\ PrimaryBits \in 1 .. MaxBits
  /\ NumSymbols <= Pow2[MaxBits]

Symbols == 0 .. NumSymbols - 1

-----------------------------------------------------------------------------
(* A node of the tree: its frequency, its place in the arena, and the      *)
(* symbols below it in place of its children.                              *)
Leaves(counts) ==
  {[freq |-> counts[s],
    idx |-> Cardinality({r \in Symbols : r < s /\ counts[r] > 0}),
    symbols |-> {s}] : s \in {r \in Symbols : counts[r] > 0}}

(* Mutant of PopsBefore: the heap gives the largest frequency first.       *)
PopsLargest(a, b) == a.freq > b.freq \/ (a.freq = b.freq /\ a.idx < b.idx)

(* Frequencies first, older nodes before newer ones.                       *)
PopsBefore(a, b) == a.freq < b.freq \/ (a.freq = b.freq /\ a.idx < b.idx)

IsFirst(a, heap) == \A b \in heap \ {a} : PopsBefore(a, b)

(* The parent of two popped nodes; the arena holds every node ever made.   *)
Parent(a, b, arenaLen) ==
  [freq |-> a.freq + b.freq, idx |-> arenaLen, symbols |-> a.symbols \cup b.symbols]

-----------------------------------------------------------------------------
UsedIn(lengths) == {s \in Symbols : lengths[s] > 0}

(* The Kraft sum, in units of the longest code.                            *)
Kraft(lengths) == SumFunction([s \in UsedIn(lengths) |-> Pow2[MaxBits - lengths[s]]])

Clamped(lengths) ==
  [s \in Symbols |-> IF lengths[s] > MaxBits THEN MaxBits ELSE lengths[s]]

(* Mutant of Oversubscribed: a full tree or more is let through.           *)
OversubscribedTwice(lengths) == Kraft(lengths) > Pow2[MaxBits] + 1

Oversubscribed(lengths) == Kraft(lengths) > Pow2[MaxBits]

(* The symbol limit_code_lengths lengthens: the first of those whose code  *)
(* is the longest below the limit.                                         *)
Lengthened(lengths) ==
  LET short == {s \in UsedIn(lengths) : lengths[s] < MaxBits} IN
  CHOOSE s \in short : \A r \in short :
    lengths[s] > lengths[r] \/ (lengths[s] = lengths[r] /\ s <= r)

-----------------------------------------------------------------------------
OfLength(lengths, l) == {s \in UsedIn(lengths) : lengths[s] = l}

(* next_code: the first canonical code of each length.                     *)
FirstCode(lengths) ==
  LET first[l \in 0 .. MaxBits] ==
        IF l = 0 THEN 0 ELSE 2 * (first[l - 1] + Cardinality(OfLength(lengths, l - 1)))
  IN first

Canonical(lengths, s) ==
  FirstCode(lengths)[lengths[s]]
    + Cardinality({r \in OfLength(lengths, lengths[s]) : r < s})

(* A code is written from its most significant bit.                        *)
ReverseBits(code, len) == Value([i \in 1 .. len |-> Bits(code, len)[len + 1 - i]])

Code(lengths, s) == ReverseBits(Canonical(lengths, s), lengths[s])

-----------------------------------------------------------------------------
(* The decoder's table: the short codes that end every index of the first  *)
(* level, and the long ones behind an index that they share.               *)
Primary(lengths, idx) ==
  {s \in UsedIn(lengths) :
     lengths[s] <= PrimaryBits /\ idx % Pow2[lengths[s]] = Code(lengths, s)}

Secondary(lengths, idx, extra) ==
  {s \in UsedIn(lengths) :
     /\ lengths[s] > PrimaryBits
     /\ Code(lengths, s) % Pow2[PrimaryBits] = idx
     /\ extra % Pow2[lengths[s] - PrimaryBits] = Code(lengths, s) \div Pow2[PrimaryBits]}

(* What decode_symbol finds for the next MaxBits bits; {} is an error.     *)
Lookup(lengths, window) ==
  LET idx == window % Pow2[PrimaryBits] IN
  Primary(lengths, idx) \cup Secondary(lengths, idx, window \div Pow2[PrimaryBits])
=============================================================================
