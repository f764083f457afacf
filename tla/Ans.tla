--------------------------------- MODULE Ans ----------------------------------
(***************************************************************************)
(* The pieces of libcodrop/src/entropy/ans.rs: the normalisation of        *)
(* frequencies to the size of the table and the step of the coder from one *)
(* state to the next in either direction. Operators only; EntropyCoding    *)
(* runs them. Slots of the table are 0-based, state i + TableSize is in    *)
(* slot i.                                                                 *)
(***************************************************************************)
EXTENDS BitStrings

CONSTANTS
  AlphabetSize,  \* ANS_ALPHABET_SIZE: 318
  TableLog       \* ANS_TABLE_LOG: 10

(* Below 16 slots the step would be even and the spread never end; a table *)
(* of 1024 has a slot for each of 318 symbols.                             *)
ASSUME AnsAssumption ==
  /\ AlphabetSize \in Nat \ {0} /\ TableLog \in Nat /\ TableLog >= 4
  /\ AlphabetSize <= Pow2[TableLog]

AnsSymbols == 0 .. AlphabetSize - 1
TableSize == Pow2[TableLog]
Free == AlphabetSize               \* u16::MAX in a table that is being filled
States == TableSize .. 2 * TableSize - 1

(* Mutant of Step: without the odd summand.                                *)
StepEven == TableSize \div 2 + TableSize \div 8

Step == TableSize \div 2 + TableSize \div 8 + 3

Total(counts) == SumFunctionOnSet(counts, AnsSymbols)
Counted(counts) == {s \in AnsSymbols : counts[s] > 0}

-----------------------------------------------------------------------------
(* Mutant of Share: a rare symbol may be left without a slot.              *)
ShareOrNone(count, total) == (count * TableSize + total \div 2) \div total

(* A symbol's share of the table, rounded, and at least one slot.          *)
Share(count, total) ==
  LET share == (count * TableSize + total \div 2) \div total IN
  IF share = 0 THEN 1 ELSE share

(* The only symbol there is gets the whole table.                          *)
Rounded(counts) ==
  [s \in AnsSymbols |->
     IF counts[s] = 0 THEN 0
     ELSE IF Counted(counts) = {s} THEN TableSize
     ELSE Share(counts[s], Total(counts))]

(* The first of the symbols with the most slots gives one back, ...        *)
Richest(norm) ==
  CHOOSE s \in AnsSymbols : \A r \in AnsSymbols :
    norm[s] > norm[r] \/ (norm[s] = norm[r] /\ s <= r)

(* ... or the first of those that are short of the most gets one more.     *)
Neediest(counts, norm) ==
  LET short(s) == counts[s] * TableSize - norm[s] * Total(counts) IN
  CHOOSE s \in Counted(counts) : \A r \in Counted(counts) :
    short(s) > short(r) \/ (short(s) = short(r) /\ s <= r)

-----------------------------------------------------------------------------
FloorLog2(n) == CHOOSE k \in 0 .. TableLog : Pow2[k] <= n /\ n < Pow2[k + 1]

(* The slots of s before i, and the j-th slot of s.                        *)
Occurrence(slots, i) == Cardinality({k \in 0 .. i - 1 : slots[k] = slots[i]})
NextState(slots, s, j) ==
  TableSize + CHOOSE i \in 0 .. TableSize - 1 : slots[i] = s /\ Occurrence(slots, i) = j

(* One entry of the decoder's table: the symbol of a state, the number of  *)
(* bits to read and what to add them to.                                   *)
DecodeEntry(slots, norm, state) ==
  LET i == state - TableSize
      sub == norm[slots[i]] + Occurrence(slots, i)
      bits == TableLog - FloorLog2(sub)
  IN [symbol |-> slots[i], bits |-> bits, base |-> sub * Pow2[bits]]

(* Mutant of EncodeBits: > in place of >= at the threshold.                *)
EncodeBitsAbove(norm, s, state) ==
  LET k == FloorLog2(norm[s]) IN
  IF state > norm[s] * Pow2[TableLog - k] THEN TableLog - k ELSE TableLog - k - 1

(* How many bits of the state are emitted before symbol s.                 *)
EncodeBits(norm, s, state) ==
  LET k == FloorLog2(norm[s]) IN
  IF state >= norm[s] * Pow2[TableLog - k] THEN TableLog - k ELSE TableLog - k - 1
=============================================================================
