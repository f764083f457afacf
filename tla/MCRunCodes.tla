------------------------------ MODULE MCRunCodes ------------------------------
(* RunCodes for TLC, with bytes of eight values: a run of eight lengths or *)
(* zeros needs a second token, one of four equal bytes a second byte of    *)
(* its length and one of sixteen a third, a frequency of four a second     *)
(* byte. A table of eight literals has its size in the header's second.    *)
EXTENDS RunCodes

Strings(S, n) == UNION {[1 .. k -> S] : k \in 0 .. n}

Runs(v, n) == [i \in 1 .. n |-> v]

(* Everything short, and a run up to the third byte of its length with     *)
(* others before and behind it.                                            *)
MCBlocks ==
  Strings(0 .. 1, 6) \cup {Runs(0, a) \o Runs(1, n) \o Runs(5, b) : a, b \in {0, 3}, n \in 1 .. 18}

MCLitTables ==
  [1 .. LitLens -> {0, 1}]
    \cup {[i \in 1 .. LitLens |-> IF i < 4 THEN t[i] ELSE t[4]] : t \in [1 .. 4 -> {0, 2, 3}]}
MCDistTables == [1 .. Dists -> {0, 1}]

(* The frequencies of at most two symbols.                                 *)
MCNorms ==
  {f \in {[i \in 1 .. AlphabetSize |-> IF i = a THEN n ELSE IF i = b THEN TableSize - n ELSE 0] :
            a, b \in 1 .. AlphabetSize, n \in 0 .. TableSize} : SumOf(f) = TableSize}

MCTails == {<<>>, <<0>>, <<7, 1>>}

(* All of three bytes, and longer ones of the bytes that matter.           *)
MCPayloads == Strings(Byte, 3) \cup [1 .. 5 -> {0, 1, 4, 7}] \cup [1 .. 7 -> {1, 7}]
=============================================================================
