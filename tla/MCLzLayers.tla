------------------------------ MODULE MCLzLayers ------------------------------
(* The two layers of an LZH or LZA payload for TLC: EntropyCoding, and     *)
(* LzSymbols. They share no state: in each behaviour one of them has a     *)
(* call to do, and the other is over with a call.                          *)
(*                                                                         *)
(* Symbols: five, with codes of at most three bits and a table of sixteen  *)
(* slots. Messages: everything up to three symbols, and runs whose         *)
(* frequencies make trees too deep for three bits or take more than the    *)
(* whole table when rounded.                                               *)
(*                                                                         *)
(* Data: everything short over two bytes; runs and periodic data on both   *)
(* sides of class boundaries and of the longest match; quadruples that     *)
(* recur around the farthest offset; matches of 30 to 34 bytes one byte    *)
(* ahead of a longer one, around the lazy limit.                           *)
EXTENDS LzSymbols, EntropyCoding

Strings(S, n) == UNION {[1 .. k -> S] : k \in 0 .. n}

Run(v, n) == [i \in 1 .. n |-> v]

Periodic(n, p) == [i \in 1 .. n |-> IF i % p = 0 THEN 1 ELSE 0]

MCInputs ==
  Strings({0, 1}, 9)
    \cup {Periodic(n, p) : n \in (11 .. 20) \cup (33 .. 38) \cup (257 .. 270), p \in {1, 7, 33}}
    \cup {q \o Run(2, n) \o q \o <<0>> : q \in [1 .. 4 -> {0, 1}], n \in 34 .. 37}
    \cup {<<1>> \o Run(0, m - 1) \o <<2>> \o Run(0, m + 3) \o <<2, 1>> \o Run(0, m + 3) :
            m \in 30 .. 34}

Sized(k, v, x) == [kind |-> k, value |-> v, extra |-> x]

MCSymbols ==
  {Literal(0), Literal(1), Bare("eob"), Bare("invalid"), Bare("torn")}
    \cup {Sized("length", 1, 0), Sized("length", 2, 0), Sized("length", 29, 65535)}
    \cup {Sized("distance", 1, 0), Sized("distance", 3, 0), Sized("distance", 5, 1)}

MCPayloads == Strings(MCSymbols, 3)

MCPaddings ==
  [symbol : {Literal(0), Bare("eob"), Sized("length", 1, 0), Bare("torn")},
   distance : {Sized("distance", 1, 0), Bare("torn")}]

(* Five slots: quadruples that differ in any byte may collide.             *)
MCHash == [q \in [1 .. 4 -> Byte] |-> (q[1] + 2 * q[2] + 3 * q[3]) % 5]

-----------------------------------------------------------------------------
Frequent(f) == Run(0, f[1]) \o Run(1, f[2]) \o Run(2, f[3]) \o Run(4, f[4])

MCMessages ==
  UNION {[1 .. k -> Symbols \ {Eob}] : k \in 0 .. 3}
    \cup {Frequent(f) : f \in [1 .. 4 -> {0, 1, 3, 5}]
            \cup {<<1, 2, 3, 5>>, <<1, 1, 1, 20>>, <<1, 0, 2, 40>>, <<0, 1, 2, 4>>}}

MCBits == [1 .. 4 -> {0, 1}] \cup [1 .. 7 -> {0, 1}]

MCLengths == [Symbols -> 0 .. 2]
               \cup {[s \in Symbols |-> IF s = Eob THEN l ELSE 3] : l \in 0 .. 3}

Freqs(f) == [s \in Symbols |-> f[s + 1]]

MCNorms ==
  {Freqs(<<16, 0, 0, 0, 0>>), Freqs(<<0, 0, 0, 16, 0>>), Freqs(<<1, 2, 3, 4, 6>>),
   Freqs(<<0, 15, 0, 1, 0>>), Freqs(<<1, 2, 3, 4, 5>>), Freqs(<<16, 0, 0, 1, 0>>)}

-----------------------------------------------------------------------------
(* What calls leave behind that had nothing to encode, and descriptors     *)
(* without a code to decode by.                                            *)
LzOver ==
  /\ pc = "done" /\ codec = "LZH" /\ data = <<>> /\ ip = 0 /\ table = [h \in Slot |-> 0]
  /\ symbols = <<>> /\ padding = NoPadding /\ expected = 0
  /\ cursor = 0 /\ length = 0 /\ decoded = <<>> /\ result = "ok"

EntropyOver ==
  /\ phase = "done" /\ coder = "huffman" /\ heap = {} /\ lengths = None /\ norm = None
  /\ slots = [i \in 0 .. TableSize - 1 |-> Free] /\ pos = 0 /\ state = TableSize
  /\ message = <<>> /\ written = 0 /\ bits = <<0, 0, 0, 0>> /\ whole = TRUE /\ expectedLen = 1
  /\ read = 0 /\ delivered = <<>> /\ outcome = "CorruptedEntropyStream"

LayersInit == (Init /\ EntropyOver) \/ (EntropyInit /\ LzOver)

LayersNext == (Next /\ UNCHANGED entropyVars) \/ (EntropyNext /\ UNCHANGED vars)

LayersSpec ==
  /\ LayersInit /\ [][LayersNext]_<<vars, entropyVars>>
  /\ WF_vars((Encode \/ Decode) /\ UNCHANGED entropyVars)
  /\ WF_entropyVars((Build \/ Write \/ DecodeStep) /\ UNCHANGED vars)
=============================================================================
