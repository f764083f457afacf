--------------------------- MODULE MCStreamDecoder ---------------------------
(* StreamDecoder for TLC, on wires that a faulty or careless encoder could *)
(* have written: at most two blocks whose declared size, payload and       *)
(* checksum need not agree, then the sentinel and any checksum, part of    *)
(* it, or nothing. The limit is below what two full blocks decode to.      *)
EXTENDS StreamDecoder

Datas == {<<>>, <<1>>, <<1, 2>>}

Blocks ==
  {<<BlockCell("Lzf", last, 1, n, c), PayloadCell(d)>> :
     last \in {FALSE}, n \in 0 .. 2, c \in Datas \cup {Absent}, d \in Datas}

Bodies == {<<>>} \cup Blocks \cup {b \o c : b, c \in Blocks}

Endings ==
  {<<>>, <<TornCell>>, <<EndCell>>, <<EndCell, TornCell>>}
    \cup {<<EndCell, HashCell(d)>> : d \in Datas \cup {<<1, 1>>}}
    \cup {<<PayloadCell(<<1>>), EndCell>>}
    \cup {<<EndCell, BlockCell("Raw", FALSE, 1, 1, Absent), PayloadCell(<<1>>)>>}

Wires ==
  {<<HeaderCell(c)>> \o b \o e : c \in BOOLEAN, b \in Bodies, e \in Endings}
    \cup {<<>>, <<TornCell>>, <<EndCell>>}

MCInit ==
  /\ wire \in Wires
  /\ cut = Absent
  /\ damaged = {}
  /\ sourceClosed = TRUE
  /\ Init

MCNext ==
  \/ Next /\ UNCHANGED source
  \/ Stopped /\ UNCHANGED <<vars, source>>
=============================================================================
