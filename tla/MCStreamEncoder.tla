--------------------------- MODULE MCStreamEncoder ---------------------------
(* StreamEncoder for TLC: five distinct bytes in blocks of two, so that    *)
(* slices straddle blocks and the last block is short, and every level     *)
(* over candidates below, at and above the size of a block.                *)
EXTENDS StreamEncoder

MCInput == <<1, 2, 3, 4, 5>>

MCSizes ==
  {size \in [Candidates -> 0 .. 3] : \A c \in Candidates \ Optional : size[c] > 0}

(* Sizes of which one beats RAW, for the runs that are not about them.     *)
OneSize == {[c \in Candidates |-> 1]}
=============================================================================
