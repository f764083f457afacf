------------------------------ MODULE MCLzfCodec ------------------------------
(* LzfCodec for TLC, with two-valued nibbles: a length of one literal or   *)
(* four match bytes already has an extension byte, one of four or seven a  *)
(* second one, and a match fifteen bytes back is the farthest.             *)
EXTENDS LzfCodec

Strings(S, n) == UNION {[1 .. k -> S] : k \in 0 .. n}

(* Everything short, and quadruples that occur again at a distance of 12   *)
(* to 17, before and after the farthest offset.                            *)
MCInputs ==
  Strings({0, 1}, 10)
    \cup {q \o [i \in 1 .. n |-> 2] \o q : q \in [1 .. 4 -> {0, 1}], n \in 8 .. 13}

MCPayloads == Strings(Byte, 6)

(* Two slots: quadruples that differ, even in their first bytes, collide.  *)
MCHash == [q \in [1 .. 4 -> Byte] |-> (q[1] + q[2] + q[4]) % 2]
=============================================================================
