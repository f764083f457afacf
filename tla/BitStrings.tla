------------------------------ MODULE BitStrings ------------------------------
(***************************************************************************)
(* Numbers as bits: libcodrop/src/entropy/bitstream.rs writes and reads    *)
(* them with the least significant bit first. The words that hold bits     *)
(* which are not yet whole bytes are left out.                             *)
(***************************************************************************)
EXTENDS Integers, Sequences, FiniteSets, FiniteSetsExt

(* 1 << n.                                                                 *)
Pow2[n \in Nat] == IF n = 0 THEN 1 ELSE 2 * Pow2[n - 1]

(* The number written by `count` bits, the least significant first.        *)
Bits(value, count) == [i \in 1 .. count |-> (value \div Pow2[i - 1]) % 2]

Value(bits) == SumFunction([i \in DOMAIN bits |-> bits[i] * Pow2[i - 1]])
=============================================================================
