---------------------------- MODULE MCCodropPipe -----------------------------
(* CodropPipe for TLC: blocks of two bytes, with an input of two full      *)
(* blocks and a short one.                                                 *)
EXTENDS CodropPipe

MCInput == <<1, 2, 3, 4, 5>>

MCSizes == {[c \in {"Rle", "Lzf", "Lzh", "Lza", "PreLzh", "PreLza"} |-> 1]}
=============================================================================
