----------------------------- MODULE BlockChoice -----------------------------
(***************************************************************************)
(* Which candidate encoding of a block the encoder emits. A candidate is   *)
(* known by its size alone: size[c] bytes, for a block of len bytes that   *)
(* RAW stores as it is. LZA answers an empty payload, and the prefilters   *)
(* None, when they have no encoding to offer: both have size 0 here.       *)
(***************************************************************************)
EXTENDS Integers

Levels == {"Fast", "Balanced", "Compact", "Auto"}

(* PreLzh and PreLza are the prefilter with LZH and LZA behind it.         *)
Candidates == {"Rle", "Lzf", "Lzh", "Lza", "PreLzh", "PreLza"}
Optional == {"Lza", "PreLzh", "PreLza"}

TypeOf(c) == IF c \in {"PreLzh", "PreLza"} THEN "TextPrefilter" ELSE c

(* The candidates a level encodes and compares.                            *)
Evaluated(level) ==
  CASE level = "Fast"     -> {"Rle", "Lzf"}
    [] level = "Balanced" -> {"Rle", "Lzf", "Lzh", "PreLzh"}
    [] OTHER              -> Candidates

SizeOf(c, len, size) == IF c = "Raw" THEN len ELSE size[c]

Offered(c, size) == c \in Optional => size[c] > 0

(* Mutant of Better: a tie goes to the later candidate.                    *)
BetterOrEqual(best, c, len, size) ==
  IF Offered(c, size) /\ size[c] <= SizeOf(best, len, size) THEN c ELSE best

(* One comparison of the cascade: c replaces best only when it is smaller. *)
Better(best, c, len, size) ==
  IF Offered(c, size) /\ size[c] < SizeOf(best, len, size) THEN c ELSE best

FastChoice(len, size) ==
  IF size["Lzf"] < len /\ size["Lzf"] <= size["Rle"] THEN "Lzf"
  ELSE IF size["Rle"] < len THEN "Rle"
  ELSE "Raw"

BalancedChoice(len, size) ==
  LET rle == Better("Raw", "Rle", len, size)
      lzf == Better(rle, "Lzf", len, size)
      lzh == Better(lzf, "Lzh", len, size)
  IN  Better(lzh, "PreLzh", len, size)

CompactChoice(len, size) ==
  LET rle == Better("Raw", "Rle", len, size)
      lzf == Better(rle, "Lzf", len, size)
      lzh == Better(lzf, "Lzh", len, size)
      lza == Better(lzh, "Lza", len, size)
      pre == Better(lza, "PreLza", len, size)
  IN  Better(pre, "PreLzh", len, size)

Choice(level, len, size) ==
  CASE level = "Fast"     -> FastChoice(len, size)
    [] level = "Balanced" -> BalancedChoice(len, size)
    [] OTHER              -> CompactChoice(len, size)

(* The choice is the smallest of what the level evaluated, and RAW as soon *)
(* as nothing is strictly smaller than the block itself.                   *)
IsBestChoice(c, level, len, size) ==
  /\ c \in Evaluated(level) \cup {"Raw"}
  /\ c # "Raw" => SizeOf(c, len, size) < len
  /\ \A d \in Evaluated(level) :
       Offered(d, size) => SizeOf(c, len, size) <= size[d]
=============================================================================
