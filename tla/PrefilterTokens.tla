---------------------------- MODULE PrefilterTokens ----------------------------
(***************************************************************************)
(* What the prefilters find in a block (prefilter/json.rs, text.rs,        *)
(* dict.rs): whether it is JSON or text, the tokens worth a place in a     *)
(* dictionary of its own, and the byte that escapes references to them.    *)
(*                                                                         *)
(* Of bytes only their classes are told apart, without those of UTF-8 and  *)
(* the form feed, which only is_json skips. A byte is 0 .. LiteralTag,      *)
(* of which LiteralTag (0xFF in the code) stands for what is not UTF-8.    *)
(***************************************************************************)
EXTENDS Integers, Sequences, FiniteSets, FiniteSetsExt

CONSTANTS
  LiteralTag,      \* ESC_LITERAL_TAG, the largest byte
  Blanks,          \* space and tab
  Whitespace,      \* these and the ends of lines
  Control,         \* what else is not printable
  Quote, Backslash, Colon, Comma,
  OpenBrace, CloseBrace, OpenBracket, CloseBracket,
  SampleSize,      \* how much of a block is_text looks at
  MaxJsonToken,    \* the longest token of extract_json_keys
  MaxTokenLen,     \* MAX_TOKEN_LEN of words and of a stored table
  MaxDynamicTokens \* MAX_DYNAMIC_TOKENS

Octet == 0 .. LiteralTag
MaxDictTokens == LiteralTag - 1
Nul == 0

ASSUME ClassesAssumption ==
  /\ LiteralTag \in Nat \ {0, 1}
  /\ Blanks \subseteq Whitespace /\ Whitespace \cup Control \subseteq Octet
  /\ {Quote, Backslash, Colon, Comma, OpenBrace, CloseBrace, OpenBracket, CloseBracket}
       \subseteq Octet \ (Whitespace \cup Control \cup {Nul, LiteralTag})
ASSUME LimitsAssumption ==
  /\ SampleSize \in Nat \ {0}
  /\ {MaxJsonToken, MaxTokenLen} \subseteq 4 .. LiteralTag
  /\ MaxDynamicTokens \in 1 .. LiteralTag

Count(s, S) == Cardinality({i \in DOMAIN s : s[i] \in S})

IsUtf8(s) == Count(s, {LiteralTag}) = 0

(* trim_ascii_whitespace                                                   *)
Trimmed(s) ==
  LET ink == {i \in DOMAIN s : s[i] \notin Whitespace}
  IN IF ink = {} THEN <<>> ELSE SubSeq(s, Min(ink), Max(ink))

Opens == {OpenBrace, OpenBracket}
Closes == {CloseBrace, CloseBracket}

(* Brackets are counted, inside of strings too; which closes which is not  *)
(* looked at.                                                              *)
IsBalanced(s) ==
  LET depth(i) == Count(SubSeq(s, 1, i), Opens) - Count(SubSeq(s, 1, i), Closes)
  IN depth(Len(s)) = 0 /\ \A i \in 1 .. Len(s) : depth(i) >= 0

IsJson(src) ==
  LET s == Trimmed(src)
      interior == Trimmed(SubSeq(s, 2, Len(s) - 1))
  IN
  /\ Len(s) >= 2
  /\ \/ /\ s[1] = OpenBrace /\ s[Len(s)] = CloseBrace
        /\ interior # <<>> => Count(s, {Quote}) >= 2 /\ Count(s, {Colon}) > 0
     \/ /\ s[1] = OpenBracket /\ s[Len(s)] = CloseBracket
        /\ Len(interior) > 2 => Count(s, {Comma, Quote, Colon}) > 0
  /\ IsBalanced(s)
  /\ IsUtf8(s)

IsText(src) ==
  LET sample == SubSeq(src, 1, IF Len(src) > SampleSize THEN SampleSize ELSE Len(src)) IN
  /\ sample # <<>>
  /\ Count(sample, {Nul}) = 0
  /\ 100 * Count(sample, Octet \ Control) >= 92 * Len(sample)
  /\ 100 * Count(sample, Whitespace) >= 5 * Len(sample)
  /\ IsUtf8(sample)

-----------------------------------------------------------------------------
(* From each position on, the first byte of S, or the end.                 *)
FirstOf(S, s) ==
  LET first[i \in 1 .. Len(s) + 1] ==
        IF i > Len(s) \/ s[i] \in S THEN i ELSE first[i + 1]
  IN first

(* The same for a quote that is not escaped.                               *)
Closing(s) ==
  LET closing[i \in 1 .. Len(s) + 1] ==
        IF i > Len(s) \/ s[i] = Quote THEN i
        ELSE closing[IF s[i] = Backslash /\ i < Len(s) THEN i + 2 ELSE i + 1]
  IN closing

(* A string from quote to quote, with the colon and the blanks behind it   *)
(* where it is a key.                                                      *)
JsonToken(s, i, q) ==
  LET ink == FirstOf(Octet \ Blanks, s) IN
  IF ink[q + 1] <= Len(s) /\ s[ink[q + 1]] = Colon THEN SubSeq(s, i, ink[ink[q + 1] + 1] - 1)
  ELSE SubSeq(s, i, q)

Kept(t) == Len(t) \in (IF t[Len(t)] = Quote THEN 6 ELSE 4) .. MaxJsonToken

(* extract_json_keys: every string. The search goes on behind the closing  *)
(* quote.                                                                  *)
JsonTokens(s) ==
  LET found[i \in 1 .. Len(s) + 1] ==
        IF i > Len(s) THEN <<>>
        ELSE IF s[i] # Quote THEN found[i + 1]
        ELSE LET q == Closing(s)[i + 1]
                 t == JsonToken(s, i, q)
             IN IF q > Len(s) THEN <<>>
                ELSE (IF Kept(t) THEN <<t>> ELSE <<>>) \o found[q + 1]
  IN found[1]

(* extract_repeated_tokens: what stands between whitespace, cut after      *)
(* MaxTokenLen bytes.                                                      *)
Words(s) ==
  LET found[i \in 1 .. Len(s) + 1] ==
        IF i > Len(s) THEN <<>>
        ELSE IF s[i] \in Whitespace THEN found[i + 1]
        ELSE LET end == Min({FirstOf(Whitespace, s)[i], i + MaxTokenLen}) IN
             (IF end - i >= 4 THEN <<SubSeq(s, i, end - 1)>> ELSE <<>>) \o found[end]
  IN found[1]

Frequency(t, found) == Count(found, {t})

Savings(t, found) == Frequency(t, found) * (Len(t) - 2) - (1 + Len(t))

(* The order of byte slices.                                               *)
Less(s, t) ==
  \E k \in 0 .. Len(s) :
    /\ k < Len(t) /\ SubSeq(s, 1, k) = SubSeq(t, 1, k)
    /\ k < Len(s) => s[k + 1] < t[k + 1]

(* The tokens that occur often enough and save more than `profit`, the     *)
(* most profitable first.                                                  *)
Dictionary(found, often, profit) ==
  LET worth == {t \in {found[i] : i \in DOMAIN found} :
                  Frequency(t, found) >= often /\ Savings(t, found) > profit}
      Before(t, u) == \/ Savings(t, found) > Savings(u, found)
                      \/ Savings(t, found) = Savings(u, found) /\ Less(t, u)
      Rank(t) == Cardinality({u \in worth : Before(u, t)}) + 1
  IN [r \in 1 .. Min({Cardinality(worth), MaxDynamicTokens, MaxDictTokens}) |->
        CHOOSE t \in worth : Rank(t) = r]

JsonDictionary(src) == Dictionary(JsonTokens(src), 2, 6)
TextDictionary(src) == Dictionary(Words(src), 3, 8)

(* find_least_frequent_byte: the first of them.                            *)
IsLeastFrequent(b, src) ==
  \A c \in Octet :
    \/ Count(src, {b}) < Count(src, {c})
    \/ Count(src, {b}) = Count(src, {c}) /\ b <= c

(* serialize_token_table                                                   *)
Table(tokens) ==
  LET entries[k \in 0 .. Len(tokens)] ==
        IF k = 0 THEN <<Len(tokens)>>
        ELSE entries[k - 1] \o <<Len(tokens[k])>> \o tokens[k]
  IN entries[Len(tokens)]
=============================================================================
