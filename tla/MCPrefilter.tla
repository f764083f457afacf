----------------------------- MODULE MCPrefilter -----------------------------
(* Prefilter for TLC, with sixteen bytes, words of up to eight and JSON    *)
(* tokens of up to twelve of them: a key can be too short for a token,     *)
(* just one, at and above the longest of a stored table, and too long.     *)
EXTENDS Prefilter

Ctrl == 1
Space == 2
Newline == 3
A == 12
B == 13
C == 14

Strings(S, n) == UNION {[1 .. k -> S] : k \in 0 .. n}

Runs(v, n) == [i \in 1 .. n |-> v]

Repeat(s, n) == [i \in 1 .. n * Len(s) |-> s[((i - 1) % Len(s)) + 1]]

(* A static dictionary has tokens of two bytes, which are never put in, and*)
(* tokens that begin with others.                                          *)
MCJsonDict ==
  <<<<Quote, A, Quote, Colon>>, <<Quote, CloseBrace>>, <<Quote, A, Quote, Colon, Space>>,
    <<Comma, Space, Quote>>>>
MCWebDict == <<<<A, B>>, <<A, B, C>>, <<A, B, C, Space, A>>>>

Quoted(s) == <<Quote>> \o s \o <<Quote>>

Object(s) == <<OpenBrace>> \o s \o <<CloseBrace>>

Values ==
  {<<A>>, <<Space, B, Comma>>, <<Space>> \o Quoted(Runs(C, 8)) \o <<Comma>>,
   Quoted(<<A, Backslash, Quote, B, Backslash, Backslash, C>>)}

MCJson ==
  {Object(Repeat(Quoted(Runs(A, n)) \o <<Colon>> \o v, r)) : n \in 1 .. 10, r \in 2 .. 4, v \in Values}
    \cup {<<Newline>> \o Object(Repeat(Quoted(Runs(A, n)) \o <<Colon>> \o
                                       Quoted(Runs(B, n)) \o <<Colon, Space>>, 3)) : n \in 4 .. 8}
    \cup {<<OpenBracket>> \o Repeat(Quoted(Runs(A, n)) \o <<Comma, Nul>>, r) \o <<CloseBracket>> :
            n \in 3 .. 8, r \in {3, 4}}
    \cup {Object(Quoted(<<A>>) \o <<Colon, Quote>> \o Runs(B, n)) : n \in 6 .. 12}

(* Text with words of all lengths, and behind the sample whatever: all     *)
(* bytes once or twice, so that the escape byte is one of them.            *)
AllBytes(first) == [i \in 1 .. LiteralTag + 1 |-> (i + first) % (LiteralTag + 1)]

MCText ==
  {Repeat(Runs(A, n) \o <<Space>>, r) \o t :
     n \in 3 .. 9, r \in 2 .. 5, t \in {<<>>, AllBytes(0), AllBytes(7)}}
    \cup {Repeat(<<A, B, C, Space>>, 8) \o t : t \in {<<>>, AllBytes(3) \o AllBytes(0)}}
    \cup {Repeat(<<B, A, B, C, A, Newline>> \o w, 4) : w \in {<<>>, <<C, C, C, A, Space>>}}

MCBinary == {s \o Runs(v, 9) : s \in [1 .. 4 -> {0, Ctrl, LiteralTag}], v \in {0, 7}}

MCShort == {Runs(A, n) : n \in {0, 11}}

MCSources == MCJson \cup MCText \cup MCBinary \cup MCShort

Metas ==
  Strings({0, 1, 9}, 1)
    \cup {<<d, v, A>> : d \in {1, 2, 3}, v \in {1, 2}}
    \cup {<<2 + Len(t), A>> \o <<n>> \o t :
            n \in {0, 1, 2}, t \in {<<>>, <<1>>, <<2, B>>, <<3, B, B, B>>, <<0, B>>,
                                    <<9>> \o Runs(B, 9), <<2, B, B, 1, C>>}}
    \cup {<<1, A>>, <<4, A, 1>>}

MCHeads ==
  {<<>>, <<0, 1>>}
    \cup {<<b, t, n>> \o m : b \in {0, 2}, t \in 0 .. 5, n \in {2, 4}, m \in Metas}

MCContents == [1 .. 2 -> {0, 1, A, LiteralTag}] \cup [1 .. 4 -> {0, A, LiteralTag}]
=============================================================================
